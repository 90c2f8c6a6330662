------------------------- MODULE TaskDeliveryProofs -------------------------
(***************************************************************************)
(* The serial delivery of a Task implements the Task repository, and every *)
(* checkpoint has its evidence, through any interruption between two       *)
(* durable writes: for every work budget and every transient allowance.    *)
(***************************************************************************)
EXTENDS TaskDelivery, FiniteSetTheorems, TLAPS

Count(role) == Cardinality(TransientFailures(role))

-----------------------------------------------------------------------------
(* The budgets of the repository                                           *)

\* Attempts are reserved within the budgets: transient failures are about reserved
\* attempts and within each role's allowance.
BudgetInv ==
    /\ status \in TaskStatus
    /\ attempts \in Nat
    /\ failures \subseteq [role : DeliveryRole, attempt : Nat]
    /\ IsFiniteSet(failures)
    /\ \A role \in DeliveryRole : Count(role) <= Limit[role]
    /\ \A f \in failures : f.attempt <= attempts
    /\ WorkBudgetRespected

\* The cardinality of a union of disjoint sets.
LEMMA DisjointUnion ==
  ASSUME NEW S, NEW T, IsFiniteSet(S), IsFiniteSet(T), S \cap T = {}
  PROVE  IsFiniteSet(S \cup T) /\ Cardinality(S \cup T) = Cardinality(S) + Cardinality(T)
  <1>1. /\ IsFiniteSet(S \cup T)
        /\ Cardinality(S \cup T) = Cardinality(S) + Cardinality(T) - Cardinality(S \cap T)
    BY FS_Union, Zenon
  <1>2. Cardinality(S \cap T) = 0
    BY FS_EmptySet
  <1>3. Cardinality(S) \in Nat /\ Cardinality(T) \in Nat
    BY FS_CardinalityType
  <1> QED  BY <1>1, <1>2, <1>3

\* Every transient failure is one of a role.
LEMMA FailuresByRole ==
  ASSUME failures \subseteq [role : DeliveryRole, attempt : Nat], IsFiniteSet(failures)
  PROVE  /\ \A role \in DeliveryRole : Count(role) \in Nat
         /\ Cardinality(failures) = Count("CODER") + Count("QA") + Count("REVIEWER")
  <1> DEFINE C == TransientFailures("CODER")
             Q == TransientFailures("QA")
             R == TransientFailures("REVIEWER")
  <1>1. \A role \in DeliveryRole : TransientFailures(role) \in SUBSET failures
    BY DEF TransientFailures
  <1>2. \A role \in DeliveryRole :
           IsFiniteSet(TransientFailures(role)) /\ Count(role) \in Nat
    BY <1>1, FS_Subset, FS_CardinalityType DEF Count
  <1>3. IsFiniteSet(C) /\ IsFiniteSet(Q) /\ IsFiniteSet(R)
    BY <1>2 DEF DeliveryRole
  <1>4. failures = (C \cup Q) \cup R /\ C \cap Q = {} /\ (C \cup Q) \cap R = {}
    <2>1. \A f \in failures : f.role \in {"CODER", "QA", "REVIEWER"}
      BY DEF DeliveryRole
    <2>2. /\ \A f : f \in C <=> f \in failures /\ f.role = "CODER"
          /\ \A f : f \in Q <=> f \in failures /\ f.role = "QA"
          /\ \A f : f \in R <=> f \in failures /\ f.role = "REVIEWER"
      BY DEF TransientFailures
    <2> HIDE DEF C, Q, R
    <2>3. failures = (C \cup Q) \cup R
      BY <2>1, <2>2
    <2>4. C \cap Q = {} /\ (C \cup Q) \cap R = {}
      BY <2>2
    <2> QED  BY <2>3, <2>4
  <1> HIDE DEF C, Q, R
  <1>5. IsFiniteSet(C \cup Q) /\ Cardinality(C \cup Q) = Cardinality(C) + Cardinality(Q)
    BY <1>3, <1>4, DisjointUnion
  <1>6. Cardinality((C \cup Q) \cup R) = Cardinality(C \cup Q) + Cardinality(R)
    BY <1>3, <1>4, <1>5, DisjointUnion
  <1> QED  BY <1>2, <1>4, <1>5, <1>6 DEF Count, C, Q, R

\* The failures that paid for an earlier attempt.
Paid == {f \in failures : f.attempt < attempts}

\* The total number of attempts follows from the two budgets; one is left while
\* either of them is.
LEMMA AttemptsBounded ==
  ASSUME BudgetInv
  PROVE  /\ WorkAttempt \in Int /\ attempts <= MaxAttempts /\ MaxAttempts \in Nat
         /\ ~WorkBudgetExhausted => attempts < MaxAttempts
         /\ \A role \in DeliveryRole : Count(role) < Limit[role] => attempts < MaxAttempts
  <1>1. Paid \in SUBSET failures
    BY DEF Paid
  <1>2. /\ Cardinality(Paid) \in Nat /\ Cardinality(failures) \in Nat
        /\ Cardinality(Paid) <= Cardinality(failures) /\ IsFiniteSet(Paid)
    BY <1>1, FS_Subset, FS_CardinalityType DEF BudgetInv
  <1>3. /\ \A role \in DeliveryRole : Count(role) \in Nat
        /\ Cardinality(failures) = Count("CODER") + Count("QA") + Count("REVIEWER")
    BY FailuresByRole DEF BudgetInv
  <1>4. /\ Limit["CODER"] \in Nat /\ Limit["QA"] \in Nat /\ Limit["REVIEWER"] \in Nat
        /\ MaxWork \in Nat
    BY PolicyConstants DEF DeliveryRole
  <1>5. /\ Count("CODER") <= Limit["CODER"] /\ Count("QA") <= Limit["QA"]
        /\ Count("REVIEWER") <= Limit["REVIEWER"]
        /\ Count("CODER") \in Nat /\ Count("QA") \in Nat /\ Count("REVIEWER") \in Nat
    BY <1>3 DEF BudgetInv, DeliveryRole
  <1>6. /\ WorkAttempt = attempts - Cardinality(Paid) /\ WorkAttempt <= MaxWork
        /\ attempts \in Nat
    BY DEF WorkAttempt, Paid, BudgetInv, WorkBudgetRespected
  <1>7. WorkAttempt \in Int /\ attempts <= MaxAttempts /\ MaxAttempts \in Nat
    BY <1>2, <1>3, <1>4, <1>5, <1>6 DEF MaxAttempts
  <1>8. ~WorkBudgetExhausted => attempts < MaxAttempts
    BY <1>2, <1>3, <1>4, <1>5, <1>6 DEF MaxAttempts, WorkBudgetExhausted
  <1>9. ASSUME NEW role \in DeliveryRole, Count(role) < Limit[role]
        PROVE  attempts < MaxAttempts
    BY <1>2, <1>3, <1>4, <1>5, <1>6, <1>9 DEF MaxAttempts, DeliveryRole
  <1> QED  BY <1>7, <1>8, <1>9

\* An ordinary attempt is reserved.
LEMMA ReserveKeepsBudget ==
  ASSUME BudgetInv, ~WorkBudgetExhausted, attempts' = attempts + 1, failures' = failures,
         status' \in TaskStatus
  PROVE  BudgetInv'
  <1>1. /\ WorkAttempt \in Int /\ WorkAttempt < MaxWork /\ attempts \in Nat /\ MaxWork \in Nat
    BY AttemptsBounded, PolicyConstants DEF WorkBudgetExhausted, BudgetInv
  <1>2. Paid \in SUBSET Paid' /\ Paid' \in SUBSET failures
    BY <1>1 DEF Paid, BudgetInv
  <1>3. IsFiniteSet(Paid')
    BY <1>2, FS_Subset DEF BudgetInv
  <1>4. /\ Cardinality(Paid) \in Nat /\ Cardinality(Paid') \in Nat
        /\ Cardinality(Paid) <= Cardinality(Paid')
    BY <1>2, <1>3, FS_Subset, FS_CardinalityType
  <1>5. WorkBudgetRespected'
    BY <1>1, <1>4 DEF WorkBudgetRespected, WorkAttempt, Paid
  <1> QED
    BY <1>1, <1>5 DEF BudgetInv, Count, TransientFailures

\* A transient failure is recorded: the attempt it reserves is paid by it.
LEMMA FailureKeepsBudget ==
  ASSUME BudgetInv, NEW role \in DeliveryRole, \A f \in failures : f.attempt # attempts,
         Count(role) < Limit[role], WithRetryFailure(role), status' \in TaskStatus
  PROVE  /\ BudgetInv'
         /\ ReservesNext(role) <=> Count(role) + 1 < Limit[role]
         /\ Count(role)' = Count(role) + 1
         /\ attempts' = IF Count(role) + 1 < Limit[role] THEN attempts + 1 ELSE attempts
  <1> DEFINE g == [role |-> role, attempt |-> attempts]
  <1>1. /\ attempts \in Nat /\ MaxWork \in Nat /\ \A q \in DeliveryRole : Limit[q] \in Nat
        /\ WorkAttempt \in Int /\ attempts < MaxAttempts
    BY AttemptsBounded, PolicyConstants DEF BudgetInv
  <1>2. ReservesNext(role) <=> Count(role) + 1 < Limit[role]
    BY <1>1 DEF ReservesNext, Count
  <1>3. /\ failures' = failures \cup {g} /\ g \in [role : DeliveryRole, attempt : Nat]
        /\ g.role = role /\ g.attempt = attempts /\ g \notin failures
        /\ attempts' = IF Count(role) + 1 < Limit[role] THEN attempts + 1 ELSE attempts
    BY <1>1, <1>2 DEF WithRetryFailure, BudgetInv
  <1> HIDE DEF g
  <1>4. IsFiniteSet(failures')
    BY <1>3, FS_AddElement DEF BudgetInv
  <1>5. \A q \in DeliveryRole : Count(q) \in Nat
    BY FailuresByRole DEF BudgetInv
  <1>6. Count(role)' = Count(role) + 1
    <2>1. TransientFailures(role)' = TransientFailures(role) \cup {g}
      BY <1>3 DEF TransientFailures
    <2>2. g \notin TransientFailures(role) /\ TransientFailures(role) \in SUBSET failures
      BY <1>3 DEF TransientFailures
    <2>3. IsFiniteSet(TransientFailures(role))
      BY <2>2, FS_Subset DEF BudgetInv
    <2> QED  BY <2>1, <2>2, <2>3, FS_AddElement DEF Count
  <1>7. ASSUME NEW q \in DeliveryRole, q # role
        PROVE  Count(q)' = Count(q)
    <2>1. TransientFailures(q)' = TransientFailures(q)
      BY <1>3, <1>7 DEF TransientFailures
    <2> QED  BY <2>1 DEF Count
  <1>8. \A q \in DeliveryRole : Count(q)' <= Limit[q]
    BY <1>1, <1>5, <1>6, <1>7 DEF BudgetInv
  <1>9. \A f \in failures' : f.attempt <= attempts'
    BY <1>1, <1>3 DEF BudgetInv
  <1>10. WorkBudgetRespected'
    <2>1. Paid \in SUBSET failures /\ IsFiniteSet(Paid)
      BY FS_Subset DEF Paid, BudgetInv
    <2>2. Cardinality(Paid) \in Nat
      BY <2>1, FS_CardinalityType
    <2>3. CASE attempts' = attempts
      <3>1. Paid' = Paid
        BY <1>1, <1>3, <2>3 DEF Paid
      <3> QED  BY <3>1, <2>3 DEF BudgetInv, WorkBudgetRespected, WorkAttempt, Paid
    <2>4. CASE attempts' = attempts + 1
      <3>1. Paid' = Paid \cup {g} /\ g \notin Paid
        <4>1. \A f \in failures : f.attempt \in Nat /\ f.attempt <= attempts /\ f.attempt # attempts
          BY DEF BudgetInv
        <4> QED  BY <1>1, <1>3, <2>4, <4>1 DEF Paid
      <3>2. Cardinality(Paid') = Cardinality(Paid) + 1
        BY <2>1, <3>1, FS_AddElement
      <3> QED
        BY <1>1, <2>2, <2>4, <3>2 DEF BudgetInv, WorkBudgetRespected, WorkAttempt, Paid
    <2> QED  BY <1>3, <2>3, <2>4
  <1>11. failures' \subseteq [role : DeliveryRole, attempt : Nat] /\ attempts' \in Nat
    BY <1>1, <1>3 DEF BudgetInv
  <1>12. BudgetInv'
    BY <1>4, <1>8, <1>9, <1>10, <1>11 DEF BudgetInv
  <1> QED  BY <1>2, <1>3, <1>6, <1>12

\* Nothing about the budgets changes.
LEMMA SameBudget ==
  ASSUME BudgetInv, attempts' = attempts, failures' = failures, status' \in TaskStatus
  PROVE  BudgetInv'
  BY DEF BudgetInv, Count, TransientFailures, WorkBudgetRespected, WorkAttempt

\* A new Task has spent nothing.
LEMMA BudgetInit ==
  ASSUME RepositoryInit
  PROVE  BudgetInv
  <1>1. failures = {} /\ attempts = 0 /\ IsFiniteSet({}) /\ Cardinality({}) = 0
    BY FS_EmptySet DEF RepositoryInit
  <1>2. \A role \in DeliveryRole : Count(role) = 0
    BY <1>1 DEF Count, TransientFailures
  <1>3. WorkAttempt = 0
    BY <1>1 DEF WorkAttempt
  <1> QED
    BY <1>1, <1>2, <1>3, PolicyConstants DEF BudgetInv, RepositoryInit, TaskStatus,
       WorkBudgetRespected

-----------------------------------------------------------------------------
(* The repository by itself                                                *)

\* Every step of the repository keeps the budgets.
LEMMA RepositoryKeepsBudget ==
  ASSUME BudgetInv, RepositoryNext
  PROVE  BudgetInv'
  <1>1. CASE \E to \in TaskStatus : AppendEvent(to)
    BY <1>1, SameBudget DEF AppendEvent
  <1>2. CASE RecordAttempt
    BY <1>2, ReserveKeepsBudget DEF RecordAttempt, BudgetInv
  <1>3. ASSUME NEW role \in DeliveryRole, RecordRetryFailure(role)
        PROVE  BudgetInv'
    <2>1. /\ \A f \in failures : f.attempt # attempts
          /\ Count(role) < Limit[role] /\ WithRetryFailure(role) /\ status' \in TaskStatus
      BY <1>3 DEF RecordRetryFailure, FailureRecordable, Count, BudgetInv
    <2> QED  BY <2>1, FailureKeepsBudget
  <1> QED  BY <1>1, <1>2, <1>3 DEF RepositoryNext

\* WorkBudgetRespected holds for every policy: no sequence of legal calls of the
\* repository (append_event, record_attempt, record_retry_failure) lets ordinary
\* work exceed max_work_attempts.
THEOREM RepositoryBudgetHolds == RepositorySpec => []WorkBudgetRespected
  <1>1. RepositoryInit => BudgetInv
    BY BudgetInit
  <1>2. BudgetInv /\ [RepositoryNext]_repositoryVars => BudgetInv'
    <2>1. BudgetInv /\ UNCHANGED repositoryVars => BudgetInv'
      BY SameBudget DEF repositoryVars, BudgetInv
    <2> QED  BY <2>1, RepositoryKeepsBudget
  <1>3. BudgetInv => WorkBudgetRespected
    BY DEF BudgetInv
  <1> QED  BY <1>1, <1>2, <1>3, PTL DEF RepositorySpec

-----------------------------------------------------------------------------
(* Maxima: the newest artifact of a kind                                   *)

\* A non-empty bounded set of numbers has a maximum, and Max is it.
LEMMA MaxExists ==
  ASSUME NEW S \in SUBSET Nat, S # {}, NEW b \in Nat, \A s \in S : s <= b
  PROVE  Max(S) \in S /\ \A s \in S : s <= Max(S)
  <1> DEFINE U == {m \in Nat : \A s \in S : s <= m}
             R == {ss \in Nat \X Nat : ss[1] < ss[2]}
  <1>1. IsWellFoundedOn(R, Nat)
    BY NatLessThanWellFounded, Zenon DEF OpToRel
  <1>2. U \subseteq Nat /\ U # {}
    BY DEF U
  <1>3. PICK m \in U : \A y \in U : <<y, m>> \notin R
    <2> HIDE DEF U, R
    <2> QED  BY <1>1, <1>2, WFMin
  <1>4. \A y \in U : ~(y < m)
    BY <1>3
  <1>5. m \in S
    <2> SUFFICES ASSUME m \notin S PROVE FALSE
      OBVIOUS
    <2>1. \A s \in S : s < m
      BY <1>3
    <2>2. m \in Nat /\ m # 0
      <3>1. PICK s \in S : s \in Nat
        OBVIOUS
      <3> QED  BY <2>1, <3>1
    <2>3. m - 1 \in Nat /\ \A s \in S : s <= m - 1
      BY <2>1, <2>2
    <2> QED  BY <2>2, <2>3, <1>4
  <1>6. \E x \in S : \A y \in S : x >= y
    BY <1>3, <1>5
  <1>7. Max(S) \in S /\ \A y \in S : Max(S) >= y
    BY <1>6 DEF Max
  <1> QED  BY <1>7

\* There is only one maximum.
LEMMA MaxUnique ==
  ASSUME NEW S \in SUBSET Int, NEW n \in S, \A s \in S : s <= n
  PROVE  Max(S) = n
  <1>1. \E x \in S : \A y \in S : x >= y
    OBVIOUS
  <1>2. Max(S) \in S /\ \A y \in S : Max(S) >= y
    BY <1>1 DEF Max
  <1>3. Max(S) \in Int /\ n \in Int /\ Max(S) >= n /\ Max(S) <= n
    BY <1>2
  <1> QED  BY <1>3

\* Artifacts of kind k.
OfKind(k) == {i \in DOMAIN arts : arts[i].kind = k}

\* Latest(k) is the newest artifact of kind k, 0 when there is none.
LEMMA LatestIs ==
  ASSUME arts \in Seq(Artifact), NEW k
  PROVE  /\ Latest(k) \in 0 .. Len(arts)
         /\ Latest(k) # 0 => Latest(k) \in DOMAIN arts /\ arts[Latest(k)].kind = k
         /\ \A i \in DOMAIN arts : arts[i].kind = k => i <= Latest(k)
         /\ Latest(k) = 0 <=> \A i \in DOMAIN arts : arts[i].kind # k
  <1>1. Len(arts) \in Nat /\ DOMAIN arts = 1 .. Len(arts)
    OBVIOUS
  <1>2. /\ {0} \cup OfKind(k) \in SUBSET Nat /\ {0} \cup OfKind(k) # {}
        /\ \A s \in {0} \cup OfKind(k) : s <= Len(arts)
    BY <1>1 DEF OfKind
  <1>3. /\ Latest(k) \in {0} \cup OfKind(k)
        /\ \A s \in {0} \cup OfKind(k) : s <= Latest(k)
    BY <1>1, <1>2, MaxExists DEF Latest, OfKind
  <1> QED  BY <1>1, <1>3 DEF OfKind

\* An index with these properties is the latest one.
LEMMA LatestUnique ==
  ASSUME arts \in Seq(Artifact), NEW k, NEW n \in Nat,
         n # 0 => n \in DOMAIN arts /\ arts[n].kind = k,
         \A i \in DOMAIN arts : arts[i].kind = k => i <= n
  PROVE  Latest(k) = n
  BY LatestIs

\* Publishing an artifact makes it the latest of its kind and of no other.
LEMMA LatestPublished ==
  ASSUME arts \in Seq(Artifact), NEW a \in Artifact, arts' = Append(arts, a), NEW k
  PROVE  /\ arts' \in Seq(Artifact) /\ Len(arts') = Len(arts) + 1
         /\ \A i \in DOMAIN arts : i \in DOMAIN arts' /\ arts'[i] = arts[i]
         /\ \A i \in DOMAIN arts' : i \in DOMAIN arts \/ i = Len(arts) + 1
         /\ arts'[Len(arts) + 1] = a /\ Len(arts) + 1 \in DOMAIN arts'
         /\ Latest(k)' = IF a.kind = k THEN Len(arts) + 1 ELSE Latest(k)
  <1>1. /\ arts' \in Seq(Artifact) /\ Len(arts') = Len(arts) + 1 /\ Len(arts) \in Nat
        /\ DOMAIN arts = 1 .. Len(arts) /\ DOMAIN arts' = 1 .. Len(arts) + 1
        /\ \A i \in DOMAIN arts : i \in DOMAIN arts' /\ arts'[i] = arts[i]
        /\ \A i \in DOMAIN arts' : i \in DOMAIN arts \/ i = Len(arts) + 1
        /\ arts'[Len(arts) + 1] = a /\ Len(arts) + 1 \in DOMAIN arts'
    OBVIOUS
  <1>2. /\ Latest(k) \in 0 .. Len(arts)
        /\ Latest(k) # 0 => Latest(k) \in DOMAIN arts /\ arts[Latest(k)].kind = k
        /\ \A i \in DOMAIN arts : arts[i].kind = k => i <= Latest(k)
    BY LatestIs
  <1>3. /\ Latest(k)' \in 0 .. Len(arts')
        /\ Latest(k)' # 0 => Latest(k)' \in DOMAIN arts' /\ arts'[Latest(k)'].kind = k
        /\ \A i \in DOMAIN arts' : arts'[i].kind = k => i <= Latest(k)'
    <2>1. ASSUME NEW T, T = arts'
          PROVE  LET last == Max({0} \cup {i \in DOMAIN T : T[i].kind = k})
                 IN  /\ last \in 0 .. Len(T)
                     /\ last # 0 => last \in DOMAIN T /\ T[last].kind = k
                     /\ \A i \in DOMAIN T : T[i].kind = k => i <= last
      <3> DEFINE S == {0} \cup {i \in DOMAIN T : T[i].kind = k}
      <3>1. Len(T) \in Nat /\ DOMAIN T = 1 .. Len(T)
        BY <1>1, <2>1
      <3>2. S \in SUBSET Nat /\ S # {} /\ \A s \in S : s <= Len(T)
        BY <3>1
      <3>3. Max(S) \in S /\ \A s \in S : s <= Max(S)
        <4> HIDE DEF S
        <4> QED  BY <3>1, <3>2, MaxExists
      <3> QED  BY <3>1, <3>3
    <2> QED  BY <2>1 DEF Latest
  <1>4. CASE a.kind = k
    BY <1>1, <1>2, <1>3, <1>4
  <1>5. CASE a.kind # k
    BY <1>1, <1>2, <1>3, <1>5
  <1> QED  BY <1>1, <1>4, <1>5

\* Without a publication the newest artifacts stay what they are.
LEMMA LatestSame ==
  ASSUME arts' = arts
  PROVE  (\A k : Latest(k)' = Latest(k)) /\ ActiveProgress' = ActiveProgress
  BY DEF Latest, ActiveProgress

\* Retiring an artifact changes nothing but its kind.
LEMMA RetireTyped ==
  ASSUME arts \in Seq(Artifact), NEW n \in DOMAIN arts,
         arts' = [arts EXCEPT ![n].kind = "RETIRED"]
  PROVE  /\ arts' \in Seq(Artifact) /\ DOMAIN arts' = DOMAIN arts /\ Len(arts') = Len(arts)
         /\ \A i \in DOMAIN arts :
               /\ arts[i] \in Artifact /\ arts'[i] \in Artifact
               /\ i # n => arts'[i] = arts[i]
               /\ arts'[i].attempt = arts[i].attempt /\ arts'[i].target = arts[i].target
               /\ arts'[i].supersedes = arts[i].supersedes
         /\ arts'[n].kind = "RETIRED"
  <1> DEFINE a == [arts[n] EXCEPT !.kind = "RETIRED"]
  <1>1. arts[n] \in Artifact
    OBVIOUS
  <1>2. /\ a \in Artifact /\ a.kind = "RETIRED" /\ a.attempt = arts[n].attempt
        /\ a.target = arts[n].target /\ a.supersedes = arts[n].supersedes
    BY <1>1 DEF Artifact
  <1>3. arts' = [arts EXCEPT ![n] = a]
    OBVIOUS
  <1> HIDE DEF a
  <1>4. arts' \in Seq(Artifact) /\ DOMAIN arts' = DOMAIN arts /\ Len(arts') = Len(arts)
    BY <1>2, <1>3
  <1>5. arts'[n] = a /\ \A i \in DOMAIN arts : i # n => arts'[i] = arts[i]
    BY <1>3
  <1> QED  BY <1>2, <1>4, <1>5

\* The unconsumed progress checkpoint is the newest progress artifact, and no
\* candidate is newer.
LEMMA ActiveProgressIs ==
  ASSUME arts \in Seq(Artifact)
  PROVE  /\ ActiveProgress \in 0 .. Len(arts)
         /\ ActiveProgress # 0 => ActiveProgress = Latest("PROGRESS")
         /\ ActiveProgress = 0 => Latest("PROGRESS") <= Latest("IMPLEMENTATION")
  BY LatestIs DEF ActiveProgress

-----------------------------------------------------------------------------
(* The inductive invariant of a pass                                       *)

Live == status \notin Terminal

BoundaryOrNone == RoleRunBoundary \cup {NoBoundary}

PassRecord == [pc : PassPC, permit : BoundaryOrNone, consumed : BOOLEAN, recover : BOOLEAN]

TypeInv ==
    /\ arts \in Seq(Artifact)
    /\ step \in QueuedStep
    /\ admitted \in BOOLEAN
    /\ pass \in PassRecord

\* The events end with the Task's status, each at an attempt reserved before it;
\* a Task whose QUEUED event has no later attempt still has work budget for one.
HistoryInv ==
    /\ events \in Seq(StateEvent)
    /\ status = "NEW" <=> events = <<>>
    /\ Live => \A i \in DOMAIN events : events[i].attempt \in 1 .. attempts
    /\ events # <<>> => events[Len(events)].to = status
    /\ AttemptsReservedFirst
    /\ status = "QUEUED" /\ attempts <= events[Len(events)].attempt => ~WorkBudgetExhausted

\* Roles publish only once the Task is adopted by the queue.  A step at the Task's own revision is for the role of the Task's status, and a
\* pass holds the permit of the open step, which does not wait.
StepInv ==
    /\ step = NoStep \/ (admitted /\ step.boundary \in RoleRunBoundary)
    /\ admitted => status \notin {"NEW", "PLANNING"}
    /\ ~admitted => \A i \in DOMAIN arts : arts[i].kind = "PLAN"
    /\ AdoptedHasStep
    /\ step # NoStep /\ step.boundary.revision = Revision =>
          status = StatusOf(step.boundary.role)
    /\ pass.pc # "off" => ~step.waiting /\ pass.permit = step.boundary

\* Where a pass is: a permit that can still be used, and a Run, are of a role with
\* transient allowance left.
PassInv ==
    /\ pass.pc \notin {"off", "loop"} => status \in {"IMPLEMENTING", "QA", "REVIEW"}
    /\ (/\ pass.pc = "loop" /\ ~pass.consumed
        /\ pass.permit # NoBoundary /\ pass.permit.revision = Revision) => ~TransientExhausted
    /\ pass.pc = "run" =>
          /\ pass.consumed
          /\ pass.permit.role \in DeliveryRole
          /\ pass.permit = Boundary(pass.permit.role)
          /\ status = StatusOf(pass.permit.role)
          /\ ~TransientExhausted
    /\ pass.pc = "published" => status = "IMPLEMENTING"
    /\ pass.pc = "rejected" =>
          status = "QA" /\ pass.consumed /\ pass.permit = Boundary("QA")
    /\ pass.pc = "route" => status \in {"QA", "REVIEW"}

\* A transient failure of the current attempt is the one that used up its role's
\* allowance, and only the end of the Task follows.
FailureInv ==
    \A f \in failures : f.attempt = attempts /\ Live =>
        /\ status = StatusOf(f.role) /\ Count(f.role) = Limit[f.role]
        /\ pass.pc \in {"off", "block"}

CoreInv == TypeInv /\ BudgetInv /\ HistoryInv /\ StepInv /\ PassInv /\ FailureInv

\* The status a role executes in identifies the role.
LEMMA StatusOfIs ==
  /\ StatusOf("CODER") = "IMPLEMENTING" /\ StatusOf("QA") = "QA"
  /\ StatusOf("REVIEWER") = "REVIEW"
  /\ \A role \in DeliveryRole : StatusOf(role) \in {"IMPLEMENTING", "QA", "REVIEW"}
  /\ \A role, q \in DeliveryRole : StatusOf(role) = StatusOf(q) => role = q
  BY DEF StatusOf, DeliveryRole

\* The attempt of the last QUEUED event is that of the last event.
LEMMA QueuedAttemptIs ==
  ASSUME HistoryInv, status = "QUEUED"
  PROVE  QueuedAttempt = events[Len(events)].attempt
  <1> DEFINE Q == {j \in DOMAIN events : events[j].to = "QUEUED"}
             S == {0} \cup {events[i].attempt : i \in Q}
             n == events[Len(events)].attempt
  <1>1. /\ Len(events) \in Nat /\ DOMAIN events = 1 .. Len(events) /\ Len(events) \in DOMAIN events
        /\ events[Len(events)].to = "QUEUED"
        /\ \A i \in DOMAIN events : events[i].attempt \in Nat
    <2>1. events # <<>> /\ events \in Seq(StateEvent)
      BY DEF HistoryInv
    <2>2. /\ Len(events) \in Nat /\ DOMAIN events = 1 .. Len(events)
          /\ Len(events) \in DOMAIN events
          /\ \A i \in DOMAIN events : events[i] \in StateEvent
      BY <2>1
    <2>3. \A i \in DOMAIN events : events[i].attempt \in Nat
      BY <2>2 DEF StateEvent
    <2> QED  BY <2>1, <2>2, <2>3 DEF HistoryInv
  <1>2. \A i \in DOMAIN events : events[i].attempt <= n
    BY <1>1 DEF HistoryInv, AttemptsReservedFirst
  <1>3. n \in S /\ S \in SUBSET Int /\ \A s \in S : s <= n
    BY <1>1, <1>2
  <1>4. Max(S) = n
    <2> HIDE DEF S, n
    <2> QED  BY <1>3, MaxUnique
  <1> QED  BY <1>4 DEF QueuedAttempt

\* Every live Task that is not NEW has a reserved attempt.
LEMMA AttemptReserved ==
  ASSUME BudgetInv, HistoryInv, Live, status # "NEW"
  PROVE  /\ attempts \in Nat /\ attempts # 0 /\ Len(events) \in Nat /\ Len(events) \in DOMAIN events
         /\ events[Len(events)] \in StateEvent /\ events[Len(events)].attempt \in 1 .. attempts
  <1>1. events # <<>> /\ attempts \in Nat
    BY DEF HistoryInv, BudgetInv
  <1>2. Len(events) \in Nat /\ Len(events) \in DOMAIN events /\ events[Len(events)] \in StateEvent
    BY <1>1 DEF HistoryInv
  <1>3. events[Len(events)].attempt \in 1 .. attempts
    BY <1>2 DEF HistoryInv, Live
  <1> QED  BY <1>1, <1>2, <1>3

\* An event is appended to the history of a live Task at its current attempt.
LEMMA HistoryGrows ==
  ASSUME BudgetInv, HistoryInv, Live, attempts # 0,
         NEW to \in TaskStatus \ {"NEW"}, NEW ids \in SUBSET Nat,
         status' = to, attempts' = attempts, failures' = failures,
         events' = Append(events, [from |-> status, to |-> to, attempt |-> attempts,
                                   arts |-> ids]),
         to = "QUEUED" => ~WorkBudgetExhausted
  PROVE  HistoryInv' /\ Revision' = Revision + 1 /\ Revision \in Nat
  <1> DEFINE e == [from |-> status, to |-> to, attempt |-> attempts, arts |-> ids]
  <1>1. attempts \in Nat /\ attempts \in 1 .. attempts /\ status \in TaskStatus
    BY DEF BudgetInv
  <1>2. e \in StateEvent /\ e.to = to /\ e.attempt = attempts
    BY <1>1 DEF StateEvent
  <1>3. events' = Append(events, e)
    OBVIOUS
  <1> HIDE DEF e
  <1>4. /\ events' \in Seq(StateEvent) /\ Len(events') = Len(events) + 1 /\ Len(events) \in Nat
        /\ events'[Len(events')] = e /\ events' # <<>>
        /\ DOMAIN events' = 1 .. Len(events) + 1 /\ DOMAIN events = 1 .. Len(events)
        /\ \A i \in DOMAIN events : events'[i] = events[i]
        /\ events'[Len(events) + 1] = e
    BY <1>2, <1>3 DEF HistoryInv
  <1>5. \A i \in DOMAIN events : events[i].attempt \in 1 .. attempts
    BY DEF HistoryInv
  <1>6. \A i \in DOMAIN events' : events'[i].attempt \in 1 .. attempts
    BY <1>1, <1>2, <1>4, <1>5
  <1>7. ASSUME NEW i \in DOMAIN events', NEW j \in DOMAIN events', i < j
        PROVE  events'[i].attempt <= events'[j].attempt
    <2>1. i \in DOMAIN events /\ i \in Nat /\ j \in Nat /\ (j \in DOMAIN events \/ j = Len(events) + 1)
      BY <1>4, <1>7
    <2>2. CASE j \in DOMAIN events
      BY <2>1, <2>2, <1>4, <1>7 DEF HistoryInv, AttemptsReservedFirst
    <2>3. CASE j = Len(events) + 1
      BY <2>1, <2>3, <1>2, <1>4, <1>5
    <2> QED  BY <2>1, <2>2, <2>3
  <1>8. AttemptsReservedFirst'
    BY <1>6, <1>7 DEF AttemptsReservedFirst
  <1>9. to = "QUEUED" => ~WorkBudgetExhausted'
    BY DEF WorkBudgetExhausted, WorkAttempt
  <1> QED
    BY <1>1, <1>2, <1>4, <1>6, <1>8, <1>9 DEF HistoryInv, Revision

\* The history is unchanged; attempts may be reserved.
LEMMA HistoryKept ==
  ASSUME BudgetInv, HistoryInv, status' = status, events' = events, attempts' \in Nat,
         \/ attempts' = attempts /\ failures' = failures
         \/ attempts' = attempts + 1
         \/ attempts' = attempts /\ status # "QUEUED"
  PROVE  HistoryInv' /\ Revision' = Revision /\ Revision \in Nat
  <1>1. attempts \in Nat /\ attempts <= attempts'
    BY DEF BudgetInv
  <1>2. Live => \A i \in DOMAIN events : events[i].attempt \in 1 .. attempts'
    BY <1>1 DEF HistoryInv
  <1>3. AttemptsReservedFirst'
    BY <1>1 DEF HistoryInv, AttemptsReservedFirst
  <1>4. ASSUME status = "QUEUED", attempts' <= events[Len(events)].attempt
        PROVE  ~WorkBudgetExhausted'
    <2>1. Live /\ status # "NEW"
      BY <1>4 DEF Live, Terminal
    <2>2. events[Len(events)].attempt \in 1 .. attempts
      BY <2>1, AttemptReserved
    <2>3. attempts' = attempts /\ failures' = failures
      BY <1>1, <1>4, <2>2
    <2>4. WorkBudgetExhausted' = WorkBudgetExhausted
      BY <2>3 DEF WorkBudgetExhausted, WorkAttempt
    <2> QED  BY <1>4, <2>3, <2>4 DEF HistoryInv
  <1>5. Revision' = Revision /\ Revision \in Nat
    BY DEF Revision, HistoryInv
  <1> QED  BY <1>2, <1>3, <1>4, <1>5 DEF HistoryInv, Live

\* What every step of the delivery is shown to do.
CoreOK == CoreInv' /\ [RepositoryNext]_repositoryVars

\* Facts about the open step and the permit.
LEMMA StepFacts ==
  ASSUME CoreInv
  PROVE  /\ Revision \in Nat /\ attempts \in Nat /\ status \in TaskStatus
         /\ step \in QueuedStep /\ NoStep \in QueuedStep /\ step.item \in Nat
         /\ NoStep.boundary = NoBoundary /\ NoStep.waiting = FALSE
         /\ NoBoundary \notin RoleRunBoundary
         /\ step # NoStep => /\ admitted /\ step.boundary \in RoleRunBoundary
                             /\ step.boundary.role \in DeliveryRole
                             /\ step.boundary.revision \in Nat /\ step.boundary.attempt \in Nat
                             /\ step.boundary.revision <= Revision
                             /\ step.boundary.attempt <= attempts
         /\ pass.pc # "off" /\ pass.permit # NoBoundary => step # NoStep
         /\ step.waiting => step # NoStep /\ pass.pc = "off"
  <1>1. /\ Revision \in Nat /\ attempts \in Nat /\ status \in TaskStatus
        /\ step \in QueuedStep
    BY DEF CoreInv, HistoryInv, BudgetInv, TypeInv, Revision
  <1>9. step.item \in Nat /\ NoStep \in QueuedStep
    BY <1>1 DEF QueuedStep, NoStep
  <1>2. NoStep.boundary = NoBoundary /\ NoStep.waiting = FALSE
    BY DEF NoStep
  <1>3. NoBoundary \notin RoleRunBoundary
    BY DEF NoBoundary, RoleRunBoundary, DeliveryRole
  <1>4. step # NoStep => /\ admitted /\ step.boundary \in RoleRunBoundary
                         /\ step.boundary.revision <= Revision
                         /\ step.boundary.attempt <= attempts
    BY DEF CoreInv, StepInv, AdoptedHasStep
  <1>5. \A b \in RoleRunBoundary : b.role \in DeliveryRole /\ b.revision \in Nat /\ b.attempt \in Nat
    BY DEF RoleRunBoundary
  <1>6. pass.pc # "off" => ~step.waiting /\ pass.permit = step.boundary
    BY DEF CoreInv, StepInv
  <1>7. pass.pc # "off" /\ pass.permit # NoBoundary => step # NoStep
    BY <1>2, <1>6
  <1>8. step.waiting => step # NoStep /\ pass.pc = "off"
    BY <1>2, <1>6
  <1> QED  BY <1>1, <1>2, <1>3, <1>4, <1>5, <1>7, <1>8, <1>9

\* The record of a newly published step.
LEMMA PublishedIs ==
  ASSUME CoreInv, NEW b \in RoleRunBoundary
  PROVE  /\ Published(b) \in QueuedStep /\ Published(b) # NoStep
         /\ Published(b).item = step.item + 1 /\ Published(b).boundary = b
         /\ ~Published(b).waiting
         /\ [Published(b) EXCEPT !.static = "SPENT"] \in QueuedStep
         /\ [Published(b) EXCEPT !.static = "SPENT"] # NoStep
         /\ [Published(b) EXCEPT !.static = "SPENT"].item = step.item + 1
         /\ [Published(b) EXCEPT !.static = "SPENT"].boundary = b
         /\ [Published(b) EXCEPT !.static = "SPENT"].static = "SPENT"
         /\ ~[Published(b) EXCEPT !.static = "SPENT"].waiting
  <1> DEFINE p == Published(b)
             q == [Published(b) EXCEPT !.static = "SPENT"]
  <1>1. step.item \in Nat /\ b # NoBoundary /\ b \in BoundaryOrNone
    BY StepFacts DEF BoundaryOrNone
  <1>2. p \in QueuedStep
    BY <1>1 DEF Published, QueuedStep
  <1>3. p.item = step.item + 1 /\ p.boundary = b /\ ~p.waiting
    BY DEF Published
  <1>4. q \in QueuedStep
    BY <1>2 DEF QueuedStep
  <1>5. q.item = p.item /\ q.boundary = p.boundary /\ q.waiting = p.waiting /\ q.static = "SPENT"
    BY <1>2 DEF QueuedStep
  <1>6. NoStep.boundary = NoBoundary
    BY DEF NoStep
  <1>7. p # NoStep /\ q # NoStep
    BY <1>1, <1>3, <1>5, <1>6
  <1> QED  BY <1>2, <1>3, <1>4, <1>5, <1>7

\* The Task is not written.
LEMMA CoreNoWrite ==
  ASSUME CoreInv, UNCHANGED <<status, attempts, failures, events>>,
         TypeInv', StepInv', PassInv', FailureInv'
  PROVE  CoreOK
  <1>1. BudgetInv'
    BY SameBudget DEF CoreInv, BudgetInv
  <1>2. HistoryInv'
    BY HistoryKept DEF CoreInv, BudgetInv
  <1> QED  BY <1>1, <1>2 DEF CoreOK, CoreInv, repositoryVars

\* The pass is over.
LEMMA PassEnded ==
  ASSUME pass' = NoPass
  PROVE  /\ PassInv'
         /\ pass' \in PassRecord /\ pass'.pc = "off" /\ ~pass'.recover /\ ~pass'.consumed
  <1>1. /\ pass' \in PassRecord /\ pass'.pc = "off" /\ ~pass'.recover /\ ~pass'.consumed
    BY DEF NoPass, PassRecord, PassPC, BoundaryOrNone
  <1>2. PassInv'
    BY <1>1 DEF PassInv
  <1> QED  BY <1>1, <1>2

\* Nothing about failures and attempts changes.
LEMMA FailureKept ==
  ASSUME FailureInv, UNCHANGED <<status, attempts, failures>>,
         pass'.pc = "off" \/ pass.pc \notin {"off", "block"} \/ pass'.pc = pass.pc
  PROVE  FailureInv'
  BY DEF FailureInv, Live, Count, TransientFailures

\* The pass goes on to another point with nothing written but artifacts.
LEMMA CoreMoves ==
  ASSUME CoreInv, UNCHANGED <<status, attempts, failures, events, step, admitted>>,
         arts' \in Seq(Artifact), pass' \in PassRecord, PassInv', FailureInv',
         ~admitted => \A i \in DOMAIN arts' : arts'[i].kind = "PLAN",
         pass'.pc # "off" => ~step.waiting /\ pass'.permit = step.boundary
  PROVE  CoreOK
  <1>1. TypeInv'
    BY DEF CoreInv, TypeInv
  <1>2. Revision' = Revision
    BY DEF Revision
  <1>3. StepInv'
    BY <1>2 DEF CoreInv, StepInv, AdoptedHasStep
  <1> QED  BY <1>1, <1>3, CoreNoWrite

\* A pass is stopped.
LEMMA CoreCrash ==
  ASSUME CoreInv, EndPass,
         UNCHANGED <<status, attempts, failures, events, arts, step, admitted>>
  PROVE  CoreOK
  BY PassEnded, FailureKept, CoreMoves DEF EndPass, CoreInv, TypeInv, StepInv

\* A pass begins.
LEMMA CoreBegin ==
  ASSUME CoreInv, Begin
  PROVE  CoreOK
  <1>1. /\ pass.pc = "off" /\ step.boundary \in BoundaryOrNone /\ status \in TaskStatus
        /\ ~step.waiting
    <2>1. step \in QueuedStep
      BY DEF CoreInv, TypeInv
    <2>2. step.boundary \in BoundaryOrNone
      BY <2>1 DEF QueuedStep, BoundaryOrNone
    <2>3. pass.pc = "off" /\ status \in TaskStatus /\ ~step.waiting
      BY StepFacts DEF Begin, CoreInv, BudgetInv
    <2> QED  BY <2>2, <2>3
  <1>2. /\ pass'.pc = IF TransientExhausted THEN "block" ELSE "loop"
        /\ pass'.permit = step.boundary /\ pass'.consumed = FALSE
        /\ pass'.recover = RecoverableCandidate
        /\ UNCHANGED <<status, attempts, failures, events, arts, step, admitted>>
    BY DEF Begin
  <1>3. RecoverableCandidate \in BOOLEAN
    BY DEF RecoverableCandidate
  <1>4. pass' \in PassRecord
    BY <1>1, <1>3 DEF Begin, PassRecord, PassPC
  <1>5. TransientExhausted => status \in {"IMPLEMENTING", "QA", "REVIEW"}
    BY StatusOfIs DEF TransientExhausted
  <1>6. TransientExhausted' = TransientExhausted /\ Revision' = Revision
    BY <1>2 DEF TransientExhausted, TransientFailures, Revision
  <1>7. PassInv'
    BY <1>2, <1>5, <1>6 DEF PassInv
  <1>8. FailureInv'
    <2> SUFFICES ASSUME NEW f \in failures, f.attempt = attempts, Live
                 PROVE  /\ status = StatusOf(f.role) /\ Count(f.role) = Limit[f.role]
                        /\ pass'.pc \in {"off", "block"}
      BY <1>2 DEF FailureInv, Live, Count, TransientFailures
    <2>1. status = StatusOf(f.role) /\ Count(f.role) = Limit[f.role] /\ f.role \in DeliveryRole
      BY DEF CoreInv, FailureInv, BudgetInv
    <2>2. TransientExhausted
      BY <2>1, PolicyConstants DEF TransientExhausted, Count
    <2> QED  BY <1>2, <2>1, <2>2
  <1> QED  BY <1>1, <1>2, <1>4, <1>7, <1>8, CoreMoves DEF CoreInv, TypeInv, StepInv

\* A Run begins with the permit of its step.
LEMMA CoreRun ==
  ASSUME CoreInv, NEW role \in DeliveryRole, Run(role)
  PROVE  CoreOK
  <1>1. /\ pass.pc = "loop" /\ status = StatusOf(role) /\ ~pass.consumed
        /\ pass.permit = Boundary(role)
        /\ pass' = [pass EXCEPT !.pc = "run", !.consumed = TRUE]
        /\ UNCHANGED <<status, attempts, failures, events, arts, step, admitted>>
    BY DEF Run, NeedsRun, Permitted
  <1>2. /\ pass \in PassRecord /\ pass' \in PassRecord /\ pass'.pc = "run" /\ pass'.consumed
        /\ pass'.permit = pass.permit
    BY <1>1 DEF CoreInv, TypeInv, PassRecord, PassPC
  <1>3. /\ Boundary(role).role = role /\ Boundary(role).revision = Revision
        /\ Boundary(role) # NoBoundary /\ Revision' = Revision /\ Boundary(role)' = Boundary(role)
    BY <1>1 DEF Boundary, NoBoundary, Revision, DeliveryRole
  <1>4. ~TransientExhausted
    BY <1>1, <1>3 DEF CoreInv, PassInv
  <1>5. TransientExhausted' = TransientExhausted
    BY <1>1 DEF TransientExhausted, TransientFailures
  <1>6. PassInv'
    BY <1>1, <1>2, <1>3, <1>4, <1>5, StatusOfIs DEF PassInv
  <1>7. FailureInv'
    BY <1>1, FailureKept DEF CoreInv
  <1> QED  BY <1>1, <1>2, <1>6, <1>7, CoreMoves DEF CoreInv, TypeInv, StepInv

\* An artifact is published, by the Planner or by a Run.
LEMMA CorePublish ==
  ASSUME CoreInv, NEW a \in Artifact, Publish(a), pass.pc \in {"loop", "run"},
         admitted \/ a.kind = "PLAN",
         \/ pass.pc = "loop" /\ pass' = pass
         \/ pass.pc = "run" /\ pass' = [pass EXCEPT !.pc = "loop"]
         \/ /\ pass.pc = "run" /\ status = "IMPLEMENTING"
            /\ pass' = [pass EXCEPT !.pc = "published"]
         \/ /\ pass.pc = "run" /\ status = "QA"
            /\ pass' = [pass EXCEPT !.pc = "rejected"]
  PROVE  CoreOK
  <1>1. /\ pass \in PassRecord /\ pass' \in PassRecord /\ pass'.permit = pass.permit
        /\ pass'.consumed = pass.consumed /\ pass'.pc \in {"loop", "published", "rejected"}
        /\ pass'.pc = "published" => pass.pc = "run" /\ status = "IMPLEMENTING"
        /\ pass'.pc = "rejected" => pass.pc = "run" /\ status = "QA"
    BY DEF CoreInv, TypeInv, PassRecord, PassPC
  <1>2. /\ UNCHANGED <<status, attempts, failures, events, step, admitted>>
        /\ arts' \in Seq(Artifact)
    BY DEF CoreInv, TypeInv, Publish
  <1>3. TransientExhausted' = TransientExhausted /\ Revision' = Revision
    BY <1>2 DEF TransientExhausted, TransientFailures, Revision
  <1>4. PassInv'
    <2>1. Boundary("QA")' = Boundary("QA")
      BY <1>2, <1>3 DEF Boundary
    <2>2. pass'.pc = "rejected" => pass.consumed /\ pass.permit = Boundary("QA")
      <3>1. pass'.pc = "rejected" =>
               /\ pass.consumed /\ pass.permit.role \in DeliveryRole /\ status = "QA"
               /\ status = StatusOf(pass.permit.role) /\ pass.permit = Boundary(pass.permit.role)
        BY <1>1 DEF CoreInv, PassInv
      <3>2. \A role \in DeliveryRole : StatusOf(role) = "QA" => role = "QA"
        BY StatusOfIs DEF DeliveryRole
      <3> QED  BY <3>1, <3>2
    <2>3. pass'.pc \notin {"off", "loop"} => status \in {"IMPLEMENTING", "QA", "REVIEW"}
      BY <1>1
    <2> QED  BY <1>1, <1>2, <1>3, <2>1, <2>2, <2>3 DEF CoreInv, PassInv
  <1>5. FailureInv'
    BY <1>2, FailureKept DEF CoreInv
  <1>6. ~admitted => \A i \in DOMAIN arts' : arts'[i].kind = "PLAN"
    <2>1. /\ \A i \in DOMAIN arts' : i \in DOMAIN arts \/ i = Len(arts) + 1
          /\ \A i \in DOMAIN arts : arts'[i] = arts[i]
          /\ arts'[Len(arts) + 1] = a
      BY LatestPublished DEF CoreInv, TypeInv, Publish
    <2> QED  BY <2>1 DEF CoreInv, StepInv
  <1> QED  BY <1>1, <1>2, <1>4, <1>5, <1>6, CoreMoves DEF CoreInv, StepInv

\* The pass writes an event: the Task's revision leaves its permit behind.
LEMMA CoreTransition ==
  ASSUME CoreInv, NEW to \in TaskStatus \ {"NEW"}, NEW ids \in SUBSET Nat, Transition(to, ids),
         <<status, to>> \in LegalTransitions, status # "NEW" \/ attempts # 0,
         to = "PLANNING" => status = "NEW", to = "QUEUED" => ~WorkBudgetExhausted,
         pass.pc # "off", pass.pc = "block" => to \in Terminal,
         pass' \in PassRecord, pass'.pc \in {"off", "loop"},
         pass'.pc = "loop" => pass'.permit = pass.permit
  PROVE  CoreOK
  <1>1. /\ status' = to /\ UNCHANGED <<attempts, failures, arts, step, admitted>>
        /\ events' = Append(events, [from |-> status, to |-> to, attempt |-> attempts,
                                     arts |-> ids])
    BY DEF Transition
  <1>2. Live
    BY DEF LegalTransitions, Live, Terminal
  <1>3. attempts # 0
    BY <1>2, AttemptReserved DEF CoreInv
  <1>4. HistoryInv' /\ Revision' = Revision + 1 /\ Revision \in Nat
    BY <1>1, <1>2, <1>3, HistoryGrows DEF CoreInv
  <1>5. BudgetInv' /\ TypeInv'
    BY <1>1, SameBudget DEF CoreInv, TypeInv
  <1>6. StepInv'
    <2>1. step # NoStep => /\ step.boundary.revision \in Nat /\ step.boundary.revision <= Revision
                           /\ step.boundary.attempt <= attempts
      BY StepFacts
    <2>2. AdoptedHasStep'
      BY <1>1, <1>2, <1>4, <2>1 DEF CoreInv, StepInv, AdoptedHasStep, Live
    <2>3. step # NoStep => step.boundary.revision # Revision'
      BY <1>4, <2>1
    <2>4. admitted => to \notin {"NEW", "PLANNING"}
      BY DEF CoreInv, StepInv
    <2>5. pass'.pc # "off" => ~step.waiting /\ pass'.permit = step.boundary
      BY DEF CoreInv, StepInv
    <2> QED  BY <1>1, <2>2, <2>3, <2>4, <2>5 DEF CoreInv, StepInv
  <1>7. PassInv'
    <2>1. ASSUME pass'.pc = "loop", pass'.permit # NoBoundary
          PROVE  pass'.permit.revision # Revision'
      <3>1. pass.permit # NoBoundary /\ pass'.permit = step.boundary
        BY <2>1 DEF CoreInv, StepInv
      <3> QED  BY <3>1, <2>1, <1>4, StepFacts
    <2> QED  BY <2>1 DEF PassInv
  <1>8. FailureInv'
    <2>1. ASSUME NEW f \in failures, f.attempt = attempts, to \notin Terminal  PROVE FALSE
      BY <2>1, <1>2 DEF CoreInv, FailureInv
    <2> QED  BY <2>1, <1>1 DEF FailureInv, Live
  <1>9. AppendEvent(to)
    BY <1>1 DEF AppendEvent
  <1> QED
    BY <1>1, <1>4, <1>5, <1>6, <1>7, <1>8, <1>9 DEF CoreOK, CoreInv, RepositoryNext

\* The pass reserves an ordinary attempt.
LEMMA CoreReserve ==
  ASSUME CoreInv, ReserveAttempt, Live, ~WorkBudgetExhausted, pass.pc = "loop",
         \/ pass' = pass
         \/ status \in {"QA", "REVIEW"} /\ pass' = [pass EXCEPT !.pc = "route"]
  PROVE  CoreOK
  <1>1. attempts' = attempts + 1 /\ UNCHANGED <<status, failures, events, arts, step, admitted>>
    BY DEF ReserveAttempt
  <1>2. attempts \in Nat /\ status \in TaskStatus /\ attempts' \in Nat /\ attempts < MaxAttempts
    BY <1>1, AttemptsBounded DEF CoreInv, BudgetInv
  <1>3. BudgetInv'
    BY <1>1, <1>2, ReserveKeepsBudget DEF CoreInv
  <1>4. HistoryInv' /\ Revision' = Revision
    BY <1>1, <1>2, HistoryKept DEF CoreInv
  <1>5. /\ pass' \in PassRecord /\ pass'.permit = pass.permit /\ pass'.consumed = pass.consumed
        /\ pass'.pc \in {"loop", "route"} /\ (pass'.pc = "route" => status \in {"QA", "REVIEW"})
    BY DEF CoreInv, TypeInv, PassRecord, PassPC
  <1>6. TypeInv'
    BY <1>1, <1>5 DEF CoreInv, TypeInv
  <1>7. StepInv'
    <2>1. step # NoStep => step.boundary.attempt \in Nat /\ step.boundary.attempt <= attempts
      BY StepFacts
    <2>2. AdoptedHasStep'
      BY <1>1, <1>2, <1>4, <2>1 DEF CoreInv, StepInv, AdoptedHasStep
    <2>3. pass'.pc # "off" => ~step.waiting /\ pass'.permit = step.boundary
      BY <1>5 DEF CoreInv, StepInv
    <2> QED  BY <1>1, <1>4, <2>2, <2>3 DEF CoreInv, StepInv
  <1>8. TransientExhausted' = TransientExhausted
    BY <1>1 DEF TransientExhausted, TransientFailures
  <1>9. PassInv'
    BY <1>1, <1>4, <1>5, <1>8 DEF CoreInv, PassInv
  <1>10. FailureInv'
    <2>1. \A f \in failures : f.attempt \in Nat /\ f.attempt <= attempts
      BY DEF CoreInv, BudgetInv
    <2> QED  BY <1>1, <1>2, <2>1 DEF FailureInv
  <1>11. RecordAttempt
    BY <1>1, <1>2 DEF RecordAttempt, Live
  <1> QED
    BY <1>1, <1>3, <1>4, <1>6, <1>7, <1>9, <1>10, <1>11 DEF CoreOK, CoreInv, RepositoryNext

\* A Run fails transiently.
LEMMA CoreFailTransient ==
  ASSUME CoreInv, NEW role \in DeliveryRole, FailTransient(role)
  PROVE  CoreOK
  <1>1. /\ pass.pc = "run" /\ pass.permit.role = role /\ WithRetryFailure(role)
        /\ UNCHANGED <<status, events, arts, step, admitted>>
        /\ pass' = [pass EXCEPT !.pc = IF ReservesNext(role) THEN "loop" ELSE "block"]
    BY DEF FailTransient, Running, Goto
  <1>2. /\ status = StatusOf(role) /\ ~TransientExhausted /\ pass.consumed
        /\ status \in {"IMPLEMENTING", "QA", "REVIEW"} /\ Live /\ status # "QUEUED"
    BY <1>1, StatusOfIs DEF CoreInv, PassInv, Live, Terminal
  <1>3. Count(role) \in Nat /\ Limit[role] \in Nat /\ Count(role) <= Limit[role]
    BY FailuresByRole, PolicyConstants DEF CoreInv, BudgetInv
  <1>4. Count(role) < Limit[role]
    BY <1>2, <1>3 DEF TransientExhausted, Count
  <1>5. \A f \in failures : f.attempt # attempts
    BY <1>1, <1>2 DEF CoreInv, FailureInv
  <1>6. status' \in TaskStatus /\ attempts \in Nat
    BY <1>1 DEF CoreInv, BudgetInv
  <1>7. /\ BudgetInv'
        /\ ReservesNext(role) <=> Count(role) + 1 < Limit[role]
        /\ Count(role)' = Count(role) + 1
        /\ attempts' = IF Count(role) + 1 < Limit[role] THEN attempts + 1 ELSE attempts
    BY <1>1, <1>4, <1>5, <1>6, FailureKeepsBudget DEF CoreInv
  <1>8. attempts' \in Nat /\ attempts <= attempts' /\ (attempts' = attempts \/ attempts' = attempts + 1)
    BY <1>6, <1>7
  <1>9. HistoryInv' /\ Revision' = Revision
    BY <1>1, <1>2, <1>8, HistoryKept DEF CoreInv
  <1>10. /\ pass' \in PassRecord /\ pass'.permit = pass.permit /\ pass'.consumed
         /\ pass'.pc = IF ReservesNext(role) THEN "loop" ELSE "block"
    BY <1>1, <1>2 DEF CoreInv, TypeInv, PassRecord, PassPC
  <1>11. TypeInv'
    BY <1>1, <1>10 DEF CoreInv, TypeInv
  <1>12. StepInv'
    <2>1. step # NoStep => step.boundary.attempt \in Nat /\ step.boundary.attempt <= attempts
      BY StepFacts
    <2>2. AdoptedHasStep'
      BY <1>1, <1>6, <1>8, <1>9, <2>1 DEF CoreInv, StepInv, AdoptedHasStep
    <2>3. ~step.waiting /\ pass'.permit = step.boundary
      BY <1>1, <1>10 DEF CoreInv, StepInv
    <2> QED  BY <1>1, <1>9, <2>2, <2>3 DEF CoreInv, StepInv
  <1>13. PassInv'
    BY <1>1, <1>2, <1>10 DEF PassInv
  <1>14. FailureInv'
    <2> SUFFICES ASSUME NEW f \in failures', f.attempt = attempts'
                 PROVE  /\ status' = StatusOf(f.role) /\ Count(f.role)' = Limit[f.role]
                        /\ pass'.pc \in {"off", "block"}
      BY DEF FailureInv
    <2>1. failures' = failures \cup {[role |-> role, attempt |-> attempts]}
      BY <1>1 DEF WithRetryFailure
    <2>2. \A h \in failures : h.attempt \in Nat /\ h.attempt <= attempts
      BY DEF CoreInv, BudgetInv
    <2>3. f = [role |-> role, attempt |-> attempts] /\ attempts' = attempts
      BY <2>1, <2>2, <1>5, <1>6, <1>8
    <2>4. f.role = role /\ ~(Count(role) + 1 < Limit[role])
      BY <2>3, <1>6, <1>7
    <2>5. Count(role)' = Limit[role] /\ pass'.pc = "block"
      BY <2>4, <1>3, <1>4, <1>7, <1>10
    <2> QED  BY <2>4, <2>5, <1>1, <1>2
  <1>15. RecordRetryFailure(role)
    BY <1>1, <1>2, <1>4, <1>5 DEF RecordRetryFailure, FailureRecordable, Count
  <1> QED
    BY <1>1, <1>7, <1>9, <1>11, <1>12, <1>13, <1>14, <1>15
       DEF CoreOK, CoreInv, RepositoryNext

\* The step waits, or is dispatched again, or is closed: no identity is reused.
LEMMA CoreWait ==
  ASSUME CoreInv, Wait, EndPass, step # NoStep
  PROVE  CoreOK
  <1>1. /\ UNCHANGED <<status, attempts, failures, events, arts, admitted>> /\ pass' = NoPass
        /\ step' = [step EXCEPT !.waiting = TRUE, !.rejected = (pass.pc = "rejected")]
    BY DEF Wait, EndPass
  <1>2. /\ step' \in QueuedStep /\ step'.boundary = step.boundary /\ step' # NoStep
    <2>1. step \in QueuedStep /\ step.boundary # NoBoundary /\ NoStep.boundary = NoBoundary
      BY StepFacts
    <2>2. (pass.pc = "rejected") \in BOOLEAN
      OBVIOUS
    <2>3. step' \in QueuedStep /\ step'.boundary = step.boundary
      BY <1>1, <2>1, <2>2 DEF QueuedStep
    <2> QED  BY <2>1, <2>3
  <1>3. PassInv' /\ FailureInv' /\ pass' \in PassRecord /\ pass'.pc = "off" /\ Revision' = Revision
    BY <1>1, PassEnded, FailureKept DEF CoreInv, Revision
  <1>4. TypeInv'
    BY <1>1, <1>2, <1>3 DEF CoreInv, TypeInv
  <1>5. StepInv'
    BY <1>1, <1>2, <1>3 DEF CoreInv, StepInv, AdoptedHasStep
  <1> QED  BY <1>1, <1>3, <1>4, <1>5, CoreNoWrite

\* A decision dispatches the waiting item again.
LEMMA CoreResume ==
  ASSUME CoreInv, Resume \/ ResumeStatic
  PROVE  CoreOK
  <1>1. /\ UNCHANGED <<status, attempts, failures, events, arts, admitted, pass>> /\ step.waiting
        /\ \/ step' = [step EXCEPT !.waiting = FALSE]
           \/ step' = [step EXCEPT !.waiting = FALSE,
                                   !.static = IF @ = "NONE" THEN "DECIDED" ELSE "SPENT"]
    BY DEF Resume, ResumeStatic, Resolvable
  <1>2. /\ step \in QueuedStep /\ step # NoStep /\ pass.pc = "off" /\ step.boundary # NoBoundary
    BY <1>1, StepFacts
  <1>3. step' \in QueuedStep /\ step'.boundary = step.boundary
    BY <1>1, <1>2 DEF QueuedStep
  <1>4. step' # NoStep
    BY <1>2, <1>3, StepFacts
  <1>5. PassInv' /\ FailureInv' /\ Revision' = Revision
    BY <1>1, <1>2, FailureKept DEF CoreInv, PassInv, Revision
  <1>6. TypeInv'
    BY <1>1, <1>3 DEF CoreInv, TypeInv
  <1>7. StepInv'
    BY <1>1, <1>2, <1>3, <1>4, <1>5 DEF CoreInv, StepInv, AdoptedHasStep
  <1> QED  BY <1>1, <1>5, <1>6, <1>7, CoreNoWrite

\* A decision replaces the item of a rejected QA report.
LEMMA CoreReplace ==
  ASSUME CoreInv, RetryRejectedQA
  PROVE  CoreOK
  <1>1. /\ step.waiting /\ Latest("QA") # 0 /\ step.boundary.revision = Revision
        /\ arts' = [arts EXCEPT ![Latest("QA")].kind = "RETIRED"]
        /\ step' = [Published(step.boundary) EXCEPT !.static = "SPENT"]
        /\ UNCHANGED <<status, attempts, failures, events, admitted, pass>>
    BY DEF RetryRejectedQA, Resolvable, ReportReplaceable, Replace, CurrentQA, CurrentReport
  <1>2. /\ pass.pc = "off" /\ step # NoStep /\ admitted /\ step.boundary \in RoleRunBoundary
    BY <1>1, StepFacts
  <1>3. PICK b \in RoleRunBoundary : b = step.boundary
    BY <1>2
  <1>4. step' \in QueuedStep /\ step' # NoStep /\ step'.boundary = step.boundary
    BY <1>1, <1>3, PublishedIs
  <1>5. arts' \in Seq(Artifact)
    <2>1. arts \in Seq(Artifact) /\ Latest("QA") \in DOMAIN arts
      BY <1>1, LatestIs DEF CoreInv, TypeInv
    <2> QED  BY <1>1, <2>1, RetireTyped
  <1>6. PassInv' /\ FailureInv' /\ Revision' = Revision
    BY <1>1, <1>2, FailureKept DEF CoreInv, PassInv, Revision
  <1>7. TypeInv'
    BY <1>1, <1>4, <1>5 DEF CoreInv, TypeInv
  <1>8. StepInv'
    BY <1>1, <1>2, <1>4, <1>6 DEF CoreInv, StepInv, AdoptedHasStep
  <1> QED  BY <1>1, <1>6, <1>7, <1>8, CoreNoWrite

\* The queue closes the step of a terminal Task.
LEMMA CoreClose ==
  ASSUME CoreInv, status \in Terminal, step' = NoStep,
         pass' = NoPass \/ (pass' = pass /\ pass.pc = "off"),
         UNCHANGED <<status, attempts, failures, events, arts, admitted>>
  PROVE  CoreOK
  <1>1. pass' \in PassRecord /\ pass'.pc = "off" /\ PassInv' /\ FailureInv'
    <2>1. CASE pass' = NoPass
      BY <2>1, PassEnded, FailureKept DEF CoreInv
    <2>2. CASE pass' = pass /\ pass.pc = "off"
      BY <2>2, FailureKept DEF CoreInv, TypeInv, PassInv
    <2> QED  BY <2>1, <2>2
  <1>2. NoStep \in QueuedStep
    BY StepFacts
  <1>3. TypeInv'
    BY <1>1, <1>2 DEF CoreInv, TypeInv
  <1>4. StepInv'
    BY <1>1 DEF CoreInv, StepInv, AdoptedHasStep
  <1> QED  BY <1>1, <1>3, <1>4, CoreNoWrite

\* The next step is published at the role boundary the pass reached.
LEMMA CoreNextStep ==
  ASSUME CoreInv, NEW role \in DeliveryRole, NextStep(role)
  PROVE  CoreOK
  <1>1. /\ pass.pc = "loop" /\ status = StatusOf(role) /\ admitted' = TRUE /\ pass' = NoPass
        /\ step' = Published(Boundary(role))
        /\ UNCHANGED <<status, attempts, failures, events, arts>>
    BY DEF NextStep, NeedsRun, EndPass
  <1>2. /\ Boundary(role) \in RoleRunBoundary /\ Boundary(role).role = role
        /\ Boundary(role).revision = Revision /\ Boundary(role).attempt = attempts
        /\ Revision \in Nat /\ attempts \in Nat
    BY StepFacts DEF Boundary, RoleRunBoundary
  <1>3. /\ step' \in QueuedStep
        /\ step'.boundary = Boundary(role) /\ ~step'.waiting /\ step' # NoStep
    <2>1. PICK b \in RoleRunBoundary : b = Boundary(role)
      BY <1>2
    <2> QED  BY <1>1, <2>1, PublishedIs
  <1>4. PassInv' /\ FailureInv' /\ pass' \in PassRecord /\ pass'.pc = "off" /\ Revision' = Revision
    BY <1>1, PassEnded, FailureKept DEF CoreInv, Revision
  <1>5. TypeInv'
    BY <1>1, <1>3, <1>4 DEF CoreInv, TypeInv
  <1>6. StepInv'
    <2>1. AdoptedHasStep'
      BY <1>1, <1>2, <1>3, <1>4 DEF AdoptedHasStep
    <2>2. status \notin {"NEW", "PLANNING"}
      BY <1>1, StatusOfIs
    <2> QED  BY <1>1, <1>2, <1>3, <1>4, <2>1, <2>2 DEF StepInv
  <1> QED  BY <1>1, <1>4, <1>5, <1>6, CoreNoWrite

\* A decision retries the role with a new attempt, from either budget.
LEMMA CoreRetry ==
  ASSUME CoreInv, Retry
  PROVE  CoreOK
  <1> DEFINE role == step.boundary.role
             b == [step.boundary EXCEPT !.attempt = attempts + 1]
  <1>1. /\ step.waiting /\ Live /\ step.boundary.revision = Revision
        /\ step' = Published(b)
        /\ UNCHANGED <<status, events, arts, admitted, pass>>
        /\ \/ ~WorkBudgetExhausted /\ attempts' = attempts + 1 /\ UNCHANGED failures
           \/ FailureRecordable(role) /\ ReservesNext(role) /\ WithRetryFailure(role)
    BY DEF Retry, Resolvable, Live
  <1>2. /\ step # NoStep /\ admitted /\ step.boundary \in RoleRunBoundary /\ role \in DeliveryRole
        /\ pass.pc = "off" /\ Revision \in Nat /\ attempts \in Nat /\ status \in TaskStatus
        /\ step.boundary.attempt \in Nat /\ step.boundary.attempt <= attempts
    BY <1>1, StepFacts
  <1>3. status = StatusOf(role) /\ status \notin {"NEW", "PLANNING", "QUEUED"}
    BY <1>1, <1>2, StatusOfIs DEF CoreInv, StepInv
  <1>4. PICK q \in DeliveryRole : q = role
    BY <1>2
  <1>5. BudgetInv' /\ attempts' = attempts + 1 /\ attempts' \in Nat
        /\ RepositoryNext
        /\ \A f \in failures' : f.attempt \in Nat /\ f.attempt <= attempts
    <2>1. \A f \in failures : f.attempt \in Nat /\ f.attempt <= attempts
      BY DEF CoreInv, BudgetInv
    <2>2. CASE ~WorkBudgetExhausted /\ attempts' = attempts + 1 /\ UNCHANGED failures
      <3>1. BudgetInv' /\ attempts < MaxAttempts
        BY <1>1, <1>2, <2>2, ReserveKeepsBudget, AttemptsBounded DEF CoreInv
      <3>2. RecordAttempt
        BY <1>1, <2>2, <3>1 DEF RecordAttempt, Live
      <3> QED  BY <1>2, <2>1, <2>2, <3>1, <3>2 DEF RepositoryNext
    <2>3. CASE FailureRecordable(role) /\ ReservesNext(role) /\ WithRetryFailure(role)
      <3>1. /\ \A f \in failures : f.attempt # attempts
            /\ Count(q) < Limit[q] /\ ReservesNext(q) /\ WithRetryFailure(q)
        BY <1>4, <2>3 DEF FailureRecordable, Count
      <3>2. status' \in TaskStatus
        BY <1>1, <1>2
      <3>3. BudgetInv' /\ attempts' = attempts + 1
        BY <3>1, <3>2, FailureKeepsBudget DEF CoreInv
      <3>4. RecordRetryFailure(q)
        BY <1>1, <1>4, <2>3 DEF RecordRetryFailure
      <3>5. \A f \in failures' : f.attempt \in Nat /\ f.attempt <= attempts
        BY <1>2, <2>1, <3>1 DEF WithRetryFailure
      <3> QED  BY <1>2, <3>3, <3>4, <3>5 DEF RepositoryNext
    <2> QED  BY <1>1, <2>2, <2>3
  <1>6. HistoryInv' /\ Revision' = Revision
    BY <1>1, <1>5, HistoryKept DEF CoreInv
  <1>7. /\ b \in RoleRunBoundary /\ b.role = role /\ b.revision = Revision
        /\ b.attempt = attempts + 1
    BY <1>1, <1>2 DEF RoleRunBoundary
  <1> HIDE DEF b
  <1>8. /\ step' \in QueuedStep /\ step' # NoStep
        /\ step'.boundary = b /\ ~step'.waiting
    BY <1>1, <1>7, PublishedIs
  <1>9. TypeInv'
    BY <1>1, <1>8 DEF CoreInv, TypeInv
  <1>10. StepInv'
    <2>1. AdoptedHasStep'
      BY <1>2, <1>5, <1>6, <1>7, <1>8 DEF AdoptedHasStep
    <2> QED  BY <1>1, <1>2, <1>3, <1>6, <1>7, <1>8, <2>1 DEF CoreInv, StepInv
  <1>11. PassInv'
    BY <1>1, <1>2 DEF PassInv
  <1>12. FailureInv'
    BY <1>2, <1>5 DEF FailureInv
  <1> QED
    BY <1>5, <1>6, <1>9, <1>10, <1>11, <1>12 DEF CoreOK, CoreInv

\* The Coder's step is settled in one transaction with the Task.
LEMMA CoreSettleStep ==
  ASSUME CoreInv, SettleStep
  PROVE  CoreOK
  <1>1. /\ status = "IMPLEMENTING" /\ pass.pc = "off" /\ status' = "BLOCKED" /\ step' = NoStep
        /\ events' = Append(events, [from |-> status, to |-> "BLOCKED",
                                     attempt |-> attempts, arts |-> {}])
        /\ UNCHANGED <<attempts, failures, arts, admitted, pass>>
    BY DEF SettleStep
  <1>2. Live /\ attempts # 0
    BY <1>1, AttemptReserved DEF CoreInv, Live, Terminal
  <1>3. "BLOCKED" \in TaskStatus \ {"NEW"} /\ {} \in SUBSET Nat
    BY DEF TaskStatus
  <1>4. HistoryInv'
    BY <1>1, <1>2, <1>3, HistoryGrows DEF CoreInv
  <1>5. BudgetInv'
    BY <1>1, <1>3, SameBudget DEF CoreInv
  <1>6. NoStep \in QueuedStep
    BY StepFacts
  <1>7. TypeInv'
    BY <1>1, <1>6 DEF CoreInv, TypeInv
  <1>8. StepInv' /\ PassInv' /\ FailureInv'
    BY <1>1 DEF CoreInv, StepInv, AdoptedHasStep, PassInv, FailureInv, Live, Terminal
  <1>9. AppendEvent("BLOCKED")
    BY <1>1 DEF AppendEvent, LegalTransitions, TaskStatus, Terminal
  <1> QED
    BY <1>3, <1>4, <1>5, <1>7, <1>8, <1>9 DEF CoreOK, CoreInv, RepositoryNext

\* Cancellation ends the Task, at attempt 1 when a NEW one has none.
LEMMA CoreCancel ==
  ASSUME CoreInv, Cancel
  PROVE  CoreOK
  <1>1. PICK to : to = IF status = "NEW" THEN "FAILED" ELSE "BLOCKED"
    OBVIOUS
  <1>2. /\ pass.pc = "off" /\ Live /\ status' = to
        /\ events' = Append(events, [from |-> status, to |-> to,
                                     attempt |-> Max({1, attempts}), arts |-> {}])
        /\ UNCHANGED <<attempts, failures, arts, step, admitted, pass>>
    BY <1>1 DEF Cancel, Live
  <1>3. attempts \in Nat /\ to \in TaskStatus \ {"NEW"} /\ to \in Terminal /\ {} \in SUBSET Nat
    BY <1>1 DEF CoreInv, BudgetInv, TaskStatus, Terminal
  <1>4. Max({1, attempts}) = IF attempts = 0 THEN 1 ELSE attempts
    <2>1. {1, attempts} \in SUBSET Int
      BY <1>3
    <2>2. CASE attempts = 0
      BY <2>1, <2>2, MaxUnique
    <2>3. CASE attempts # 0
      BY <1>3, <2>1, <2>3, MaxUnique
    <2> QED  BY <2>2, <2>3
  <1>5. HistoryInv' /\ Revision' = Revision + 1 /\ Revision \in Nat
    <2>1. CASE attempts # 0
      BY <1>1, <1>2, <1>3, <1>4, <2>1, HistoryGrows DEF CoreInv
    <2>2. CASE attempts = 0
      <3>1. status = "NEW" /\ to = "FAILED" /\ events = <<>>
        BY <1>1, <1>2, <2>2, AttemptReserved DEF CoreInv, HistoryInv
      <3> DEFINE e == [from |-> "NEW", to |-> "FAILED", attempt |-> 1, arts |-> {}]
      <3>2. e \in StateEvent /\ e.to = "FAILED" /\ e.from = "NEW" /\ e.attempt = 1
        BY DEF StateEvent, TaskStatus
      <3>3. events' = Append(events, e)
        BY <1>2, <1>4, <2>2, <3>1, Zenon
      <3> HIDE DEF e
      <3>4. /\ events' \in Seq(StateEvent) /\ Len(events') = 1 /\ DOMAIN events' = {1}
            /\ events'[1] = e /\ events' # <<>>
        BY <3>1, <3>2, <3>3
      <3>5. AttemptsReservedFirst'
        BY <3>2, <3>4 DEF AttemptsReservedFirst
      <3>6. status' = "FAILED" /\ events'[Len(events')].to = "FAILED"
        BY <1>2, <3>1, <3>2, <3>4
      <3>7. HistoryInv'
        BY <3>4, <3>5, <3>6 DEF HistoryInv, Live, Terminal
      <3>8. Revision = 0 /\ Revision' = 1
        BY <3>1, <3>4 DEF Revision
      <3> QED  BY <3>7, <3>8
    <2> QED  BY <2>1, <2>2
  <1>6. BudgetInv'
    BY <1>2, <1>3, SameBudget DEF CoreInv
  <1>7. TypeInv'
    BY <1>2 DEF CoreInv, TypeInv
  <1>8. StepInv'
    <2>1. step # NoStep => /\ step.boundary.revision \in Nat /\ step.boundary.revision <= Revision
                           /\ step.boundary.attempt <= attempts
      BY StepFacts
    <2>2. AdoptedHasStep'
      BY <1>2, <1>3, <1>5, <2>1 DEF AdoptedHasStep
    <2>3. step # NoStep => step.boundary.revision # Revision'
      BY <1>5, <2>1
    <2> QED  BY <1>1, <1>2, <2>2, <2>3 DEF CoreInv, StepInv
  <1>9. PassInv' /\ FailureInv'
    BY <1>2, <1>3 DEF PassInv, FailureInv, Live
  <1>10. AppendEvent(to)
    BY <1>1, <1>2, <1>3 DEF AppendEvent, LegalTransitions, Live, CoreInv, BudgetInv
  <1> QED
    BY <1>3, <1>5, <1>6, <1>7, <1>8, <1>9, <1>10 DEF CoreOK, CoreInv, RepositoryNext

\* Indices of artifacts are numbers.
LEMMA Indices ==
  ASSUME CoreInv
  PROVE  /\ \A k : Latest(k) \in Nat
         /\ ActiveProgress \in Nat /\ Len(arts) \in Nat
  BY LatestIs, ActiveProgressIs DEF CoreInv, TypeInv

\* The record of a pass that goes to another point.
LEMMA GotoIs ==
  ASSUME CoreInv, NEW pc \in PassPC, Goto(pc)
  PROVE  /\ pass' \in PassRecord /\ pass'.pc = pc /\ pass'.permit = pass.permit
         /\ pass'.consumed = pass.consumed /\ pass'.recover = pass.recover
  BY DEF Goto, CoreInv, TypeInv, PassRecord

\* NEW and PLANNING.
LEMMA CorePlanning ==
  ASSUME CoreInv, Validate \/ Plan
  PROVE  CoreOK
  <1> USE DEF CoreInv, TypeInv
  <1>1. CASE Validate
    <2>1. pass.pc = "loop" /\ status = "NEW" /\ pass' = pass /\ Live
      BY <1>1 DEF Validate, Live, Terminal
    <2>2. CASE attempts = 0 /\ ReserveAttempt
      <3>1. \A f \in failures : f.attempt \in Nat
        BY DEF BudgetInv
      <3>2. {f \in failures : f.attempt < attempts} = {}
        BY <2>2, <3>1
      <3>3. WorkAttempt = 0
        <4>1. Cardinality({f \in failures : f.attempt < attempts}) = 0
          BY <3>2, FS_EmptySet
        <4> QED  BY <2>2, <4>1 DEF WorkAttempt
      <3>4. ~WorkBudgetExhausted
        BY <3>3, PolicyConstants DEF WorkBudgetExhausted
      <3> QED  BY <2>1, <2>2, <3>4, CoreReserve
    <2>3. CASE attempts # 0 /\ Transition("PLANNING", {})
      <3>1. "PLANNING" \in TaskStatus \ {"NEW"} /\ {} \in SUBSET Nat
            /\ <<status, "PLANNING">> \in LegalTransitions
        BY <2>1 DEF TaskStatus, LegalTransitions
      <3> QED  BY <2>1, <2>3, <3>1, CoreTransition
    <2> QED  BY <1>1, <2>2, <2>3 DEF Validate
  <1>2. CASE Plan
    <2>1. pass.pc = "loop" /\ status = "PLANNING" /\ Live
      BY <1>2 DEF Plan, Live, Terminal
    <2>2. ASSUME Publish([kind |-> "PLAN", target |-> 0, supersedes |-> 0,
                          attempt |-> attempts, verdict |-> "NONE"]), UNCHANGED pass
          PROVE  CoreOK
      <3>1. [kind |-> "PLAN", target |-> 0, supersedes |-> 0,
             attempt |-> attempts, verdict |-> "NONE"] \in Artifact
        BY DEF Artifact, BudgetInv
      <3> QED  BY <2>1, <2>2, <3>1, CorePublish
    <2>3. CASE EndPass /\ UNCHANGED <<status, attempts, failures, events, arts, step, admitted>>
      BY <2>3, CoreCrash
    <2>4. CASE Transition("BLOCKED", {}) /\ EndPass
      <3>1. "BLOCKED" \in TaskStatus \ {"NEW"} /\ {} \in SUBSET Nat
            /\ <<status, "BLOCKED">> \in LegalTransitions
        BY <2>1 DEF TaskStatus, LegalTransitions, Terminal
      <3> QED  BY <2>1, <2>4, <3>1, CoreTransition, PassEnded DEF EndPass
    <2>5. CASE Transition("IMPLEMENTING", {Latest("PLAN")}) /\ UNCHANGED pass
      <3>1. "IMPLEMENTING" \in TaskStatus \ {"NEW"} /\ {Latest("PLAN")} \in SUBSET Nat
            /\ <<status, "IMPLEMENTING">> \in LegalTransitions
        BY <2>1, Indices DEF TaskStatus, LegalTransitions
      <3> QED  BY <2>1, <2>5, <3>1, CoreTransition
    <2> QED  BY <1>2, <2>2, <2>3, <2>4, <2>5 DEF Plan
  <1> QED  BY <1>1, <1>2

\* CONTINUE_REQUIRED and QUEUED, and output that is checkpointed without a Run.
LEMMA CoreContinue ==
  ASSUME CoreInv, Continue \/ RecoverOutput
  PROVE  CoreOK
  <1> USE DEF CoreInv, TypeInv
  <1>0. pass.pc = "loop" /\ {ActiveProgress} \in SUBSET Nat
        /\ {Latest("IMPLEMENTATION")} \in SUBSET Nat
    BY Indices DEF Continue, RecoverOutput
  <1>1. CASE Continue
    <2>1. pass' = pass
      BY <1>1 DEF Continue
    <2>2. ASSUME status = "CONTINUE_REQUIRED",
                 Transition(IF WorkBudgetExhausted THEN "BLOCKED" ELSE "QUEUED", {ActiveProgress})
          PROVE  CoreOK
      <3>1. CASE WorkBudgetExhausted
        <4>1. "BLOCKED" \in TaskStatus \ {"NEW"} /\ <<status, "BLOCKED">> \in LegalTransitions
          BY <2>2 DEF TaskStatus, LegalTransitions, Terminal
        <4> QED  BY <1>0, <2>1, <2>2, <3>1, <4>1, CoreTransition
      <3>2. CASE ~WorkBudgetExhausted
        <4>1. "QUEUED" \in TaskStatus \ {"NEW"} /\ <<status, "QUEUED">> \in LegalTransitions
          BY <2>2 DEF TaskStatus, LegalTransitions
        <4> QED  BY <1>0, <2>1, <2>2, <3>2, <4>1, CoreTransition
      <3> QED  BY <3>1, <3>2
    <2>3. ASSUME status = "QUEUED", attempts <= QueuedAttempt, ReserveAttempt
          PROVE  CoreOK
      <3>1. ~WorkBudgetExhausted /\ Live
        BY <2>3, QueuedAttemptIs DEF HistoryInv, Live, Terminal
      <3> QED  BY <1>0, <2>1, <2>3, <3>1, CoreReserve
    <2>4. ASSUME status = "QUEUED", Transition("IMPLEMENTING", {ActiveProgress})
          PROVE  CoreOK
      <3>1. "IMPLEMENTING" \in TaskStatus \ {"NEW"} /\ <<status, "IMPLEMENTING">> \in LegalTransitions
        BY <2>4 DEF TaskStatus, LegalTransitions
      <3> QED  BY <1>0, <2>1, <2>4, <3>1, CoreTransition
    <2> QED  BY <1>1, <2>2, <2>3, <2>4 DEF Continue
  <1>2. CASE RecoverOutput
    <2>1. status = "IMPLEMENTING"
      BY <1>2 DEF RecoverOutput
    <2>2. ASSUME Transition("CONTINUE_REQUIRED", {ActiveProgress}), UNCHANGED pass
          PROVE  CoreOK
      <3>1. "CONTINUE_REQUIRED" \in TaskStatus \ {"NEW"}
            /\ <<status, "CONTINUE_REQUIRED">> \in LegalTransitions
        BY <2>1 DEF TaskStatus, LegalTransitions
      <3> QED  BY <1>0, <2>1, <2>2, <3>1, CoreTransition
    <2>3. ASSUME Transition("QA", {Latest("IMPLEMENTATION")}),
                 pass' = [pass EXCEPT !.recover = FALSE]
          PROVE  CoreOK
      <3>1. "QA" \in TaskStatus \ {"NEW"} /\ <<status, "QA">> \in LegalTransitions
        BY <2>1 DEF TaskStatus, LegalTransitions
      <3>2. pass' \in PassRecord /\ pass'.pc = "loop" /\ pass'.permit = pass.permit
        BY <1>0, <2>3 DEF PassRecord
      <3> QED  BY <1>0, <2>1, <2>3, <3>1, <3>2, CoreTransition
    <2> QED  BY <1>2, <2>2, <2>3 DEF RecoverOutput
  <1> QED  BY <1>1, <1>2

\* What a Run may publish is an artifact of its role.
LEMMA OutputIs ==
  ASSUME CoreInv, NEW role \in DeliveryRole, NEW a \in Output(role)
  PROVE  /\ a \in Artifact /\ a.attempt = attempts
         /\ role = "CODER" =>
              \/ a.kind = "PROGRESS"
              \/ /\ a.kind = "IMPLEMENTATION" /\ a.target = ActiveProgress
                 /\ a.supersedes = Latest("IMPLEMENTATION")
         /\ role = "QA" => a.kind = "QA" /\ a.target = Latest("IMPLEMENTATION")
         /\ role = "REVIEWER" => a.kind = "REVIEW" /\ a.target = Latest("QA")
  <1>1. /\ attempts \in Nat /\ ActiveProgress \in Nat /\ Latest("IMPLEMENTATION") \in Nat
        /\ Latest("QA") \in Nat /\ Latest("REVIEW") \in Nat
    BY Indices DEF CoreInv, BudgetInv
  <1>2. CASE role = "CODER"
    BY <1>1, <1>2 DEF Output, Artifact
  <1>3. CASE role = "QA"
    BY <1>1, <1>3 DEF Output, Artifact
  <1>4. CASE role = "REVIEWER"
    BY <1>1, <1>4 DEF Output, Artifact
  <1> QED  BY <1>2, <1>3, <1>4 DEF DeliveryRole

\* Facts about a running role.
LEMMA RunFacts ==
  ASSUME CoreInv, NEW role, Running(role)
  PROVE  /\ pass.pc = "run" /\ role \in DeliveryRole /\ status = StatusOf(role) /\ Live
         /\ status \in {"IMPLEMENTING", "QA", "REVIEW"} /\ step # NoStep
         /\ step.boundary = Boundary(role) /\ ~step.waiting
  <1>1. /\ pass.pc = "run" /\ pass.permit.role = role /\ role \in DeliveryRole
        /\ status = StatusOf(role) /\ pass.permit = Boundary(role)
    BY DEF Running, CoreInv, PassInv
  <1>2. status \in {"IMPLEMENTING", "QA", "REVIEW"} /\ Live
    BY <1>1, StatusOfIs DEF Live, Terminal
  <1>3. Boundary(role) # NoBoundary
    BY <1>1 DEF Boundary, NoBoundary, DeliveryRole
  <1> QED  BY <1>1, <1>2, <1>3, StepFacts DEF CoreInv, StepInv

\* A Run publishes its output.
LEMMA CoreSucceed ==
  ASSUME CoreInv, NEW role \in DeliveryRole, Succeed(role)
  PROVE  CoreOK
  <1>1. PICK a \in Output(role) : Publish(a)
    BY DEF Succeed
  <1>2. a \in Artifact
    BY OutputIs
  <1>3. pass.pc = "run" /\ status = StatusOf(role) /\ admitted
    BY RunFacts, StepFacts DEF Succeed
  <1>4. CASE role = "CODER"
    BY <1>1, <1>2, <1>3, <1>4, StatusOfIs, CorePublish DEF Succeed, Goto
  <1>5. CASE role # "CODER"
    BY <1>1, <1>2, <1>3, <1>5, StatusOfIs, CorePublish DEF Succeed, Goto
  <1> QED  BY <1>4, <1>5

\* A failure parks the step or ends the Task.
LEMMA CoreSettle ==
  ASSUME CoreInv, NEW class, NEW role, Settle(class, role), step # NoStep,
         status \in {"IMPLEMENTING", "QA", "REVIEW"}, pass.pc \in {"loop", "run", "rejected"}
  PROVE  CoreOK
  <1>1. CASE Wait /\ EndPass
    BY <1>1, CoreWait
  <1>2. ASSUME NEW to \in {"FAILED", "BLOCKED"}, Transition(to, {}), Goto("loop")
        PROVE  CoreOK
    <2>1. /\ to \in TaskStatus \ {"NEW"} /\ {} \in SUBSET Nat /\ "loop" \in PassPC
          /\ <<status, to>> \in LegalTransitions /\ to # "PLANNING" /\ to # "QUEUED"
      BY DEF TaskStatus, LegalTransitions, Terminal, PassPC
    <2> QED  BY <1>2, <2>1, GotoIs, CoreTransition
  <1> QED  BY <1>1, <1>2 DEF Settle

\* Checkpoint, Block and the routing of findings: the event that ends a phase.
LEMMA CorePhaseEnd ==
  ASSUME CoreInv, Checkpoint \/ Block \/ RouteToCoder
  PROVE  CoreOK
  <1>0. "loop" \in PassPC
    BY DEF PassPC
  <1>1. CASE Checkpoint
    <2>1. pass.pc = "published" /\ status = "IMPLEMENTING" /\ {Len(arts)} \in SUBSET Nat
      BY <1>1, Indices DEF Checkpoint, CoreInv, PassInv
    <2>2. PICK to \in {"CONTINUE_REQUIRED", "QA"} : Transition(to, {Len(arts)})
      BY <1>1 DEF Checkpoint
    <2>3. to \in TaskStatus \ {"NEW"} /\ <<status, to>> \in LegalTransitions
      BY <2>1 DEF TaskStatus, LegalTransitions
    <2> QED  BY <1>0, <1>1, <2>1, <2>2, <2>3, GotoIs, CoreTransition DEF Checkpoint
  <1>2. CASE Block
    <2>1. pass.pc = "block" /\ status \in {"IMPLEMENTING", "QA", "REVIEW"}
      BY <1>2 DEF Block, CoreInv, PassInv
    <2>2. /\ "BLOCKED" \in TaskStatus \ {"NEW"} /\ {} \in SUBSET Nat /\ "BLOCKED" \in Terminal
          /\ <<status, "BLOCKED">> \in LegalTransitions
      BY <2>1 DEF TaskStatus, LegalTransitions, Terminal
    <2> QED  BY <1>0, <1>2, <2>1, <2>2, GotoIs, CoreTransition DEF Block
  <1>3. CASE RouteToCoder
    <2>1. pass.pc = "route" /\ status \in {"QA", "REVIEW"}
      BY <1>3 DEF RouteToCoder, CoreInv, PassInv
    <2>2. PICK ids \in SUBSET Nat : Transition("IMPLEMENTING", ids)
      BY <1>3, Indices DEF RouteToCoder
    <2>3. /\ "IMPLEMENTING" \in TaskStatus \ {"NEW"}
          /\ <<status, "IMPLEMENTING">> \in LegalTransitions
      BY <2>1 DEF TaskStatus, LegalTransitions
    <2> QED  BY <1>0, <1>3, <2>1, <2>2, <2>3, GotoIs, CoreTransition DEF RouteToCoder
  <1> QED  BY <1>1, <1>2, <1>3

\* A Task whose roles published has a queued step while it is live.
LEMMA PublishedHasStep ==
  ASSUME CoreInv, Live, NEW k, k # "PLAN", Latest(k) # 0
  PROVE  step # NoStep
  <1>1. Latest(k) \in DOMAIN arts /\ arts[Latest(k)].kind = k
    BY LatestIs DEF CoreInv, TypeInv
  <1> QED  BY <1>1 DEF CoreInv, TypeInv, StepInv, AdoptedHasStep, Live

\* Facts about a stored QA report that fails the check of its criteria.
LEMMA RejectedFacts ==
  ASSUME CoreInv, pass.pc = "rejected"
  PROVE  /\ status = "QA" /\ Live /\ step # NoStep /\ ~step.waiting
         /\ step.boundary = Boundary("QA") /\ pass.consumed
  <1>1. status = "QA" /\ pass.consumed /\ pass.permit = Boundary("QA")
    BY DEF CoreInv, PassInv
  <1>2. Boundary("QA") # NoBoundary
    BY DEF Boundary, NoBoundary
  <1>3. Live
    BY <1>1 DEF Live, Terminal
  <1> QED  BY <1>1, <1>2, <1>3, StepFacts DEF CoreInv, StepInv

\* Verdicts.
LEMMA CoreVerdict ==
  ASSUME CoreInv, Verdict
  PROVE  CoreOK
  <1>1. ASSUME NEW k \in {"QA", "REVIEW"}, NEW current, Reject(k, current), status = k
        PROVE  CoreOK
    <2>1. pass.pc = "loop" /\ Live /\ {Latest(k)} \in SUBSET Nat
      BY <1>1, Indices DEF Reject, Live, Terminal
    <2>2. CASE WorkBudgetExhausted /\ Transition("BLOCKED", {Latest(k)}) /\ UNCHANGED pass
      <3>1. "BLOCKED" \in TaskStatus \ {"NEW"} /\ <<status, "BLOCKED">> \in LegalTransitions
        BY <1>1 DEF TaskStatus, LegalTransitions, Terminal
      <3> QED  BY <1>1, <2>1, <2>2, <3>1, CoreTransition DEF CoreInv, TypeInv
    <2>3. CASE ~WorkBudgetExhausted /\ ReserveAttempt /\ Goto("route")
      BY <1>1, <2>1, <2>3, CoreReserve DEF Goto
    <2> QED  BY <1>1, <2>2, <2>3 DEF Reject
  <1>2. CASE Accept("QA", status = "QA" /\ CurrentQA, "REVIEW", {Latest("QA")})
    <2>1. /\ "REVIEW" \in TaskStatus \ {"NEW"} /\ {Latest("QA")} \in SUBSET Nat
          /\ <<status, "REVIEW">> \in LegalTransitions
      BY <1>2, Indices DEF Accept, TaskStatus, LegalTransitions
    <2> QED  BY <1>2, <2>1, CoreTransition DEF Accept, CoreInv, TypeInv
  <1>3. CASE Accept("REVIEW", status = "REVIEW" /\ CurrentReview, "DONE",
                    {Latest(k) : k \in {"PLAN", "IMPLEMENTATION", "QA", "REVIEW"}})
    <2>1. {Latest(k) : k \in {"PLAN", "IMPLEMENTATION", "QA", "REVIEW"}} \in SUBSET Nat
      BY Indices
    <2>2. "DONE" \in TaskStatus \ {"NEW"} /\ <<status, "DONE">> \in LegalTransitions
      BY <1>3 DEF Accept, TaskStatus, LegalTransitions
    <2> QED  BY <1>3, <2>1, <2>2, CoreTransition DEF Accept, CoreInv, TypeInv
  <1>4. CASE Inconclusive
    <2>1. /\ pass.pc = "loop" /\ status = "QA" /\ Latest("QA") # 0
          /\ Settle("VERIFICATION_INCONCLUSIVE", "QA") /\ Live
      BY <1>4 DEF Inconclusive, CurrentQA, CurrentReport, Live, Terminal
    <2> QED  BY <2>1, PublishedHasStep, CoreSettle
  <1>5. CASE RouteToCoder
    BY <1>5, CorePhaseEnd
  <1>6. CASE Reject("QA", status = "QA" /\ CurrentQA)
    BY <1>1, <1>6 DEF Reject
  <1>7. CASE Reject("REVIEW", status = "REVIEW" /\ CurrentReview)
    BY <1>1, <1>7 DEF Reject
  <1> QED  BY <1>2, <1>3, <1>4, <1>5, <1>6, <1>7 DEF Verdict

\* Every step of a pass.
LEMMA CorePass ==
  ASSUME CoreInv, Pass
  PROVE  CoreOK
  <1>1. CASE Begin
    BY <1>1, CoreBegin
  <1>2. CASE Validate \/ Plan
    BY <1>2, CorePlanning
  <1>3. CASE Continue \/ RecoverOutput
    BY <1>3, CoreContinue
  <1>4. ASSUME NEW role \in DeliveryRole,
               Run(role) \/ NextStep(role) \/ Succeed(role) \/ FailTransient(role)
        PROVE  CoreOK
    BY <1>4, CoreRun, CoreNextStep, CoreSucceed, CoreFailTransient
  <1>5. ASSUME NEW role \in DeliveryRole, NEW class \in FailureClass, Fail(role, class)
        PROVE  CoreOK
    BY <1>5, RunFacts, CoreSettle DEF Fail
  <1>6. CASE Checkpoint \/ Block
    BY <1>6, CorePhaseEnd
  <1>7. CASE Verdict
    BY <1>7, CoreVerdict
  <1>8. CASE Close
    BY <1>8, CoreClose DEF Close, EndPass
  <1>9. CASE RejectReport
    BY <1>9, RejectedFacts, CoreSettle DEF RejectReport
  <1> QED  BY <1>1, <1>2, <1>3, <1>4, <1>5, <1>6, <1>7, <1>8, <1>9 DEF Pass

\* Every step of the delivery.
LEMMA CoreNext ==
  ASSUME CoreInv, [Next]_deliveryVars
  PROVE  CoreOK
  <1>1. CASE Pass
    BY <1>1, CorePass
  <1>2. CASE Crash
    BY <1>2, CoreCrash DEF Crash
  <1>3. CASE Resume \/ ResumeStatic \/ RetryRejectedQA \/ Retry
    BY <1>3, CoreResume, CoreReplace, CoreRetry
  <1>4. CASE SettleStoppedBudget \/ SettleUninvokedRoute
    BY <1>4, CoreSettleStep DEF SettleStoppedBudget, SettleUninvokedRoute
  <1>5. CASE Cancel
    BY <1>5, CoreCancel
  <1>6. CASE CloseCancelled
    BY <1>6, CoreClose DEF CloseCancelled
  <1>7. CASE UNCHANGED deliveryVars
    <2>1. PassInv' /\ FailureInv' /\ arts' \in Seq(Artifact) /\ pass' \in PassRecord
      BY <1>7 DEF deliveryVars, CoreInv, TypeInv, PassInv, FailureInv, TransientExhausted,
                  TransientFailures, Boundary, Revision, Count, Live
    <2> QED  BY <1>7, <2>1, CoreMoves DEF deliveryVars, CoreInv, StepInv
  <1> QED  BY <1>1, <1>2, <1>3, <1>4, <1>5, <1>6, <1>7 DEF Next, Finished

\* The initial state.
LEMMA CoreInit ==
  ASSUME Init
  PROVE  CoreInv
  <1>1. /\ status = "NEW" /\ attempts = 0 /\ failures = {} /\ events = <<>> /\ arts = <<>>
        /\ step = NoStep /\ admitted = FALSE /\ pass = NoPass
    BY DEF Init, RepositoryInit
  <1>2. TypeInv
    <2>1. NoPass \in PassRecord /\ NoStep \in QueuedStep
      BY DEF NoStep, NoPass, PassRecord, PassPC, BoundaryOrNone, QueuedStep
    <2>2. <<>> \in Seq(Artifact) /\ FALSE \in BOOLEAN
      OBVIOUS
    <2> QED  BY <1>1, <2>1, <2>2, Zenon DEF TypeInv
  <1>3. BudgetInv
    BY BudgetInit DEF Init
  <1>4. HistoryInv
    BY <1>1 DEF HistoryInv, AttemptsReservedFirst
  <1>5. StepInv /\ PassInv /\ FailureInv
    BY <1>1 DEF StepInv, AdoptedHasStep, PassInv, FailureInv, NoPass
  <1> QED  BY <1>2, <1>3, <1>4, <1>5 DEF CoreInv

-----------------------------------------------------------------------------
(* What follows for a delivery                                             *)

\* The invariant of a pass holds throughout.
THEOREM DeliveryCorrect == Spec => []CoreInv
  <1>1. Init => CoreInv
    BY CoreInit
  <1>2. CoreInv /\ [Next]_deliveryVars => CoreInv'
    BY CoreNext DEF CoreOK
  <1> QED  BY <1>1, <1>2, PTL DEF Spec

\* TypeOK, with its bound on attempts: the frozen execution_limit is never exceeded.
THEOREM DeliveryTypeOK == Spec => []TypeOK
  <1>1. CoreInv => TypeOK
    <2>1. CoreInv => attempts \in 0 .. MaxAttempts
      BY AttemptsBounded DEF CoreInv, BudgetInv
    <2> QED
      BY <2>1 DEF CoreInv, TypeInv, BudgetInv, HistoryInv, TypeOK, PassRecord, BoundaryOrNone
  <1> QED  BY <1>1, DeliveryCorrect, PTL

\* RepositorySpec: the orchestrator implements the Task repository.  Through any
\* interruption, every write it makes is a legal transition, an attempt within both
\* budgets, or a recordable failure of the active role.
THEOREM DeliveryImplementsRepository == Spec => RepositorySpec
  <1>1. Init => RepositoryInit
    BY DEF Init
  <1>2. CoreInv /\ [Next]_deliveryVars => [RepositoryNext]_repositoryVars
    BY CoreNext DEF CoreOK
  <1> QED  BY <1>1, <1>2, DeliveryCorrect, PTL DEF Spec, RepositorySpec

\* WorkBudgetRespected in every delivery.
THEOREM WorkBudgetHolds == Spec => []WorkBudgetRespected
  BY DeliveryImplementsRepository, RepositoryBudgetHolds, PTL

\* AttemptsReservedFirst: no event claims an attempt that was not reserved before
\* it, so recovered_attempt never has anything to repair.
THEOREM AttemptsReservedFirstHolds == Spec => []AttemptsReservedFirst
  <1>1. CoreInv => AttemptsReservedFirst
    BY DEF CoreInv, HistoryInv
  <1> QED  BY <1>1, DeliveryCorrect, PTL

\* AdoptedHasStep: QueueCorruption ("nonterminal adopted Task has no queued step")
\* is never raised.
THEOREM AdoptedHasStepHolds == Spec => []AdoptedHasStep
  <1>1. CoreInv => AdoptedHasStep
    BY DEF CoreInv, StepInv
  <1> QED  BY <1>1, DeliveryCorrect, PTL

-----------------------------------------------------------------------------
(* The artifacts of a delivery                                             *)

\* The role that publishes artifacts of kind k.
RoleOf(k) == CASE k \in {"PROGRESS", "IMPLEMENTATION"} -> "CODER"
               [] k = "QA" -> "QA"
               [] k = "REVIEW" -> "REVIEWER"
               [] k = "RETIRED" -> "RETIRED"
               [] OTHER -> "PLANNER"

\* Artifact i is the role's output for the current attempt.
Fresh(role, i) == RoleOf(arts[i].kind) = role /\ arts[i].attempt = attempts

NoFresh(role) == \A i \in DOMAIN arts : ~Fresh(role, i)

\* An artifact an event or another artifact may refer to (0 for none).
Usable(x) == x \in 0 .. Len(arts) /\ (x # 0 => arts[x].kind # "RETIRED")

\* The current attempt's output of the role whose turn it is, if there is one, is the
\* newest artifact and follows the Run that produced it; later roles have none yet.
OutputInv ==
    /\ OneOutputPerAttempt
    /\ \A i \in DOMAIN arts : arts[i].attempt <= attempts
    /\ status = "NEW" => arts = <<>>
    /\ status = "PLANNING" => \A i \in DOMAIN arts : arts[i].kind = "PLAN"
    /\ status \in {"IMPLEMENTING", "CONTINUE_REQUIRED", "QUEUED", "QA"} => NoFresh("REVIEWER")
    /\ status \in {"IMPLEMENTING", "CONTINUE_REQUIRED", "QUEUED"} =>
          NoFresh("QA") /\ NoFresh("RETIRED")
    /\ status = "QUEUED" =>
          \A i \in DOMAIN arts : arts[i].attempt <= events[Len(events)].attempt
    /\ \A role \in DeliveryRole : status = StatusOf(role) =>
          \A i \in DOMAIN arts : Fresh(role, i) => i = Len(arts) /\ pass.pc # "run"
    /\ pass.pc = "published" => Len(arts) \in DOMAIN arts /\ Fresh("CODER", Len(arts))
    /\ pass.pc = "route" => \A i \in DOMAIN arts : arts[i].attempt < attempts

\* A report of the current attempt is about the newest candidate or report, and the
\* step that may wait for a decision about it is the one of its Run.
ReportInv ==
    /\ status = "QA" => \A i \in DOMAIN arts : Fresh("QA", i) =>
          arts[i].target = Latest("IMPLEMENTATION") /\ step.boundary = Boundary("QA")
    /\ status = "REVIEW" => \A i \in DOMAIN arts : Fresh("REVIEWER", i) =>
          arts[i].target = Latest("QA")

\* What the last event says of the candidates of an IMPLEMENTING Task.
LineageInv ==
    LET last == events[Revision]
    IN  /\ last.from \in {"PLANNING", "QUEUED", "QA", "REVIEW"}
        /\ last.from = "PLANNING" =>
              \A i \in DOMAIN arts : arts[i].kind = "IMPLEMENTATION" => Fresh("CODER", i)
        /\ last.from = "QUEUED" /\ NoFresh("CODER") => ActiveProgress \in last.arts
        /\ last.from \in {"QA", "REVIEW"} => Latest("IMPLEMENTATION") # 0

\* An output of the current attempt that has no event yet is recognised by the next
\* pass: progress is not checkpointed, a candidate has the lineage of this phase.
CandidateInv ==
    /\ \A i \in DOMAIN events : \A x \in events[i].arts : Usable(x)
    /\ pass.recover => Latest("IMPLEMENTATION") # 0
    /\ status = "IMPLEMENTING" =>
          /\ LineageInv
          /\ \A i \in DOMAIN arts : Fresh("CODER", i) =>
                /\ i \notin Checkpointed /\ ~step.waiting
                /\ arts[i].kind = "IMPLEMENTATION" =>
                      RecoverableCandidate /\ (pass.pc = "loop" => pass.recover)

EvidenceInv ==
    /\ status \in {"IMPLEMENTING", "CONTINUE_REQUIRED", "QUEUED", "QA", "REVIEW", "DONE"} =>
          Latest("PLAN") # 0
    /\ CheckpointEvidence

\* References go back to artifacts that stand.  A report of the current attempt was
\* retired for the step that replaces its own, which retires no other.
RetiredInv ==
    /\ \A j \in DOMAIN arts :
          /\ arts[j].target < j /\ Usable(arts[j].target)
          /\ arts[j].supersedes < j /\ Usable(arts[j].supersedes)
    /\ status = "QA" => \A i \in DOMAIN arts : Fresh("RETIRED", i) =>
          step.static = "SPENT" /\ step.boundary = Boundary("QA")

\* A pass that goes on after its Run at the same boundary has the Run's output.
ConsumedInv ==
    pass.consumed /\ pass.pc = "loop" =>
        \A role \in DeliveryRole :
            status = StatusOf(role) /\ pass.permit = Boundary(role) => ~NoFresh(role)

DeepInv ==
    /\ OutputInv /\ ReportInv /\ CandidateInv /\ EvidenceInv /\ WaitsDecidable
    /\ RetiredInv /\ ConsumedInv

\* The newest artifacts of every kind but RETIRED may be referred to.
LEMMA LatestUsable ==
  ASSUME CoreInv
  PROVE  /\ \A k : k # "RETIRED" => Usable(Latest(k))
         /\ Usable(ActiveProgress) /\ Usable(0)
  <1>1. /\ arts \in Seq(Artifact) /\ Len(arts) \in Nat
        /\ \A k : Latest(k) \in 0 .. Len(arts) /\ (Latest(k) # 0 => arts[Latest(k)].kind = k)
    BY LatestIs DEF CoreInv, TypeInv
  <1>2. \A k : k # "RETIRED" => Usable(Latest(k))
    BY <1>1 DEF Usable
  <1>3. Usable(0)
    BY <1>1 DEF Usable
  <1> QED  BY <1>2, <1>3 DEF ActiveProgress

\* The permit of a pass is left behind by every event and every reserved attempt.
LEMMA PermitBehind ==
  ASSUME CoreInv, pass.pc # "off", NEW role \in DeliveryRole, NEW m \in Nat, NEW n \in Nat,
         m >= attempts, n >= Revision, m > attempts \/ n > Revision
  PROVE  pass.permit # [role |-> role, attempt |-> m, revision |-> n]
  <1>1. pass.permit = step.boundary
    BY DEF CoreInv, StepInv
  <1>2. CASE step = NoStep
    BY <1>1, <1>2 DEF NoStep, NoBoundary, DeliveryRole
  <1>3. CASE step # NoStep
    BY <1>1, <1>3, StepFacts
  <1> QED  BY <1>2, <1>3

\* The durable state that artifacts are judged by.
LEMMA DurableKept ==
  ASSUME UNCHANGED <<status, attempts, events, arts>>
  PROVE  /\ \A role, i : Fresh(role, i)' <=> Fresh(role, i)
         /\ \A role : NoFresh(role)' <=> NoFresh(role)
         /\ \A k : Latest(k)' = Latest(k)
         /\ \A role : Boundary(role)' = Boundary(role)
         /\ ActiveProgress' = ActiveProgress /\ Checkpointed' = Checkpointed
         /\ RecoverableCandidate' <=> RecoverableCandidate
         /\ OneOutputPerAttempt' <=> OneOutputPerAttempt
         /\ Revision' = Revision /\ (LineageInv' <=> LineageInv)
         /\ EvidenceInv' <=> EvidenceInv
         /\ \A x : Usable(x)' <=> Usable(x)
  <1>1. /\ \A role, i : Fresh(role, i)' <=> Fresh(role, i)
        /\ \A role : NoFresh(role)' <=> NoFresh(role)
    BY DEF Fresh, NoFresh
  <1>2. (\A k : Latest(k)' = Latest(k)) /\ ActiveProgress' = ActiveProgress
    BY LatestSame
  <1>3. Checkpointed' = Checkpointed /\ Revision' = Revision
    BY DEF Checkpointed, Revision
  <1>4. RecoverableCandidate' <=> RecoverableCandidate
    BY <1>2, <1>3 DEF RecoverableCandidate
  <1>5. OneOutputPerAttempt' <=> OneOutputPerAttempt
    BY DEF OneOutputPerAttempt
  <1>6. LineageInv' <=> LineageInv
    BY <1>1, <1>2, <1>3 DEF LineageInv
  <1>7. EvidenceInv' <=> EvidenceInv
    BY <1>2 DEF EvidenceInv, CheckpointEvidence
  <1>8. \A role : Boundary(role)' = Boundary(role)
    BY <1>3 DEF Boundary
  <1>9. \A x : Usable(x)' <=> Usable(x)
    BY DEF Usable
  <1> QED  BY <1>1, <1>2, <1>3, <1>4, <1>5, <1>6, <1>7, <1>8, <1>9

\* Only the pass and the queued step change.
LEMMA DeepMoves ==
  ASSUME DeepInv, UNCHANGED <<status, attempts, events, arts>>, WaitsDecidable',
         pass'.pc \notin {"published", "route"},
         pass'.pc = "run" =>
            \A role \in DeliveryRole : status = StatusOf(role) => NoFresh(role),
         status = "QA" => NoFresh("QA") \/ step'.boundary = step.boundary,
         \/ status = "QA" => NoFresh("RETIRED")
         \/ step'.boundary = step.boundary /\ (step.static = "SPENT" => step'.static = "SPENT"),
         pass'.consumed => pass'.pc # "loop",
         pass'.recover => Latest("IMPLEMENTATION") # 0,
         status = "IMPLEMENTING" =>
            \A i \in DOMAIN arts : Fresh("CODER", i) =>
               /\ ~step'.waiting
               /\ arts[i].kind = "IMPLEMENTATION" /\ pass'.pc = "loop" => pass'.recover
  PROVE  DeepInv'
  <1>1. /\ \A role, i : Fresh(role, i)' <=> Fresh(role, i)
        /\ \A role : NoFresh(role)' <=> NoFresh(role)
        /\ \A k : Latest(k)' = Latest(k)
        /\ \A role : Boundary(role)' = Boundary(role)
        /\ Checkpointed' = Checkpointed
        /\ RecoverableCandidate' <=> RecoverableCandidate
        /\ OneOutputPerAttempt' <=> OneOutputPerAttempt
        /\ LineageInv' <=> LineageInv
        /\ EvidenceInv' <=> EvidenceInv
        /\ \A x : Usable(x)' <=> Usable(x)
    BY DurableKept
  <1>2. OutputInv'
    <2>1. ASSUME NEW role \in DeliveryRole, status = StatusOf(role),
                 NEW i \in DOMAIN arts, Fresh(role, i)
          PROVE  i = Len(arts) /\ pass'.pc # "run"
      BY <2>1 DEF DeepInv, OutputInv, NoFresh
    <2> QED  BY <1>1, <2>1 DEF DeepInv, OutputInv
  <1>3. ReportInv'
    BY <1>1 DEF DeepInv, ReportInv, NoFresh
  <1>4. CandidateInv'
    BY <1>1 DEF DeepInv, CandidateInv
  <1>5. RetiredInv'
    BY <1>1 DEF DeepInv, RetiredInv, NoFresh
  <1>6. ConsumedInv'
    BY DEF ConsumedInv
  <1> QED  BY <1>1, <1>2, <1>3, <1>4, <1>5, <1>6 DEF DeepInv

\* A new attempt is reserved: no output belongs to it yet.
LEMMA DeepReserve ==
  ASSUME CoreInv, DeepInv, attempts' = attempts + 1, UNCHANGED <<status, events, arts>>,
         status = "IMPLEMENTING" => NoFresh("CODER"), WaitsDecidable',
         pass'.pc # "published", pass'.recover => pass.recover,
         pass'.pc = "loop" => pass.pc # "off" /\ pass'.permit = pass.permit
  PROVE  DeepInv'
  <1>1. attempts \in Nat /\ \A i \in DOMAIN arts : arts[i].attempt \in Nat
    <2>1. \A i \in DOMAIN arts : arts[i] \in Artifact
      BY DEF CoreInv, TypeInv
    <2> QED  BY <2>1 DEF CoreInv, BudgetInv, Artifact
  <1>2. \A i \in DOMAIN arts : arts[i].attempt <= attempts
    BY DEF DeepInv, OutputInv
  <1>3. /\ \A i \in DOMAIN arts : arts'[i].attempt < attempts'
        /\ \A role : \A i \in DOMAIN arts : ~Fresh(role, i)'
        /\ \A role : NoFresh(role)'
    BY <1>1, <1>2 DEF Fresh, NoFresh
  <1>4. (\A k : Latest(k)' = Latest(k)) /\ ActiveProgress' = ActiveProgress
    BY LatestSame
  <1>5. OutputInv'
    <2>1. OneOutputPerAttempt'
      BY DEF DeepInv, OutputInv, OneOutputPerAttempt
    <2>2. \A i \in DOMAIN arts : arts'[i].attempt <= attempts'
      BY <1>1, <1>2
    <2> QED  BY <1>3, <2>1, <2>2 DEF DeepInv, OutputInv
  <1>6. ReportInv'
    BY <1>3 DEF ReportInv
  <1>7. status = "IMPLEMENTING" => LineageInv'
    <2>1. Revision' = Revision
      BY DEF Revision
    <2> QED  BY <1>3, <1>4, <2>1 DEF DeepInv, CandidateInv, LineageInv, NoFresh
  <1>8. CandidateInv'
    <2>1. \A x : Usable(x)' <=> Usable(x)
      BY DEF Usable
    <2> QED  BY <1>3, <1>4, <1>7, <2>1 DEF DeepInv, CandidateInv
  <1>9. EvidenceInv'
    BY <1>4 DEF DeepInv, EvidenceInv, CheckpointEvidence
  <1>10. \A x : Usable(x)' <=> Usable(x)
    BY DEF Usable
  <1>11. RetiredInv'
    BY <1>3, <1>10 DEF DeepInv, RetiredInv
  <1>12. ConsumedInv'
    <2>1. ASSUME NEW role \in DeliveryRole, pass'.pc = "loop"
          PROVE  pass'.permit # Boundary(role)'
      <3>1. Revision \in Nat /\ Revision' = Revision /\ attempts + 1 \in Nat
        BY <1>1, StepFacts DEF Revision
      <3>2. pass.permit # [role |-> role, attempt |-> attempts + 1, revision |-> Revision]
        BY <1>1, <2>1, <3>1, PermitBehind
      <3>3. Boundary(role)' = [role |-> role, attempt |-> attempts + 1, revision |-> Revision]
        BY <3>1 DEF Boundary
      <3> QED  BY <2>1, <3>2, <3>3
    <2> QED  BY <2>1 DEF ConsumedInv
  <1> QED  BY <1>5, <1>6, <1>8, <1>9, <1>10, <1>11, <1>12 DEF DeepInv, CandidateInv

\* An event is appended.
LEMMA EventAppended ==
  ASSUME CoreInv, DeepInv, NEW e, events' = Append(events, e), arts' = arts,
         \A x \in e.arts : Usable(x), pass'.recover => pass.recover
  PROVE  /\ \A i \in DOMAIN events' : \A x \in events'[i].arts : Usable(x)'
         /\ pass'.recover => Latest("IMPLEMENTATION")' # 0
         /\ events'[Len(events')] = e /\ Revision' = Len(events')
         /\ \A k : Latest(k)' = Latest(k)
         /\ ActiveProgress' = ActiveProgress
  <1>1. /\ \A i \in DOMAIN events' : i \in DOMAIN events \/ i = Len(events) + 1
        /\ \A i \in DOMAIN events : events'[i] = events[i]
        /\ events'[Len(events) + 1] = e /\ Len(events') = Len(events) + 1
    BY DEF CoreInv, HistoryInv
  <1>2. (\A k : Latest(k)' = Latest(k)) /\ ActiveProgress' = ActiveProgress
    BY LatestSame
  <1>3. \A i \in DOMAIN events' : \A x \in events'[i].arts : Usable(x)'
    <2>1. \A x : Usable(x)' <=> Usable(x)
      BY DEF Usable
    <2> QED  BY <1>1, <2>1 DEF DeepInv, CandidateInv
  <1> QED  BY <1>1, <1>2, <1>3 DEF DeepInv, CandidateInv, Revision

\* The Task ends.
LEMMA DeepEnds ==
  ASSUME CoreInv, DeepInv, status' \in Terminal, UNCHANGED <<attempts, arts>>, EvidenceInv',
         NEW e, events' = Append(events, e), \A x \in e.arts : Usable(x),
         pass'.pc \in {"off", "loop"}, pass'.recover => pass.recover
  PROVE  DeepInv'
  <1>1. status' \notin {"NEW", "PLANNING", "IMPLEMENTING", "CONTINUE_REQUIRED", "QUEUED", "QA", "REVIEW"}
    BY DEF Terminal
  <1>2. OutputInv'
    <2>1. OneOutputPerAttempt'
      BY DEF DeepInv, OutputInv, OneOutputPerAttempt
    <2> QED  BY <1>1, <2>1, StatusOfIs DEF DeepInv, OutputInv
  <1>3. ReportInv' /\ WaitsDecidable'
    BY <1>1 DEF ReportInv, WaitsDecidable
  <1>4. CandidateInv'
    BY <1>1, EventAppended DEF CandidateInv
  <1>5. RetiredInv'
    <2>1. \A x : Usable(x)' <=> Usable(x)
      BY DEF Usable
    <2> QED  BY <1>1, <2>1 DEF DeepInv, RetiredInv
  <1>6. ConsumedInv'
    BY <1>1, StatusOfIs DEF ConsumedInv
  <1> QED  BY <1>2, <1>3, <1>4, <1>5, <1>6 DEF DeepInv

\* A pass moves the Task to another status.
LEMMA DeepTransition ==
  ASSUME CoreInv, DeepInv, NEW to, NEW ids, Transition(to, ids), EvidenceInv',
         pass.pc # "off", pass'.pc \in {"off", "loop"}, pass'.recover => pass.recover,
         pass'.pc = "loop" => pass'.permit = pass.permit, \A x \in ids : Usable(x),
         \/ <<status, to>> \in {<<"NEW", "PLANNING">>, <<"IMPLEMENTING", "CONTINUE_REQUIRED">>,
                                <<"CONTINUE_REQUIRED", "QUEUED">>, <<"IMPLEMENTING", "QA">>,
                                <<"QA", "REVIEW">>}
         \/ /\ to = "IMPLEMENTING" /\ \A role \in DeliveryRole \cup {"RETIRED"} : NoFresh(role)
            /\ status \in {"PLANNING", "QUEUED", "QA", "REVIEW"}
            /\ status = "QUEUED" => ActiveProgress \in ids
         \/ to \in Terminal
  PROVE  DeepInv'
  <1> DEFINE e == [from |-> status, to |-> to, attempt |-> attempts, arts |-> ids]
  <1>1. /\ status' = to /\ UNCHANGED <<attempts, arts, step>> /\ events' = Append(events, e)
        /\ e.arts = ids /\ e.from = status /\ e.attempt = attempts
    BY DEF Transition
  <1> HIDE DEF e
  <1>2. /\ \A i \in DOMAIN events' : \A x \in events'[i].arts : Usable(x)'
        /\ pass'.recover => Latest("IMPLEMENTATION")' # 0
        /\ events'[Len(events')] = e /\ Revision' = Len(events')
        /\ \A k : Latest(k)' = Latest(k)
        /\ ActiveProgress' = ActiveProgress
    BY <1>1, EventAppended
  <1>3. /\ \A role, i : Fresh(role, i)' <=> Fresh(role, i)
        /\ \A role : NoFresh(role)' <=> NoFresh(role)
    BY <1>1 DEF Fresh, NoFresh
  <1>4. WaitsDecidable'
    BY <1>1, StepFacts DEF WaitsDecidable
  <1>5. OneOutputPerAttempt' /\ \A i \in DOMAIN arts : arts[i].attempt <= attempts
    BY <1>1 DEF DeepInv, OutputInv, OneOutputPerAttempt
  <1>9. ConsumedInv'
    <2>1. ASSUME NEW role \in DeliveryRole, pass'.pc = "loop"
          PROVE  pass'.permit # Boundary(role)'
      <3>1. Revision \in Nat /\ Revision' = Revision + 1 /\ attempts \in Nat /\ Revision + 1 \in Nat
        <4>1. events \in Seq(StateEvent) /\ attempts \in Nat
          BY DEF CoreInv, HistoryInv, BudgetInv
        <4> QED  BY <1>1, <4>1 DEF Revision
      <3>2. pass.permit # [role |-> role, attempt |-> attempts, revision |-> Revision + 1]
        BY <2>1, <3>1, PermitBehind
      <3>3. Boundary(role)' = [role |-> role, attempt |-> attempts, revision |-> Revision + 1]
        BY <1>1, <3>1 DEF Boundary
      <3> QED  BY <2>1, <3>2, <3>3
    <2> QED  BY <2>1 DEF ConsumedInv
  <1>10. \A j \in DOMAIN arts' :
            /\ arts'[j].target < j /\ Usable(arts[j].target)'
            /\ arts'[j].supersedes < j /\ Usable(arts[j].supersedes)'
    <2>1. \A x : Usable(x)' <=> Usable(x)
      BY <1>1 DEF Usable
    <2> QED  BY <1>1, <2>1 DEF DeepInv, RetiredInv
  <1>6. CASE to \in Terminal
    BY <1>1, <1>6, DeepEnds
  <1>7. CASE /\ to = "IMPLEMENTING" /\ \A role \in DeliveryRole \cup {"RETIRED"} : NoFresh(role)
             /\ status \in {"PLANNING", "QUEUED", "QA", "REVIEW"}
             /\ status = "QUEUED" => ActiveProgress \in ids
    <2>1. \A role \in DeliveryRole \cup {"RETIRED"} : NoFresh(role)'
      BY <1>3, <1>7
    <2>2. OutputInv'
      BY <1>1, <1>5, <1>7, <2>1 DEF OutputInv, NoFresh, DeliveryRole
    <2>3. ReportInv'
      BY <1>1, <1>7 DEF ReportInv
    <2>4. LineageInv'
      <3>1. status = "PLANNING" => \A i \in DOMAIN arts : arts[i].kind # "IMPLEMENTATION"
        BY DEF DeepInv, OutputInv
      <3>2. status \in {"QA", "REVIEW"} => Latest("IMPLEMENTATION") # 0
        BY DEF DeepInv, EvidenceInv, CheckpointEvidence
      <3> QED  BY <1>1, <1>2, <1>7, <3>1, <3>2 DEF LineageInv
    <2>5. CandidateInv'
      BY <1>1, <1>2, <2>1, <2>4 DEF CandidateInv, NoFresh, DeliveryRole
    <2>6. RetiredInv'
      BY <1>1, <1>7, <1>10 DEF RetiredInv
    <2> QED  BY <1>4, <1>9, <2>2, <2>3, <2>5, <2>6 DEF DeepInv
  <1>8. CASE <<status, to>> \in {<<"NEW", "PLANNING">>, <<"IMPLEMENTING", "CONTINUE_REQUIRED">>,
                                 <<"CONTINUE_REQUIRED", "QUEUED">>, <<"IMPLEMENTING", "QA">>,
                                 <<"QA", "REVIEW">>}
    <2>1. /\ to = "PLANNING" => arts = <<>>
          /\ to \in {"CONTINUE_REQUIRED", "QUEUED", "QA"} =>
                NoFresh("REVIEWER") /\ NoFresh("QA") /\ NoFresh("RETIRED")
          /\ to = "REVIEW" => NoFresh("REVIEWER")
          /\ to \notin {"NEW", "IMPLEMENTING"}
      BY <1>8 DEF DeepInv, OutputInv
    <2>2. OutputInv'
      <3>1. ASSUME NEW role \in DeliveryRole, to = StatusOf(role) PROVE NoFresh(role)
        <4>1. role = "QA" \/ role = "REVIEWER"
          BY <2>1, <3>1, StatusOfIs DEF DeliveryRole
        <4> QED  BY <2>1, <3>1, <4>1, StatusOfIs
      <3>2. to = "PLANNING" => \A i \in DOMAIN arts : arts[i].kind = "PLAN"
        BY <2>1
      <3> QED  BY <1>1, <1>2, <1>3, <1>5, <2>1, <3>1, <3>2 DEF OutputInv, NoFresh
    <2>3. ReportInv'
      BY <1>1, <1>3, <2>1 DEF ReportInv, NoFresh
    <2>4. CandidateInv'
      BY <1>1, <1>2, <2>1 DEF CandidateInv
    <2>5. RetiredInv'
      BY <1>1, <1>3, <1>10, <2>1 DEF RetiredInv, NoFresh
    <2> QED  BY <1>4, <1>9, <2>2, <2>3, <2>4, <2>5 DEF DeepInv
  <1> QED  BY <1>6, <1>7, <1>8

\* One more output, of a role that had none for its attempt.
LEMMA OneOutputPublished ==
  ASSUME OneOutputPerAttempt, arts \in Seq(Artifact), NEW a \in Artifact, arts' = Append(arts, a),
         \A i \in DOMAIN arts : arts[i].attempt = a.attempt => RoleOf(arts[i].kind) # RoleOf(a.kind)
  PROVE  OneOutputPerAttempt'
  <1> DEFINE P(k) == IF k \in {"PROGRESS", "IMPLEMENTATION"} THEN "CODER" ELSE k
  <1>1. \A b, c \in Artifact : P(b.kind) = P(c.kind) => RoleOf(b.kind) = RoleOf(c.kind)
    BY DEF RoleOf, Artifact
  <1>2. /\ \A i \in DOMAIN arts : arts'[i] = arts[i] /\ arts[i] \in Artifact
        /\ \A i \in DOMAIN arts' : i \in DOMAIN arts \/ i = Len(arts) + 1
        /\ arts'[Len(arts) + 1] = a
    BY LatestPublished
  <1>3. \A i, j \in DOMAIN arts :
           P(arts[i].kind) = P(arts[j].kind) /\ arts[i].attempt = arts[j].attempt => i = j
    BY DEF OneOutputPerAttempt
  <1>4. \A i, j \in DOMAIN arts' :
           P(arts'[i].kind) = P(arts'[j].kind) /\ arts'[i].attempt = arts'[j].attempt => i = j
    <2> SUFFICES ASSUME NEW i \in DOMAIN arts', NEW j \in DOMAIN arts',
                        P(arts'[i].kind) = P(arts'[j].kind), arts'[i].attempt = arts'[j].attempt
                 PROVE  i = j
      OBVIOUS
    <2> HIDE DEF P
    <2>1. CASE i \in DOMAIN arts /\ j \in DOMAIN arts
      BY <1>2, <1>3, <2>1
    <2>2. CASE i \in DOMAIN arts /\ j = Len(arts) + 1
      BY <1>1, <1>2, <2>2
    <2>3. CASE i = Len(arts) + 1 /\ j \in DOMAIN arts
      BY <1>1, <1>2, <2>3
    <2> QED  BY <1>2, <2>1, <2>2, <2>3
  <1> QED  BY <1>4 DEF OneOutputPerAttempt

\* A QA report is retired, the first of its attempt.
LEMMA OneOutputRetired ==
  ASSUME OneOutputPerAttempt, arts \in Seq(Artifact), NEW n \in DOMAIN arts,
         arts' = [arts EXCEPT ![n].kind = "RETIRED"],
         NoFresh("RETIRED"), arts[n].attempt = attempts
  PROVE  OneOutputPerAttempt'
  <1> DEFINE P(k) == IF k \in {"PROGRESS", "IMPLEMENTATION"} THEN "CODER" ELSE k
  <1>1. /\ DOMAIN arts' = DOMAIN arts /\ arts'[n].kind = "RETIRED"
        /\ \A i \in DOMAIN arts : (i # n => arts'[i] = arts[i]) /\ arts'[i].attempt = arts[i].attempt
    BY RetireTyped
  <1>2. \A i, j \in DOMAIN arts :
           P(arts[i].kind) = P(arts[j].kind) /\ arts[i].attempt = arts[j].attempt => i = j
    BY DEF OneOutputPerAttempt
  <1>3. \A i \in DOMAIN arts : P(arts[i].kind) = P("RETIRED") => arts[i].attempt # attempts
    BY DEF NoFresh, Fresh, RoleOf
  <1>4. \A i, j \in DOMAIN arts' :
           P(arts'[i].kind) = P(arts'[j].kind) /\ arts'[i].attempt = arts'[j].attempt => i = j
    <2> SUFFICES ASSUME NEW i \in DOMAIN arts, NEW j \in DOMAIN arts,
                        P(arts'[i].kind) = P(arts'[j].kind), arts'[i].attempt = arts'[j].attempt,
                        i # j
                 PROVE  FALSE
      BY <1>1
    <2> HIDE DEF P
    <2>1. CASE i # n /\ j # n
      BY <1>1, <1>2, <2>1
    <2>2. CASE i = n
      BY <1>1, <1>3, <2>2
    <2>3. CASE j = n
      BY <1>1, <1>3, <2>3
    <2> QED  BY <2>1, <2>2, <2>3
  <1> QED  BY <1>4 DEF OneOutputPerAttempt

\* A publication refers back to artifacts that stand.
LEMMA RefsPublished ==
  ASSUME arts \in Seq(Artifact), RetiredInv, NEW a \in Artifact, arts' = Append(arts, a),
         a.kind # "RETIRED", Usable(a.target), Usable(a.supersedes)
  PROVE  /\ \A x : Usable(x) => Usable(x)'
         /\ \A j \in DOMAIN arts' :
               /\ arts'[j].target < j /\ Usable(arts[j].target)'
               /\ arts'[j].supersedes < j /\ Usable(arts[j].supersedes)'
  <1>1. /\ \A i \in DOMAIN arts : arts'[i] = arts[i]
        /\ \A i \in DOMAIN arts' : i \in DOMAIN arts \/ i = Len(arts) + 1
        /\ arts'[Len(arts) + 1] = a /\ Len(arts') = Len(arts) + 1 /\ Len(arts) \in Nat
        /\ DOMAIN arts = 1 .. Len(arts)
    BY LatestPublished
  <1>2. \A x : Usable(x) => Usable(x)'
    BY <1>1 DEF Usable
  <1>3. ASSUME NEW j \in DOMAIN arts'
        PROVE  /\ arts'[j].target < j /\ Usable(arts'[j].target)
               /\ arts'[j].supersedes < j /\ Usable(arts'[j].supersedes)
    <2>1. CASE j \in DOMAIN arts
      BY <1>1, <2>1 DEF RetiredInv
    <2>2. CASE j = Len(arts) + 1
      BY <1>1, <2>2 DEF Usable
    <2> QED  BY <1>1, <2>1, <2>2
  <1>4. ASSUME NEW j \in DOMAIN arts'
        PROVE  Usable(arts[j].target)' /\ Usable(arts[j].supersedes)'
    <2>1. PICK t, u : t = arts'[j].target /\ u = arts'[j].supersedes
      OBVIOUS
    <2> QED  BY <1>2, <1>3, <2>1 DEF Usable
  <1> QED  BY <1>2, <1>3, <1>4

\* The Planner publishes the plan.
LEMMA DeepPlan ==
  ASSUME CoreInv, DeepInv, status = "PLANNING", Latest("PLAN") = 0, pass.pc = "loop",
         NEW a \in Artifact, Publish(a), a.kind = "PLAN", a.attempt = attempts, UNCHANGED pass,
         a.target = 0, a.supersedes = 0
  PROVE  DeepInv'
  <1>1. /\ arts \in Seq(Artifact) /\ arts' = Append(arts, a) /\ attempts \in Nat
        /\ UNCHANGED <<status, attempts, events, step>>
    BY DEF Publish, CoreInv, TypeInv, BudgetInv
  <1>2. DOMAIN arts = {}
    <2>1. \A i \in DOMAIN arts : arts[i].kind # "PLAN" /\ arts[i].kind = "PLAN"
      BY <1>1, LatestIs DEF DeepInv, OutputInv
    <2> QED  BY <2>1
  <1>3. /\ Len(arts') = Len(arts) + 1 /\ Len(arts) \in Nat
        /\ \A i \in DOMAIN arts' : arts'[i] = a
        /\ \A k : Latest(k)' = IF a.kind = k THEN Len(arts) + 1 ELSE Latest(k)
    BY <1>1, <1>2, LatestPublished
  <1>9. /\ \A x : Usable(x) => Usable(x)'
        /\ \A j \in DOMAIN arts' :
              /\ arts'[j].target < j /\ Usable(arts[j].target)'
              /\ arts'[j].supersedes < j /\ Usable(arts[j].supersedes)'
    BY <1>1, LatestUsable, RefsPublished DEF DeepInv
  <1>4. OneOutputPerAttempt'
    BY <1>1, <1>2, OneOutputPublished DEF DeepInv, OutputInv
  <1>5. OutputInv'
    BY <1>1, <1>3, <1>4, StatusOfIs DEF OutputInv
  <1>6. ReportInv' /\ EvidenceInv'
    BY <1>1 DEF ReportInv, EvidenceInv, CheckpointEvidence
  <1>7. CandidateInv'
    <2>1. \A i \in DOMAIN events : \A x \in events[i].arts : Usable(x)'
      BY <1>9 DEF DeepInv, CandidateInv
    <2>2. Latest("IMPLEMENTATION")' = Latest("IMPLEMENTATION")
      BY <1>3
    <2> QED  BY <1>1, <2>1, <2>2 DEF DeepInv, CandidateInv
  <1>8. WaitsDecidable'
    BY <1>1, StepFacts DEF WaitsDecidable
  <1>10. RetiredInv' /\ ConsumedInv'
    BY <1>1, <1>9, StatusOfIs DEF RetiredInv, ConsumedInv
  <1> QED  BY <1>5, <1>6, <1>7, <1>8, <1>10 DEF DeepInv

\* What a Run may publish refers to artifacts that stand.
LEMMA OutputUsable ==
  ASSUME CoreInv, NEW role \in DeliveryRole, NEW a \in Output(role)
  PROVE  Usable(a.target) /\ Usable(a.supersedes) /\ a.kind # "RETIRED"
  <1>1. /\ Usable(ActiveProgress) /\ Usable(0) /\ Usable(Latest("IMPLEMENTATION"))
        /\ Usable(Latest("QA")) /\ Usable(Latest("REVIEW"))
    BY LatestUsable
  <1>2. CASE role = "CODER"
    BY <1>1, <1>2 DEF Output
  <1>3. CASE role = "QA"
    BY <1>1, <1>3 DEF Output
  <1>4. CASE role = "REVIEWER"
    BY <1>1, <1>4 DEF Output
  <1> QED  BY <1>2, <1>3, <1>4 DEF DeliveryRole

\* A Run publishes its output: the newest artifact, recognised by the next pass.
LEMMA DeepSucceed ==
  ASSUME CoreInv, DeepInv, NEW role \in DeliveryRole, Succeed(role)
  PROVE  DeepInv'
  <1>1. /\ pass.pc = "run" /\ status = StatusOf(role) /\ step.boundary = Boundary(role)
        /\ status \in {"IMPLEMENTING", "QA", "REVIEW"} /\ ~step.waiting
    BY RunFacts DEF Succeed
  <1>2. PICK a \in Output(role) : Publish(a)
    BY DEF Succeed
  <1>3. /\ a \in Artifact /\ a.attempt = attempts
        /\ role = "CODER" =>
             \/ a.kind = "PROGRESS"
             \/ /\ a.kind = "IMPLEMENTATION" /\ a.target = ActiveProgress
                /\ a.supersedes = Latest("IMPLEMENTATION")
        /\ role = "QA" => a.kind = "QA" /\ a.target = Latest("IMPLEMENTATION")
        /\ role = "REVIEWER" => a.kind = "REVIEW" /\ a.target = Latest("QA")
        /\ Usable(a.target) /\ Usable(a.supersedes) /\ a.kind # "RETIRED"
    BY OutputIs, OutputUsable
  <1>4. RoleOf(a.kind) = role
    BY <1>3 DEF RoleOf, DeliveryRole
  <1>5. /\ UNCHANGED <<status, attempts, events, step>> /\ arts' = Append(arts, a)
        /\ arts \in Seq(Artifact) /\ attempts \in Nat /\ Revision' = Revision
        /\ pass'.pc \in (IF role = "CODER" THEN {"published"} ELSE {"loop", "rejected"})
        /\ pass'.recover = pass.recover
    <2>1. "published" \in PassPC /\ "loop" \in PassPC /\ "rejected" \in PassPC
      BY DEF PassPC
    <2> QED  BY <1>2, <2>1, GotoIs DEF Publish, Succeed, CoreInv, TypeInv, BudgetInv, Revision
  <1>6. PICK n \in Nat : n = Len(arts) + 1
    BY <1>5
  <1>7. /\ Len(arts') = n /\ Len(arts) \in Nat /\ n \in DOMAIN arts' /\ arts'[n] = a /\ n # 0
        /\ DOMAIN arts = 1 .. Len(arts)
        /\ \A i \in DOMAIN arts : i \in DOMAIN arts' /\ arts'[i] = arts[i]
        /\ \A i \in DOMAIN arts' : i \in DOMAIN arts \/ i = n
        /\ \A k : Latest(k)' = IF a.kind = k THEN n ELSE Latest(k)
    BY <1>3, <1>5, <1>6, LatestPublished
  <1>8. NoFresh(role)
    BY <1>1 DEF DeepInv, OutputInv, NoFresh
  <1>9. /\ \A r : \A i \in DOMAIN arts : Fresh(r, i)' <=> Fresh(r, i)
        /\ \A r : Fresh(r, n)' <=> r = role
    BY <1>3, <1>4, <1>5, <1>7 DEF Fresh
  <1>10. \A r : \A i \in DOMAIN arts' : Fresh(r, i)' => (r = role /\ i = n) \/ (i \in DOMAIN arts /\ Fresh(r, i))
    BY <1>7, <1>9
  <1>19. /\ \A x : Usable(x) => Usable(x)'
         /\ \A j \in DOMAIN arts' :
               /\ arts'[j].target < j /\ Usable(arts[j].target)'
               /\ arts'[j].supersedes < j /\ Usable(arts[j].supersedes)'
    BY <1>3, <1>5, RefsPublished DEF DeepInv
  <1>11. \A r : r # role => (NoFresh(r) => NoFresh(r)')
    BY <1>10 DEF NoFresh
  <1>12. OneOutputPerAttempt'
    <2>1. \A i \in DOMAIN arts : arts[i].attempt = a.attempt => RoleOf(arts[i].kind) # RoleOf(a.kind)
      BY <1>3, <1>4, <1>8 DEF NoFresh, Fresh
    <2> QED  BY <1>3, <1>5, <2>1, OneOutputPublished DEF DeepInv, OutputInv
  <1>13. OutputInv'
    <2>1. \A i \in DOMAIN arts' : arts'[i].attempt <= attempts
      BY <1>3, <1>5, <1>7 DEF DeepInv, OutputInv
    <2>2. /\ status \in {"IMPLEMENTING", "QA"} => NoFresh("REVIEWER")'
          /\ status = "IMPLEMENTING" => NoFresh("QA")' /\ NoFresh("RETIRED")'
      BY <1>1, <1>11, StatusOfIs DEF DeepInv, OutputInv, DeliveryRole
    <2>3. ASSUME NEW r \in DeliveryRole, status = StatusOf(r), NEW i \in DOMAIN arts', Fresh(r, i)'
          PROVE  i = Len(arts') /\ pass'.pc # "run"
      <3>1. r = role
        BY <1>1, <2>3, StatusOfIs
      <3> QED  BY <1>5, <1>7, <1>8, <1>10, <2>3, <3>1 DEF NoFresh
    <2>4. pass'.pc = "published" => Len(arts') \in DOMAIN arts' /\ Fresh("CODER", n)'
      BY <1>5, <1>7, <1>9
    <2>5. pass'.pc # "route" /\ status \notin {"NEW", "PLANNING", "CONTINUE_REQUIRED", "QUEUED"}
      BY <1>1, <1>5
    <2> QED  BY <1>5, <1>7, <1>12, <2>1, <2>2, <2>3, <2>4, <2>5 DEF OutputInv
  <1>14. ReportInv'
    <2>1. ASSUME status = "QA", NEW i \in DOMAIN arts', Fresh("QA", i)'
          PROVE  arts'[i].target = Latest("IMPLEMENTATION")' /\ step'.boundary = Boundary("QA")'
      <3>1. role = "QA" /\ i = n
        BY <1>1, <1>8, <1>10, <2>1, StatusOfIs DEF NoFresh, DeliveryRole
      <3>2. Boundary("QA")' = Boundary("QA")
        BY <1>5 DEF Boundary
      <3> QED  BY <1>1, <1>3, <1>5, <1>7, <3>1, <3>2
    <2>2. ASSUME status = "REVIEW", NEW i \in DOMAIN arts', Fresh("REVIEWER", i)'
          PROVE  arts'[i].target = Latest("QA")'
      <3>1. role = "REVIEWER" /\ i = n
        BY <1>1, <1>8, <1>10, <2>2, StatusOfIs DEF NoFresh, DeliveryRole
      <3> QED  BY <1>3, <1>7, <3>1
    <2> QED  BY <1>5, <2>1, <2>2 DEF ReportInv
  <1>15. EvidenceInv'
    <2>1. \A k : Latest(k) # 0 => Latest(k)' # 0
      BY <1>7
    <2>2. status = "REVIEW" =>
             /\ Latest("IMPLEMENTATION")' = Latest("IMPLEMENTATION") /\ Latest("QA")' = Latest("QA")
             /\ Latest("QA") \in DOMAIN arts /\ arts'[Latest("QA")] = arts[Latest("QA")]
      <3>1. status = "REVIEW" => role = "REVIEWER" /\ Latest("QA") # 0
        BY <1>1, StatusOfIs DEF DeliveryRole, DeepInv, EvidenceInv, CheckpointEvidence
      <3>2. Latest("QA") # 0 => Latest("QA") \in DOMAIN arts
        BY <1>5, LatestIs
      <3> QED  BY <1>3, <1>7, <3>1, <3>2
    <2> QED  BY <1>1, <1>5, <2>1, <2>2 DEF DeepInv, EvidenceInv, CheckpointEvidence
  <1>16. \A i \in DOMAIN events : \A x \in events[i].arts : x \in Nat /\ x <= Len(arts)
    BY <1>7 DEF DeepInv, CandidateInv, Usable
  <1>17. CandidateInv'
    <2>1. \A i \in DOMAIN events : \A x \in events[i].arts : Usable(x)'
      BY <1>19 DEF DeepInv, CandidateInv
    <2>2. pass'.recover => Latest("IMPLEMENTATION")' # 0
      BY <1>5, <1>7 DEF DeepInv, CandidateInv
    <2>3. ASSUME status = "IMPLEMENTING"
          PROVE  /\ LineageInv'
                 /\ \A i \in DOMAIN arts' : Fresh("CODER", i)' =>
                       /\ i \notin Checkpointed' /\ ~step'.waiting
                       /\ arts'[i].kind = "IMPLEMENTATION" =>
                             RecoverableCandidate' /\ (pass'.pc = "loop" => pass'.recover)
      <3>1. role = "CODER" /\ LineageInv
        BY <1>1, <2>3, StatusOfIs DEF DeliveryRole, DeepInv, CandidateInv
      <3>2. events'[Revision'] = events[Revision]
        BY <1>5
      <3>3. events[Revision].from = "PLANNING" => Latest("IMPLEMENTATION") = 0
        <4>1. events[Revision].from = "PLANNING" => \A i \in DOMAIN arts : arts[i].kind # "IMPLEMENTATION"
          BY <1>8, <3>1 DEF LineageInv, NoFresh
        <4> QED  BY <1>5, <4>1, LatestIs
      <3>4. events[Revision].from = "QUEUED" => ActiveProgress \in events[Revision].arts
        BY <1>8, <3>1 DEF LineageInv
      <3>5. /\ events[Revision].from \in {"QA", "REVIEW"} => Latest("IMPLEMENTATION") # 0
            /\ events[Revision].from \in {"PLANNING", "QUEUED", "QA", "REVIEW"}
        BY <3>1 DEF LineageInv
      <3>6. LineageInv'
        <4>1. \A i \in DOMAIN arts' :
                 arts'[i].kind = "IMPLEMENTATION" /\ events[Revision].from = "PLANNING" => Fresh("CODER", i)'
          BY <1>7, <1>9, <3>1 DEF LineageInv
        <4>2. ~NoFresh("CODER")'
          BY <1>7, <1>9, <3>1 DEF NoFresh
        <4>3. Latest("IMPLEMENTATION") # 0 => Latest("IMPLEMENTATION")' # 0
          BY <1>7
        <4> QED  BY <3>2, <3>5, <4>1, <4>2, <4>3 DEF LineageInv
      <3>7. ASSUME a.kind = "IMPLEMENTATION"  PROVE RecoverableCandidate'
        <4>1. /\ Latest("IMPLEMENTATION")' = n /\ a.target = ActiveProgress
              /\ a.supersedes = Latest("IMPLEMENTATION") /\ status' = "IMPLEMENTING"
          BY <1>3, <1>5, <1>7, <2>3, <3>1, <3>7
        <4> QED  BY <1>7, <3>2, <3>3, <3>4, <3>5, <4>1 DEF RecoverableCandidate
      <3>8. n \notin Checkpointed'
        <4>1. Checkpointed' = Checkpointed
          BY <1>5 DEF Checkpointed
        <4>2. \A x \in Checkpointed : x \in Nat /\ x <= Len(arts)
          BY <1>16 DEF Checkpointed
        <4>3. n = Len(arts) + 1 /\ Len(arts) \in Nat
          BY <1>6, <1>7
        <4>4. n \notin Checkpointed
          BY <4>2, <4>3
        <4> QED  BY <4>1, <4>4
      <3>9. ASSUME NEW i \in DOMAIN arts', Fresh("CODER", i)'
            PROVE  i = n
        BY <1>8, <1>10, <3>1, <3>9 DEF NoFresh
      <3>10. ~step'.waiting /\ pass'.pc = "published"
        BY <1>1, <1>5, <3>1
      <3> QED  BY <1>7, <3>6, <3>7, <3>8, <3>9, <3>10
    <2> QED  BY <1>5, <2>1, <2>2, <2>3 DEF CandidateInv
  <1>18. WaitsDecidable'
    BY <1>1, <1>5 DEF WaitsDecidable
  <1>20. RetiredInv'
    <2>1. ASSUME status = "QA", NEW i \in DOMAIN arts', Fresh("RETIRED", i)'
          PROVE  step'.static = "SPENT" /\ step'.boundary = Boundary("QA")'
      <3>1. i \in DOMAIN arts /\ Fresh("RETIRED", i) /\ Boundary("QA")' = Boundary("QA")
        BY <1>5, <1>10, <2>1 DEF DeliveryRole, Boundary
      <3> QED  BY <1>5, <2>1, <3>1 DEF DeepInv, RetiredInv
    <2> QED  BY <1>5, <1>19, <2>1 DEF RetiredInv
  <1>21. ConsumedInv'
    <2>1. ~NoFresh(role)'
      BY <1>7, <1>9 DEF NoFresh
    <2> QED  BY <1>1, <1>5, <2>1, StatusOfIs DEF ConsumedInv
  <1> QED  BY <1>13, <1>14, <1>15, <1>17, <1>18, <1>20, <1>21 DEF DeepInv

\* A role that needs a Run has no output for the current attempt: nothing a stopped
\* pass stored is produced again.
LEMMA NeedsRunNoFresh ==
  ASSUME CoreInv, DeepInv, NEW role \in DeliveryRole, NeedsRun(role)
  PROVE  NoFresh(role)
  <1> SUFFICES ASSUME NEW i \in DOMAIN arts, Fresh(role, i)  PROVE FALSE
    BY DEF NoFresh
  <1>1. /\ pass.pc = "loop" /\ status = StatusOf(role) /\ arts \in Seq(Artifact)
        /\ arts[i].kind \in {"PLAN", "PROGRESS", "IMPLEMENTATION", "QA", "REVIEW", "RETIRED"}
    <2>1. arts \in Seq(Artifact) /\ arts[i] \in Artifact
      BY DEF CoreInv, TypeInv
    <2> QED  BY <2>1 DEF NeedsRun, Artifact
  <1>2. i = Len(arts) /\ arts[i].attempt = attempts /\ i # 0
    BY <1>1 DEF DeepInv, OutputInv, Fresh
  <1>3. \A k : arts[i].kind = k => Latest(k) = i
    <2>1. \A k : /\ Latest(k) \in 0 .. Len(arts)
                 /\ \A j \in DOMAIN arts : arts[j].kind = k => j <= Latest(k)
      BY <1>1, LatestIs
    <2> QED  BY <1>1, <1>2, <2>1
  <1>4. CASE role = "CODER"
    <2>1. /\ status = "IMPLEMENTING" /\ ~ProgressPending /\ ~pass.recover
          /\ arts[i].kind \in {"PROGRESS", "IMPLEMENTATION"}
      BY <1>1, <1>4, StatusOfIs DEF NeedsRun, Fresh, RoleOf
    <2>2. i \notin Checkpointed /\ (arts[i].kind = "IMPLEMENTATION" => pass.recover)
      BY <1>1, <1>4, <2>1 DEF DeepInv, CandidateInv
    <2>3. arts[i].kind = "PROGRESS" /\ Latest("PROGRESS") = i
      BY <1>3, <2>1, <2>2
    <2>4. Latest("IMPLEMENTATION") \in Nat /\ Latest("IMPLEMENTATION") <= Len(arts)
          /\ Latest("IMPLEMENTATION") # i
      BY <1>1, <1>2, <2>3, LatestIs
    <2>5. ActiveProgress = i
      BY <1>1, <1>2, <2>3, <2>4 DEF ActiveProgress
    <2> QED  BY <1>2, <2>1, <2>2, <2>5 DEF ProgressPending
  <1>5. CASE role = "QA"
    <2>1. status = "QA" /\ ~CurrentQA /\ arts[i].kind = "QA"
      BY <1>1, <1>5, StatusOfIs DEF NeedsRun, Fresh, RoleOf
    <2>2. arts[i].target = Latest("IMPLEMENTATION")
      BY <1>5, <2>1 DEF DeepInv, ReportInv
    <2> QED  BY <1>2, <1>3, <2>1, <2>2 DEF CurrentQA, CurrentReport
  <1>6. CASE role = "REVIEWER"
    <2>1. status = "REVIEW" /\ ~CurrentReview /\ arts[i].kind = "REVIEW"
      BY <1>1, <1>6, StatusOfIs DEF NeedsRun, Fresh, RoleOf
    <2>2. arts[i].target = Latest("QA") /\ arts[Latest("QA")].target = Latest("IMPLEMENTATION")
      BY <1>6, <2>1 DEF DeepInv, ReportInv, EvidenceInv, CheckpointEvidence
    <2> QED  BY <1>2, <1>3, <2>1, <2>2 DEF CurrentReview, CurrentReport
  <1> QED  BY <1>4, <1>5, <1>6 DEF DeliveryRole

\* A pass that goes on holds no waiting step.
LEMMA PassNotWaiting ==
  ASSUME CoreInv, pass.pc # "off", step' = step
  PROVE  ~step.waiting /\ WaitsDecidable'
  BY StepFacts DEF WaitsDecidable

\* A blocked or failed Task claims no evidence.
LEMMA EvidenceEnds ==
  ASSUME status' \in {"BLOCKED", "FAILED"}
  PROVE  EvidenceInv' /\ status' \in Terminal
  BY DEF EvidenceInv, CheckpointEvidence, Terminal

\* A pass is stopped.
LEMMA DeepCrash ==
  ASSUME CoreInv, DeepInv, EndPass, pass.pc # "off",
         UNCHANGED <<status, attempts, failures, events, arts, step, admitted>>
  PROVE  DeepInv'
  <1>1. pass'.pc = "off" /\ ~pass'.recover
    BY PassEnded DEF EndPass
  <1>2. ~step.waiting /\ WaitsDecidable'
    BY PassNotWaiting
  <1> QED  BY <1>1, <1>2, DeepMoves

\* A pass begins.
LEMMA DeepBegin ==
  ASSUME CoreInv, DeepInv, Begin
  PROVE  DeepInv'
  <1>1. /\ UNCHANGED <<status, attempts, events, arts, step>> /\ ~step.waiting
        /\ pass'.pc = (IF TransientExhausted THEN "block" ELSE "loop")
        /\ pass'.recover = RecoverableCandidate /\ ~pass'.consumed
    BY StepFacts DEF Begin
  <1>2. WaitsDecidable' /\ pass'.pc \in {"block", "loop"}
    BY <1>1 DEF WaitsDecidable
  <1>3. RecoverableCandidate => Latest("IMPLEMENTATION") # 0
    BY DEF RecoverableCandidate
  <1>4. status = "IMPLEMENTING" =>
           \A i \in DOMAIN arts : Fresh("CODER", i) =>
              ~step'.waiting /\ (arts[i].kind = "IMPLEMENTATION" => RecoverableCandidate)
    BY <1>1 DEF DeepInv, CandidateInv
  <1> QED  BY <1>1, <1>2, <1>3, <1>4, DeepMoves

\* A Run begins, or the next step is published.
LEMMA DeepBoundary ==
  ASSUME CoreInv, DeepInv, NEW role \in DeliveryRole, Run(role) \/ NextStep(role)
  PROVE  DeepInv'
  <1>1. /\ NoFresh(role) /\ status = StatusOf(role) /\ pass.pc = "loop"
        /\ UNCHANGED <<status, attempts, events, arts>>
    BY NeedsRunNoFresh DEF Run, NextStep, NeedsRun
  <1>2. \A r \in DeliveryRole : status = StatusOf(r) => NoFresh(r)
    BY <1>1, StatusOfIs
  <1>3. (status = "QA" => NoFresh("QA")) /\ (status = "IMPLEMENTING" => NoFresh("CODER"))
    BY <1>2, StatusOfIs DEF DeliveryRole
  <1>4. pass'.pc \in {"run", "off"} /\ (pass'.recover => pass.recover)
    <2>1. CASE Run(role)
      BY <2>1 DEF Run, CoreInv, TypeInv, PassRecord
    <2>2. CASE NextStep(role)
      BY <2>2, PassEnded DEF NextStep, EndPass
    <2> QED  BY <2>1, <2>2
  <1>5. WaitsDecidable'
    <2>1. CASE Run(role)
      BY <1>1, <2>1, PassNotWaiting DEF Run
    <2>2. CASE NextStep(role)
      BY <2>2 DEF NextStep, Published, WaitsDecidable
    <2> QED  BY <2>1, <2>2
  <1>6. pass'.recover => Latest("IMPLEMENTATION") # 0
    BY <1>4 DEF DeepInv, CandidateInv
  <1>7. \/ status = "QA" => NoFresh("RETIRED")
        \/ step' = step
    <2>1. CASE Run(role)
      BY <2>1 DEF Run
    <2>2. CASE NextStep(role)
      <3>1. pass.permit # Boundary(role)
        BY <1>1, <2>2 DEF NextStep, Permitted, DeepInv, ConsumedInv
      <3>2. pass.permit = step.boundary
        BY <1>1 DEF CoreInv, StepInv
      <3>3. status = "QA" => role = "QA"
        BY <1>1, StatusOfIs DEF DeliveryRole
      <3> QED  BY <3>1, <3>2, <3>3 DEF DeepInv, RetiredInv, NoFresh
    <2> QED  BY <2>1, <2>2
  <1> QED  BY <1>1, <1>2, <1>3, <1>4, <1>5, <1>6, <1>7, DeepMoves DEF NoFresh

\* A step waits at the boundary of the role that failed.
LEMMA DeepWait ==
  ASSUME CoreInv, DeepInv, NEW role \in DeliveryRole, Wait, EndPass, status = StatusOf(role),
         step.boundary = Boundary(role), status = "IMPLEMENTING" => NoFresh("CODER")
  PROVE  DeepInv'
  <1>1. /\ UNCHANGED <<status, attempts, events, arts>> /\ step'.boundary = step.boundary
        /\ step'.static = step.static /\ pass'.pc = "off" /\ ~pass'.recover
    <2>1. step \in QueuedStep
      BY StepFacts
    <2> QED  BY <2>1, PassEnded DEF Wait, EndPass, QueuedStep
  <1>2. Boundary(role)' = Boundary(role) /\ Boundary(role).role = role
    BY <1>1 DEF Boundary, Revision
  <1>3. WaitsDecidable'
    BY <1>1, <1>2 DEF WaitsDecidable
  <1> QED  BY <1>1, <1>3, DeepMoves DEF NoFresh

\* A decision about a waiting step that keeps its item, or reserves an attempt.
LEMMA DeepDecision ==
  ASSUME CoreInv, DeepInv, Resume \/ ResumeStatic \/ Retry
  PROVE  DeepInv'
  <1>1. /\ UNCHANGED <<status, events, arts, pass>> /\ step.waiting /\ pass.pc = "off"
    BY StepFacts DEF Resume, ResumeStatic, Retry, Resolvable
  <1>2. CASE Resume \/ ResumeStatic
    <2>1. /\ ~step'.waiting /\ step'.boundary = step.boundary /\ UNCHANGED attempts
          /\ step.static = "SPENT" => step'.static = "SPENT"
      <3>1. step \in QueuedStep
        BY StepFacts
      <3> QED  BY <1>2, <3>1 DEF Resume, ResumeStatic, QueuedStep
    <2>2. WaitsDecidable'
      BY <2>1 DEF WaitsDecidable
    <2>3. pass'.recover => Latest("IMPLEMENTATION") # 0
      BY <1>1 DEF DeepInv, CandidateInv
    <2> QED  BY <1>1, <2>1, <2>2, <2>3, DeepMoves
  <1>3. CASE Retry
    <2>1. attempts' = attempts + 1
      BY <1>3 DEF Retry, WithRetryFailure
    <2>2. WaitsDecidable'
      BY <1>3 DEF WaitsDecidable, Retry, Published
    <2>3. status = "IMPLEMENTING" => NoFresh("CODER")
      BY <1>1 DEF DeepInv, CandidateInv, NoFresh
    <2> QED  BY <1>1, <2>1, <2>2, <2>3, DeepReserve
  <1> QED  BY <1>2, <1>3

\* Retiring a QA report leaves the newest artifacts of the other kinds.
LEMMA LatestRetired ==
  ASSUME arts \in Seq(Artifact), NEW n \in DOMAIN arts, arts[n].kind = "QA",
         arts' = [arts EXCEPT ![n].kind = "RETIRED"], NEW k, k \notin {"QA", "RETIRED"}
  PROVE  Latest(k)' = Latest(k)
  <1>1. /\ DOMAIN arts' = DOMAIN arts /\ arts'[n].kind = "RETIRED"
        /\ \A i \in DOMAIN arts : i # n => arts'[i] = arts[i]
    BY RetireTyped
  <1>2. \A i \in DOMAIN arts : arts'[i].kind = k <=> arts[i].kind = k
    BY <1>1
  <1>3. {i \in DOMAIN arts' : arts'[i].kind = k} = {i \in DOMAIN arts : arts[i].kind = k}
    BY <1>1, <1>2
  <1> QED  BY <1>3 DEF Latest

\* A decision replaces a rejected report: it is the newest artifact and the first of
\* its attempt to be retired.
LEMMA DeepReplace ==
  ASSUME CoreInv, DeepInv, RetryRejectedQA
  PROVE  DeepInv'
  <1>1. /\ step.waiting /\ Live /\ step.static = "DECIDED" /\ step.boundary = Boundary("QA")
        /\ CurrentQA /\ Latest("QA") \notin Checkpointed
        /\ arts' = [arts EXCEPT ![Latest("QA")].kind = "RETIRED"]
        /\ step' = [Published(step.boundary) EXCEPT !.static = "SPENT"]
        /\ UNCHANGED <<status, attempts, failures, events, admitted, pass>>
    BY DEF RetryRejectedQA, Resolvable, ReportReplaceable, Replace, Live
  <1>2. /\ pass.pc = "off" /\ step # NoStep /\ step.boundary \in RoleRunBoundary
        /\ arts \in Seq(Artifact) /\ attempts \in Nat
    BY <1>1, StepFacts DEF CoreInv, TypeInv
  <1>3. PICK b \in RoleRunBoundary : b = step.boundary
    BY <1>2
  <1>4. step'.boundary = step.boundary /\ step'.static = "SPENT" /\ ~step'.waiting
    BY <1>1, <1>3, PublishedIs
  <1>5. status = "QA" /\ Boundary("QA")' = Boundary("QA")
    <2>1. Boundary("QA").role = "QA"
      BY DEF Boundary
    <2>2. status = StatusOf("QA")
      BY <1>1, <2>1 DEF DeepInv, WaitsDecidable, Live
    <2> QED  BY <1>1, <2>2, StatusOfIs DEF Boundary, Revision
  <1>6. PICK n : n = Latest("QA")
    OBVIOUS
  <1>7. /\ n \in DOMAIN arts /\ arts[n].kind = "QA" /\ arts[n].attempt = attempts /\ Fresh("QA", n)
    <2>1. n # 0 /\ arts[n].attempt = attempts
      BY <1>1, <1>6 DEF CurrentQA, CurrentReport
    <2>2. n \in DOMAIN arts /\ arts[n].kind = "QA"
      BY <1>2, <1>6, <2>1, LatestIs
    <2> QED  BY <2>1, <2>2 DEF Fresh, RoleOf
  <1>8. n = Len(arts) /\ Len(arts) \in Nat /\ DOMAIN arts = 1 .. Len(arts)
    <2>1. status = StatusOf("QA") /\ "QA" \in DeliveryRole
      BY <1>5, StatusOfIs DEF DeliveryRole
    <2> QED  BY <1>2, <1>7, <2>1 DEF DeepInv, OutputInv
  <1>9. arts' = [arts EXCEPT ![n].kind = "RETIRED"]
    BY <1>1, <1>6
  <1>10. /\ arts' \in Seq(Artifact) /\ DOMAIN arts' = DOMAIN arts /\ Len(arts') = Len(arts)
         /\ \A i \in DOMAIN arts :
               /\ i # n => arts'[i] = arts[i]
               /\ arts'[i].attempt = arts[i].attempt /\ arts'[i].target = arts[i].target
               /\ arts'[i].supersedes = arts[i].supersedes
         /\ arts'[n].kind = "RETIRED"
    BY <1>2, <1>7, <1>9, RetireTyped
  <1>11. NoFresh("RETIRED")
    BY <1>1, <1>5 DEF DeepInv, RetiredInv, NoFresh
  <1>12. \A role : \A i \in DOMAIN arts :
            Fresh(role, i)' <=> IF i = n THEN role = "RETIRED" ELSE Fresh(role, i)
    <2>1. \A role : \A i \in DOMAIN arts : i # n => (Fresh(role, i)' <=> Fresh(role, i))
      BY <1>1, <1>10 DEF Fresh
    <2>2. \A role : Fresh(role, n)' <=> role = "RETIRED"
      BY <1>1, <1>7, <1>10 DEF Fresh, RoleOf
    <2> QED  BY <2>1, <2>2
  <1>13. NoFresh("REVIEWER")' /\ NoFresh("QA")'
    <2>1. NoFresh("REVIEWER")
      BY <1>5 DEF DeepInv, OutputInv
    <2>2. \A i \in DOMAIN arts : Fresh("QA", i) => i = n
      <3>1. status = StatusOf("QA") /\ "QA" \in DeliveryRole
        BY <1>5, StatusOfIs DEF DeliveryRole
      <3> QED  BY <1>8, <3>1 DEF DeepInv, OutputInv
    <2> QED  BY <1>10, <1>12, <2>1, <2>2 DEF NoFresh
  <1>14. OneOutputPerAttempt'
    BY <1>1, <1>2, <1>7, <1>9, <1>11, OneOutputRetired DEF DeepInv, OutputInv
  <1>15. OutputInv'
    <2>1. \A i \in DOMAIN arts' : arts'[i].attempt <= attempts'
      BY <1>1, <1>10 DEF DeepInv, OutputInv
    <2>2. \A role \in DeliveryRole : status = StatusOf(role) => role = "QA"
      BY <1>5, StatusOfIs DEF DeliveryRole
    <2>3. \A role \in DeliveryRole : status' = StatusOf(role) => NoFresh(role)'
      BY <1>1, <1>13, <2>2
    <2> QED  BY <1>1, <1>2, <1>5, <1>13, <1>14, <2>1, <2>3 DEF OutputInv, NoFresh
  <1>16. ReportInv'
    BY <1>1, <1>5, <1>13 DEF ReportInv, NoFresh
  <1>17. \A x : x # n /\ Usable(x) => Usable(x)'
    BY <1>8, <1>10 DEF Usable
  <1>18. RetiredInv'
    <2>1. ASSUME NEW j \in DOMAIN arts'
          PROVE  /\ arts'[j].target < j /\ Usable(arts[j].target)'
                 /\ arts'[j].supersedes < j /\ Usable(arts[j].supersedes)'
      <3>1. PICK t, u : t = arts[j].target /\ u = arts[j].supersedes
        OBVIOUS
      <3>2. t < j /\ Usable(t) /\ u < j /\ Usable(u)
        BY <1>10, <3>1 DEF DeepInv, RetiredInv
      <3>3. t # n /\ u # n
        BY <1>8, <1>10, <3>2 DEF Usable
      <3>4. Usable(t)' /\ Usable(u)'
        BY <1>17, <3>2, <3>3
      <3>5. arts'[j].target = t /\ arts'[j].supersedes = u
        BY <1>10, <3>1
      <3> QED  BY <3>2, <3>4, <3>5 DEF Usable
    <2> QED  BY <1>1, <1>4, <1>5, <2>1 DEF RetiredInv
  <1>19. CandidateInv'
    <2>1. ASSUME NEW i \in DOMAIN events, NEW x \in events[i].arts
          PROVE  Usable(x)'
      <3>1. Usable(x) /\ x \in Checkpointed
        BY DEF DeepInv, CandidateInv, Checkpointed
      <3> QED  BY <1>1, <1>6, <1>17, <3>1
    <2>2. Latest("IMPLEMENTATION")' = Latest("IMPLEMENTATION")
      BY <1>2, <1>7, <1>9, LatestRetired
    <2> QED  BY <1>1, <1>5, <2>1, <2>2 DEF DeepInv, CandidateInv
  <1>20. EvidenceInv'
    <2>1. \A k \in {"PLAN", "IMPLEMENTATION"} : Latest(k)' = Latest(k)
      BY <1>2, <1>7, <1>9, LatestRetired
    <2> QED  BY <1>1, <1>5, <2>1 DEF DeepInv, EvidenceInv, CheckpointEvidence
  <1>21. WaitsDecidable' /\ ConsumedInv'
    BY <1>1, <1>2, <1>4 DEF WaitsDecidable, ConsumedInv
  <1> QED  BY <1>15, <1>16, <1>18, <1>19, <1>20, <1>21 DEF DeepInv

\* The step of a terminal Task is closed.
LEMMA DeepClose ==
  ASSUME CoreInv, DeepInv, Close \/ CloseCancelled
  PROVE  DeepInv'
  <1>1. /\ UNCHANGED <<status, attempts, events, arts>> /\ status \in Terminal
        /\ step' = NoStep /\ pass'.pc = "off" /\ (pass'.recover => pass.recover)
    BY PassEnded DEF Close, CloseCancelled, EndPass
  <1>2. WaitsDecidable' /\ status \notin {"QA", "IMPLEMENTING"}
    BY <1>1 DEF WaitsDecidable, Terminal
  <1>3. pass'.recover => Latest("IMPLEMENTATION") # 0
    BY <1>1 DEF DeepInv, CandidateInv
  <1> QED  BY <1>1, <1>2, <1>3, DeepMoves

\* A Run fails transiently.
LEMMA DeepFailTransient ==
  ASSUME CoreInv, DeepInv, NEW role \in DeliveryRole, FailTransient(role)
  PROVE  DeepInv'
  <1>1. /\ pass.pc = "run" /\ status = StatusOf(role) /\ UNCHANGED <<status, events, arts, step>>
        /\ Running(role)
    BY RunFacts DEF FailTransient
  <1>2. NoFresh(role)
    BY <1>1 DEF DeepInv, OutputInv, NoFresh
  <1>3. status = "IMPLEMENTING" => NoFresh("CODER")
    BY <1>1, <1>2, StatusOfIs DEF DeliveryRole
  <1>4. /\ pass'.pc = (IF ReservesNext(role) THEN "loop" ELSE "block")
        /\ pass'.recover = pass.recover /\ pass'.permit = pass.permit
    <2>1. (IF ReservesNext(role) THEN "loop" ELSE "block") \in PassPC
      BY DEF PassPC
    <2> QED  BY <2>1, GotoIs DEF FailTransient
  <1>5. WaitsDecidable'
    BY <1>1, PassNotWaiting
  <1>6. CASE ReservesNext(role)
    <2>1. attempts' = attempts + 1
      BY <1>6 DEF FailTransient, WithRetryFailure
    <2> QED  BY <1>1, <1>3, <1>4, <1>5, <1>6, <2>1, DeepReserve
  <1>7. CASE ~ReservesNext(role)
    <2>1. attempts' = attempts
      BY <1>7 DEF FailTransient, WithRetryFailure
    <2>2. pass'.recover => Latest("IMPLEMENTATION") # 0
      BY <1>4 DEF DeepInv, CandidateInv
    <2> QED  BY <1>1, <1>3, <1>4, <1>5, <1>7, <2>1, <2>2, DeepMoves DEF NoFresh
  <1> QED  BY <1>6, <1>7

\* The Task is ended outside a pass.
LEMMA DeepEnded ==
  ASSUME CoreInv, DeepInv, SettleStep \/ Cancel
  PROVE  DeepInv'
  <1>1. /\ status' \in {"BLOCKED", "FAILED"} /\ UNCHANGED <<attempts, arts, pass>> /\ pass.pc = "off"
    BY DEF SettleStep, Cancel
  <1>2. PICK n, to : events' = Append(events, [from |-> status, to |-> to, attempt |-> n, arts |-> {}])
    BY DEF SettleStep, Cancel
  <1>3. PICK e : /\ e = [from |-> status, to |-> to, attempt |-> n, arts |-> {}]
                 /\ e.arts = {} /\ events' = Append(events, e)
    BY <1>2
  <1>4. \A x \in e.arts : Usable(x)
    BY <1>3
  <1> QED  BY <1>1, <1>3, <1>4, EvidenceEnds, DeepEnds

\* Every artifact belongs to an earlier attempt.
LEMMA NoFreshBelow ==
  ASSUME CoreInv, \A i \in DOMAIN arts : arts[i].attempt < attempts
  PROVE  \A role : NoFresh(role)
  <1>1. attempts \in Nat
    BY DEF CoreInv, BudgetInv
  <1> QED  BY <1>1 DEF NoFresh, Fresh

\* NEW and PLANNING.
LEMMA DeepPlanning ==
  ASSUME CoreInv, DeepInv, Validate \/ Plan
  PROVE  DeepInv'
  <1>0. pass.pc = "loop"
    BY DEF Validate, Plan
  <1>1. CASE Validate
    <2>1. status = "NEW" /\ pass' = pass
      BY <1>1 DEF Validate
    <2>2. CASE attempts = 0 /\ ReserveAttempt
      <3>1. attempts' = attempts + 1 /\ UNCHANGED <<status, events, arts, step>>
        BY <2>2 DEF ReserveAttempt
      <3> QED  BY <1>0, <2>1, <3>1, PassNotWaiting, DeepReserve
    <2>3. CASE attempts # 0 /\ Transition("PLANNING", {})
      <3>1. EvidenceInv'
        BY <2>3 DEF Transition, EvidenceInv, CheckpointEvidence
      <3> QED  BY <1>0, <2>1, <2>3, <3>1, DeepTransition
    <2> QED  BY <1>1, <2>2, <2>3 DEF Validate
  <1>2. CASE Plan
    <2>1. status = "PLANNING" /\ \A i \in DOMAIN arts : arts[i].kind = "PLAN"
      BY <1>2 DEF Plan, DeepInv, OutputInv
    <2> DEFINE a == [kind |-> "PLAN", target |-> 0, supersedes |-> 0,
                     attempt |-> attempts, verdict |-> "NONE"]
    <2>2. /\ a \in Artifact /\ a.kind = "PLAN" /\ a.attempt = attempts
          /\ a.target = 0 /\ a.supersedes = 0
      BY DEF Artifact, CoreInv, BudgetInv
    <2>3. CASE Latest("PLAN") = 0 /\ Publish(a) /\ UNCHANGED pass
      <3> HIDE DEF a
      <3> QED  BY <1>0, <2>1, <2>2, <2>3, DeepPlan
    <2>4. CASE EndPass /\ UNCHANGED <<status, attempts, failures, events, arts, step, admitted>>
      BY <1>0, <2>4, DeepCrash
    <2>5. CASE Transition("BLOCKED", {}) /\ EndPass
      <3>1. pass'.pc = "off" /\ ~pass'.recover /\ EvidenceInv' /\ "BLOCKED" \in Terminal
        BY <2>5, PassEnded, EvidenceEnds DEF EndPass, Transition, Terminal
      <3> QED  BY <1>0, <2>5, <3>1, DeepTransition
    <2>6. CASE Latest("PLAN") # 0 /\ Transition("IMPLEMENTING", {Latest("PLAN")}) /\ UNCHANGED pass
      <3>1. EvidenceInv'
        BY <2>6, LatestSame DEF Transition, EvidenceInv, CheckpointEvidence
      <3>2. \A role \in DeliveryRole \cup {"RETIRED"} : NoFresh(role)
        BY <2>1 DEF NoFresh, Fresh, RoleOf, DeliveryRole
      <3>3. \A x \in {Latest("PLAN")} : Usable(x)
        BY LatestUsable
      <3> QED  BY <1>0, <2>1, <2>6, <3>1, <3>2, <3>3, DeepTransition
    <2> QED  BY <1>2, <2>3, <2>4, <2>5, <2>6 DEF Plan
  <1> QED  BY <1>1, <1>2

\* CONTINUE_REQUIRED and QUEUED, and output that is checkpointed without a Run.
LEMMA DeepContinue ==
  ASSUME CoreInv, DeepInv, Continue \/ RecoverOutput
  PROVE  DeepInv'
  <1>0. /\ pass.pc = "loop" /\ \A x \in {ActiveProgress} : Usable(x)
        /\ \A x \in {Latest("IMPLEMENTATION")} : Usable(x)
    BY LatestUsable DEF Continue, RecoverOutput
  <1>1. CASE Continue
    <2>1. pass' = pass
      BY <1>1 DEF Continue
    <2>2. ASSUME status = "CONTINUE_REQUIRED",
                 Transition(IF WorkBudgetExhausted THEN "BLOCKED" ELSE "QUEUED", {ActiveProgress})
          PROVE  DeepInv'
      <3>1. EvidenceInv'
        BY <2>2, LatestSame DEF Transition, DeepInv, EvidenceInv, CheckpointEvidence
      <3>2. CASE WorkBudgetExhausted
        <4>1. Transition("BLOCKED", {ActiveProgress}) /\ "BLOCKED" \in Terminal
          BY <2>2, <3>2 DEF Terminal
        <4> QED  BY <1>0, <2>1, <3>1, <4>1, DeepTransition
      <3>3. CASE ~WorkBudgetExhausted
        <4>1. Transition("QUEUED", {ActiveProgress})
          BY <2>2, <3>3
        <4> QED  BY <1>0, <2>1, <2>2, <3>1, <4>1, DeepTransition
      <3> QED  BY <3>2, <3>3
    <2>3. ASSUME status = "QUEUED", ReserveAttempt
          PROVE  DeepInv'
      <3>1. attempts' = attempts + 1 /\ UNCHANGED <<status, events, arts, step>>
        BY <2>3 DEF ReserveAttempt
      <3> QED  BY <1>0, <2>1, <2>3, <3>1, PassNotWaiting, DeepReserve
    <2>4. ASSUME status = "QUEUED", attempts > QueuedAttempt,
                 Transition("IMPLEMENTING", {ActiveProgress})
          PROVE  DeepInv'
      <3>1. EvidenceInv'
        BY <2>4, LatestSame DEF Transition, DeepInv, EvidenceInv, CheckpointEvidence
      <3>2. \A i \in DOMAIN arts : arts[i].attempt < attempts
        <4>1. \A i \in DOMAIN arts : arts[i] \in Artifact
          BY DEF CoreInv, TypeInv
        <4>2. \A i \in DOMAIN arts : arts[i].attempt \in Nat /\ arts[i].attempt <= QueuedAttempt
          BY <2>4, <4>1, QueuedAttemptIs DEF CoreInv, DeepInv, OutputInv, Artifact
        <4>3. QueuedAttempt \in Nat /\ attempts \in Nat
          <5>1. status # "NEW" /\ Live
            BY <2>4 DEF Live, Terminal
          <5>2. attempts \in Nat /\ events[Len(events)].attempt \in 1 .. attempts
            BY <5>1, AttemptReserved DEF CoreInv
          <5> QED  BY <2>4, <5>2, QueuedAttemptIs DEF CoreInv
        <4> QED  BY <2>4, <4>2, <4>3
      <3> QED  BY <1>0, <2>1, <2>4, <3>1, <3>2, NoFreshBelow, DeepTransition
    <2> QED  BY <1>1, <2>2, <2>3, <2>4 DEF Continue
  <1>2. CASE RecoverOutput
    <2>1. status = "IMPLEMENTING"
      BY <1>2 DEF RecoverOutput
    <2>2. ASSUME ProgressPending, Transition("CONTINUE_REQUIRED", {ActiveProgress}), UNCHANGED pass
          PROVE  DeepInv'
      <3>1. EvidenceInv'
        BY <2>1, <2>2, LatestSame
           DEF Transition, DeepInv, EvidenceInv, CheckpointEvidence, ProgressPending
      <3> QED  BY <1>0, <2>1, <2>2, <3>1, DeepTransition
    <2>3. ASSUME pass.recover, Transition("QA", {Latest("IMPLEMENTATION")}),
                 pass' = [pass EXCEPT !.recover = FALSE]
          PROVE  DeepInv'
      <3>1. EvidenceInv'
        <4>1. Latest("IMPLEMENTATION") # 0 /\ Latest("PLAN") # 0
          BY <2>1, <2>3 DEF DeepInv, CandidateInv, EvidenceInv
        <4> QED  BY <2>3, <4>1, LatestSame DEF Transition, EvidenceInv, CheckpointEvidence
      <3>2. pass'.pc = "loop" /\ ~pass'.recover /\ pass'.permit = pass.permit
        BY <1>0, <2>3 DEF CoreInv, TypeInv, PassRecord
      <3> QED  BY <1>0, <2>1, <2>3, <3>1, <3>2, DeepTransition
    <2> QED  BY <1>2, <2>2, <2>3 DEF RecoverOutput
  <1> QED  BY <1>1, <1>2

\* A failure parks the step or ends the Task.
LEMMA DeepSettle ==
  ASSUME CoreInv, DeepInv, NEW class, NEW role \in DeliveryRole, Settle(class, role),
         status = StatusOf(role), step.boundary = Boundary(role),
         status = "IMPLEMENTING" => NoFresh("CODER"), pass.pc # "off"
  PROVE  DeepInv'
  <1>1. CASE Wait /\ EndPass
    BY <1>1, DeepWait
  <1>2. ASSUME NEW to \in {"FAILED", "BLOCKED"}, Transition(to, {}), Goto("loop")
        PROVE  DeepInv'
    <2>1. EvidenceInv' /\ to \in Terminal
      BY <1>2, EvidenceEnds DEF Transition, Terminal
    <2>2. pass'.pc = "loop" /\ pass'.recover = pass.recover /\ pass'.permit = pass.permit
      BY <1>2, GotoIs DEF PassPC
    <2> QED  BY <1>2, <2>1, <2>2, DeepTransition
  <1> QED  BY <1>1, <1>2 DEF Settle

\* Checkpoint, Block and the routing of findings.
LEMMA DeepPhaseEnd ==
  ASSUME CoreInv, DeepInv, Checkpoint \/ Block \/ RouteToCoder
  PROVE  DeepInv'
  <1>0. /\ pass.pc # "off" /\ pass'.pc = "loop" /\ pass'.recover = pass.recover
        /\ pass'.permit = pass.permit
    <2>1. "loop" \in PassPC
      BY DEF PassPC
    <2> QED  BY <2>1, GotoIs DEF Checkpoint, Block, RouteToCoder
  <1>1. CASE Checkpoint
    <2>1. /\ pass.pc = "published" /\ status = "IMPLEMENTING" /\ arts \in Seq(Artifact)
          /\ Len(arts) \in DOMAIN arts /\ Len(arts) \in Nat
          /\ arts[Len(arts)].kind \in {"PROGRESS", "IMPLEMENTATION"}
      <3>1. /\ pass.pc = "published" /\ status = "IMPLEMENTING" /\ arts \in Seq(Artifact)
            /\ Len(arts) \in DOMAIN arts /\ Fresh("CODER", Len(arts))
        BY <1>1 DEF Checkpoint, CoreInv, PassInv, DeepInv, OutputInv, TypeInv
      <3> QED  BY <3>1 DEF Fresh, RoleOf
    <2>2. \A k : arts[Len(arts)].kind = k => Latest(k) = Len(arts)
      BY <2>1, LatestIs
    <2>3. \A x \in {Len(arts)} : Usable(x)
      BY <2>1 DEF Usable
    <2>4. CASE arts[Len(arts)].kind = "PROGRESS"
      <3>1. Transition("CONTINUE_REQUIRED", {Len(arts)})
        BY <1>1, <2>4 DEF Checkpoint
      <3>2. ActiveProgress # 0
        <4>1. Latest("IMPLEMENTATION") \in Nat /\ Latest("IMPLEMENTATION") <= Len(arts)
              /\ Latest("IMPLEMENTATION") # Len(arts) /\ Len(arts) # 0
          BY <2>1, <2>4, LatestIs
        <4> QED  BY <2>1, <2>2, <2>4, <4>1 DEF ActiveProgress
      <3>3. EvidenceInv'
        BY <2>1, <3>1, <3>2, LatestSame DEF Transition, DeepInv, EvidenceInv, CheckpointEvidence
      <3> QED  BY <1>0, <2>1, <2>3, <3>1, <3>3, DeepTransition
    <2>5. CASE arts[Len(arts)].kind = "IMPLEMENTATION"
      <3>1. Transition("QA", {Len(arts)})
        BY <1>1, <2>5 DEF Checkpoint
      <3>2. Latest("IMPLEMENTATION") # 0
        BY <2>1, <2>2, <2>5
      <3>3. EvidenceInv'
        BY <2>1, <3>1, <3>2, LatestSame DEF Transition, DeepInv, EvidenceInv, CheckpointEvidence
      <3> QED  BY <1>0, <2>1, <2>3, <3>1, <3>3, DeepTransition
    <2> QED  BY <2>1, <2>4, <2>5
  <1>2. CASE Block
    <2>1. Transition("BLOCKED", {}) /\ EvidenceInv' /\ "BLOCKED" \in Terminal
      BY <1>2, EvidenceEnds DEF Block, Transition, Terminal
    <2> QED  BY <1>0, <2>1, DeepTransition
  <1>3. CASE RouteToCoder
    <2>1. /\ pass.pc = "route" /\ status \in {"QA", "REVIEW"}
          /\ \A i \in DOMAIN arts : arts[i].attempt < attempts
      BY <1>3 DEF RouteToCoder, CoreInv, PassInv, DeepInv, OutputInv
    <2>2. PICK x \in {Latest("QA"), Latest("REVIEW")} : Transition("IMPLEMENTING", {x})
      BY <1>3 DEF RouteToCoder
    <2>3. \A y \in {x} : Usable(y)
      BY LatestUsable
    <2>4. EvidenceInv'
      BY <2>1, <2>2, LatestSame DEF Transition, DeepInv, EvidenceInv, CheckpointEvidence
    <2> QED  BY <1>0, <2>1, <2>2, <2>3, <2>4, NoFreshBelow, DeepTransition
  <1> QED  BY <1>1, <1>2, <1>3

\* Verdicts.
LEMMA DeepVerdict ==
  ASSUME CoreInv, DeepInv, Verdict
  PROVE  DeepInv'
  <1>1. ASSUME NEW k \in {"QA", "REVIEW"}, NEW current, Reject(k, current), status = k
        PROVE  DeepInv'
    <2>1. pass.pc = "loop" /\ \A x \in {Latest(k)} : Usable(x)
      BY <1>1, LatestUsable DEF Reject
    <2>2. CASE Transition("BLOCKED", {Latest(k)}) /\ UNCHANGED pass
      <3>1. EvidenceInv' /\ "BLOCKED" \in Terminal
        BY <2>2, EvidenceEnds DEF Transition, Terminal
      <3> QED  BY <2>1, <2>2, <3>1, DeepTransition
    <2>3. CASE ReserveAttempt /\ Goto("route")
      <3>1. attempts' = attempts + 1 /\ UNCHANGED <<status, events, arts, step>>
        BY <2>3 DEF ReserveAttempt
      <3>2. pass'.pc = "route" /\ pass'.recover = pass.recover
        BY <2>3, GotoIs DEF PassPC
      <3> QED  BY <1>1, <2>1, <3>1, <3>2, PassNotWaiting, DeepReserve
    <2> QED  BY <1>1, <2>2, <2>3 DEF Reject
  <1>2. CASE Accept("QA", status = "QA" /\ CurrentQA, "REVIEW", {Latest("QA")})
    <2>1. /\ pass.pc = "loop" /\ status = "QA" /\ CurrentQA /\ arts[Latest("QA")].verdict = "PASS"
          /\ Transition("REVIEW", {Latest("QA")}) /\ UNCHANGED pass
      BY <1>2 DEF Accept
    <2>2. \A x \in {Latest("QA")} : Usable(x)
      BY LatestUsable
    <2>3. EvidenceInv'
      BY <2>1, LatestSame
         DEF Transition, DeepInv, EvidenceInv, CheckpointEvidence, CurrentQA, CurrentReport
    <2> QED  BY <2>1, <2>2, <2>3, DeepTransition
  <1>3. CASE Accept("REVIEW", status = "REVIEW" /\ CurrentReview, "DONE",
                    {Latest(k) : k \in {"PLAN", "IMPLEMENTATION", "QA", "REVIEW"}})
    <2> DEFINE ids == {Latest(k) : k \in {"PLAN", "IMPLEMENTATION", "QA", "REVIEW"}}
    <2>1. /\ pass.pc = "loop" /\ status = "REVIEW" /\ CurrentReview
          /\ arts[Latest("REVIEW")].verdict = "PASS"
          /\ Transition("DONE", ids) /\ UNCHANGED pass
      BY <1>3 DEF Accept
    <2>2. \A x \in ids : Usable(x)
      BY LatestUsable
    <2>3. EvidenceInv'
      BY <2>1, LatestSame
         DEF Transition, DeepInv, EvidenceInv, CheckpointEvidence, CurrentReview, CurrentReport
    <2> HIDE DEF ids
    <2> QED  BY <2>1, <2>2, <2>3, DeepTransition DEF Terminal
  <1>4. CASE Inconclusive
    <2>1. /\ pass.pc = "loop" /\ status = "QA" /\ CurrentQA
          /\ Settle("VERIFICATION_INCONCLUSIVE", "QA")
      BY <1>4 DEF Inconclusive
    <2>2. Latest("QA") \in DOMAIN arts /\ Fresh("QA", Latest("QA"))
      BY <2>1, LatestIs DEF CurrentQA, CurrentReport, Fresh, RoleOf, CoreInv, TypeInv
    <2>3. step.boundary = Boundary("QA") /\ status = StatusOf("QA") /\ "QA" \in DeliveryRole
      BY <2>1, <2>2, StatusOfIs DEF DeepInv, ReportInv, DeliveryRole
    <2> QED  BY <2>1, <2>3, DeepSettle
  <1>5. CASE RouteToCoder
    BY <1>5, DeepPhaseEnd
  <1>6. CASE Reject("QA", status = "QA" /\ CurrentQA)
    BY <1>1, <1>6 DEF Reject
  <1>7. CASE Reject("REVIEW", status = "REVIEW" /\ CurrentReview)
    BY <1>1, <1>7 DEF Reject
  <1> QED  BY <1>2, <1>3, <1>4, <1>5, <1>6, <1>7 DEF Verdict

\* Every step of the delivery.
LEMMA DeepNext ==
  ASSUME CoreInv, DeepInv, [Next]_deliveryVars
  PROVE  DeepInv'
  <1>1. CASE Begin
    BY <1>1, DeepBegin
  <1>2. CASE Validate \/ Plan
    BY <1>2, DeepPlanning
  <1>3. CASE Continue \/ RecoverOutput
    BY <1>3, DeepContinue
  <1>4. ASSUME NEW role \in DeliveryRole,
               Run(role) \/ NextStep(role) \/ Succeed(role) \/ FailTransient(role)
        PROVE  DeepInv'
    BY <1>4, DeepBoundary, DeepSucceed, DeepFailTransient
  <1>5. ASSUME NEW role \in DeliveryRole, NEW class \in FailureClass, Fail(role, class)
        PROVE  DeepInv'
    <2>1. /\ Settle(class, role) /\ pass.pc = "run" /\ status = StatusOf(role)
          /\ step.boundary = Boundary(role)
      BY <1>5, RunFacts DEF Fail
    <2>2. NoFresh(role)
      BY <2>1 DEF DeepInv, OutputInv, NoFresh
    <2>3. status = "IMPLEMENTING" => NoFresh("CODER")
      BY <2>1, <2>2, StatusOfIs DEF DeliveryRole
    <2> QED  BY <2>1, <2>3, DeepSettle
  <1>6. CASE Checkpoint \/ Block
    BY <1>6, DeepPhaseEnd
  <1>7. CASE Verdict
    BY <1>7, DeepVerdict
  <1>8. CASE Close \/ CloseCancelled
    BY <1>8, DeepClose
  <1>9. CASE Crash
    BY <1>9, DeepCrash DEF Crash
  <1>10. CASE Resume \/ ResumeStatic \/ Retry
    BY <1>10, DeepDecision
  <1>13. CASE RetryRejectedQA
    BY <1>13, DeepReplace
  <1>14. CASE RejectReport
    <2>1. status = StatusOf("QA") /\ "QA" \in DeliveryRole /\ status # "IMPLEMENTING"
      BY <1>14, RejectedFacts, StatusOfIs DEF RejectReport, DeliveryRole
    <2> QED  BY <1>14, <2>1, RejectedFacts, DeepSettle DEF RejectReport
  <1>11. CASE SettleStoppedBudget \/ SettleUninvokedRoute \/ Cancel
    BY <1>11, DeepEnded DEF SettleStoppedBudget, SettleUninvokedRoute
  <1>12. CASE UNCHANGED deliveryVars
    <2>1. UNCHANGED <<status, attempts, events, arts, step, pass>>
      BY <1>12 DEF deliveryVars
    <2>2. /\ \A role, i : Fresh(role, i)' <=> Fresh(role, i)
          /\ \A role : NoFresh(role)' <=> NoFresh(role)
          /\ \A k : Latest(k)' = Latest(k)
          /\ \A role : Boundary(role)' = Boundary(role)
          /\ Checkpointed' = Checkpointed
          /\ RecoverableCandidate' <=> RecoverableCandidate
          /\ OneOutputPerAttempt' <=> OneOutputPerAttempt
          /\ LineageInv' <=> LineageInv
          /\ EvidenceInv' <=> EvidenceInv
          /\ \A x : Usable(x)' <=> Usable(x)
      BY <2>1, DurableKept
    <2>3. OutputInv' /\ ReportInv'
      BY <2>1, <2>2 DEF DeepInv, OutputInv, ReportInv
    <2>4. CandidateInv' /\ WaitsDecidable'
      BY <2>1, <2>2 DEF DeepInv, CandidateInv, WaitsDecidable
    <2>5. RetiredInv' /\ ConsumedInv'
      BY <2>1, <2>2 DEF DeepInv, RetiredInv, ConsumedInv
    <2> QED  BY <2>2, <2>3, <2>4, <2>5 DEF DeepInv
  <1> QED
    BY <1>1, <1>2, <1>3, <1>4, <1>5, <1>6, <1>7, <1>8, <1>9, <1>10, <1>11, <1>12, <1>13, <1>14
       DEF Next, Pass, Finished

\* The initial state.
LEMMA DeepInit ==
  ASSUME Init
  PROVE  DeepInv
  <1>1. /\ status = "NEW" /\ events = <<>> /\ arts = <<>> /\ step = NoStep
        /\ pass.pc = "off" /\ ~pass.recover /\ ~step.waiting
    BY DEF Init, RepositoryInit, NoPass, NoStep
  <1>2. OutputInv
    BY <1>1, StatusOfIs DEF OutputInv, OneOutputPerAttempt, NoFresh
  <1>3. ReportInv /\ CandidateInv
    BY <1>1 DEF ReportInv, CandidateInv
  <1>4. EvidenceInv /\ WaitsDecidable
    BY <1>1 DEF EvidenceInv, CheckpointEvidence, WaitsDecidable
  <1>5. RetiredInv /\ ConsumedInv
    BY <1>1 DEF RetiredInv, ConsumedInv
  <1> QED  BY <1>2, <1>3, <1>4, <1>5 DEF DeepInv

-----------------------------------------------------------------------------
(* What follows for the artifacts                                          *)

\* The invariant of the artifacts holds throughout.
THEOREM ArtifactsCorrect == Spec => []DeepInv
  <1>1. Init => DeepInv
    BY DeepInit
  <1>2. CoreInv /\ DeepInv /\ [Next]_deliveryVars => DeepInv'
    BY DeepNext
  <1> QED  BY <1>1, <1>2, DeliveryCorrect, PTL DEF Spec

\* CheckpointEvidence: whatever stops a pass between two durable writes, a Task under
\* review has a passing QA report about its newest candidate, and a DONE Task an
\* approving Review of that report.
THEOREM CheckpointEvidenceHolds == Spec => []CheckpointEvidence
  <1>1. DeepInv => CheckpointEvidence
    BY DEF DeepInv, EvidenceInv
  <1> QED  BY <1>1, ArtifactsCorrect, PTL

\* OneOutputPerAttempt: no output a stopped pass stored is produced again, but for
\* the one rejected QA report of an attempt that a decision retires.
THEOREM OneOutputPerAttemptHolds == Spec => []OneOutputPerAttempt
  <1>1. DeepInv => OneOutputPerAttempt
    BY DEF DeepInv, OutputInv
  <1> QED  BY <1>1, ArtifactsCorrect, PTL

\* RetiredReportUnused: nothing in the Task's history or artifacts rests on a report
\* that was retired.
THEOREM RetiredReportUnusedHolds == Spec => []RetiredReportUnused
  <1>1. ASSUME CoreInv, DeepInv  PROVE RetiredReportUnused
    <2> SUFFICES ASSUME NEW i \in DOMAIN arts, arts[i].kind = "RETIRED"
                 PROVE  /\ i \notin Checkpointed
                        /\ \A j \in DOMAIN arts : i \notin {arts[j].target, arts[j].supersedes}
      BY DEF RetiredReportUnused
    <2>1. ~Usable(i)
      <3>1. arts \in Seq(Artifact)
        BY <1>1 DEF CoreInv, TypeInv
      <3> QED  BY <3>1 DEF Usable
    <2>2. i \notin Checkpointed
      BY <1>1, <2>1 DEF DeepInv, CandidateInv, Checkpointed
    <2>3. \A j \in DOMAIN arts : i \notin {arts[j].target, arts[j].supersedes}
      BY <1>1, <2>1 DEF DeepInv, RetiredInv
    <2> QED  BY <2>2, <2>3
  <1> QED  BY <1>1, DeliveryCorrect, ArtifactsCorrect, PTL

\* A step of StepsAdvance.
Advances ==
    step # NoStep /\ step' # NoStep =>
        IF step'.item = step.item
        THEN step'.boundary = step.boundary /\ (step.static = "SPENT" => step'.static = "SPENT")
        ELSE \/ Later(step'.boundary, step.boundary)
             \/ /\ step'.boundary = step.boundary /\ step.boundary.role = "QA"
                /\ step.rejected /\ step.static # "SPENT" /\ step'.static = "SPENT"

\* The actions that write the queued step.
LEMMA StepWrites ==
  ASSUME [Next]_deliveryVars
  PROVE  \/ step' = step \/ step' = NoStep \/ Wait \/ Resume \/ ResumeStatic \/ Retry
         \/ RetryRejectedQA \/ \E role \in DeliveryRole : NextStep(role)
  <1>1. CASE Pass
    <2>1. CASE Begin \/ Validate \/ Plan \/ Continue \/ RecoverOutput
      BY <2>1 DEF Begin, Validate, Plan, Continue, RecoverOutput, Transition, ReserveAttempt, Publish
    <2>2. ASSUME NEW role \in DeliveryRole, Run(role) \/ Succeed(role) \/ FailTransient(role)
          PROVE  step' = step
      BY <2>2 DEF Run, Succeed, FailTransient, Publish
    <2>3. ASSUME NEW class, NEW role, Settle(class, role)  PROVE step' = step \/ Wait
      BY <2>3 DEF Settle, Transition
    <2>4. CASE Checkpoint \/ Block
      BY <2>4 DEF Checkpoint, Block, Transition
    <2>5. CASE Verdict
      BY <2>3, <2>5 DEF Verdict, Accept, Reject, Inconclusive, RouteToCoder, Transition, ReserveAttempt
    <2>6. CASE Close
      BY <2>6 DEF Close
    <2> QED  BY <1>1, <2>1, <2>2, <2>3, <2>4, <2>5, <2>6 DEF Pass, Fail, RejectReport
  <1>2. CASE Crash \/ SettleStoppedBudget \/ SettleUninvokedRoute \/ Cancel \/ CloseCancelled
    BY <1>2 DEF Crash, SettleStoppedBudget, SettleUninvokedRoute, SettleStep, Cancel, CloseCancelled
  <1>3. CASE UNCHANGED deliveryVars
    BY <1>3 DEF deliveryVars
  <1> QED  BY <1>1, <1>2, <1>3 DEF Next, Finished

\* Every step of the delivery keeps the identity of the open item, or publishes a
\* later one, or the one replacement of a rejected report's item.
LEMMA AdvancesNext ==
  ASSUME CoreInv, DeepInv, [Next]_deliveryVars
  PROVE  Advances
  <1> SUFFICES ASSUME step # NoStep, step' # NoStep, step' # step  PROVE Advances
    BY DEF Advances
  <1>1. /\ step \in QueuedStep /\ step.item \in Nat /\ step.item + 1 # step.item
        /\ step.boundary \in RoleRunBoundary /\ step.boundary.role \in DeliveryRole
        /\ step.boundary.revision \in Nat /\ step.boundary.revision <= Revision
        /\ step.boundary.attempt \in Nat /\ step.boundary.attempt <= attempts
        /\ Revision \in Nat /\ attempts \in Nat
    BY StepFacts
  <1>2. CASE Wait \/ Resume \/ ResumeStatic
    <2>1. /\ step'.item = step.item /\ step'.boundary = step.boundary
          /\ step.static = "SPENT" => step'.static = "SPENT"
      BY <1>1, <1>2 DEF Wait, Resume, ResumeStatic, QueuedStep
    <2> QED  BY <2>1 DEF Advances
  <1>3. CASE Retry
    <2>1. PICK b : b = [step.boundary EXCEPT !.attempt = attempts + 1]
      OBVIOUS
    <2>2. /\ b \in RoleRunBoundary /\ b.attempt = attempts + 1
          /\ b.revision = step.boundary.revision
      BY <1>1, <2>1 DEF RoleRunBoundary
    <2>3. step' = Published(b)
      BY <1>3, <2>1 DEF Retry
    <2>4. step'.item = step.item + 1 /\ step'.boundary = b
      BY <2>2, <2>3, PublishedIs
    <2> QED  BY <1>1, <2>2, <2>4 DEF Advances, Later
  <1>4. CASE RetryRejectedQA
    <2>1. /\ step.rejected /\ step.static = "DECIDED" /\ step.boundary = Boundary("QA")
          /\ step' = [Published(step.boundary) EXCEPT !.static = "SPENT"]
      BY <1>4 DEF RetryRejectedQA, ReportReplaceable, Replace
    <2>2. PICK b \in RoleRunBoundary : b = step.boundary
      BY <1>1
    <2>3. step'.item = step.item + 1 /\ step'.boundary = step.boundary /\ step'.static = "SPENT"
      BY <2>1, <2>2, PublishedIs
    <2>4. step.boundary.role = "QA"
      BY <2>1 DEF Boundary
    <2> QED  BY <1>1, <2>1, <2>3, <2>4 DEF Advances
  <1>5. ASSUME NEW role \in DeliveryRole, NextStep(role)  PROVE Advances
    <2>1. /\ NeedsRun(role) /\ ~Permitted(role) /\ step' = Published(Boundary(role))
          /\ pass.pc = "loop" /\ status = StatusOf(role)
      BY <1>5 DEF NextStep, NeedsRun
    <2>2. /\ Boundary(role) \in RoleRunBoundary /\ Boundary(role).role = role
          /\ Boundary(role).revision = Revision /\ Boundary(role).attempt = attempts
      BY <1>1 DEF Boundary, RoleRunBoundary
    <2>3. PICK b \in RoleRunBoundary : b = Boundary(role)
      BY <2>2
    <2>4. step'.item = step.item + 1 /\ step'.boundary = Boundary(role)
      BY <2>1, <2>3, PublishedIs
    <2>5. step.boundary # Boundary(role)
      <3>1. NoFresh(role)
        BY <2>1, NeedsRunNoFresh
      <3>2. pass.permit = step.boundary
        BY <2>1 DEF CoreInv, StepInv
      <3> QED  BY <2>1, <3>1, <3>2 DEF Permitted, DeepInv, ConsumedInv
    <2>6. ASSUME step.boundary.revision = Revision, step.boundary.attempt = attempts
          PROVE  FALSE
      <3>1. step.boundary.role = role
        BY <1>1, <2>1, <2>6, StatusOfIs DEF CoreInv, StepInv
      <3>2. step.boundary = [role |-> role, attempt |-> attempts, revision |-> Revision]
        BY <1>1, <2>6, <3>1 DEF RoleRunBoundary
      <3> QED  BY <2>5, <3>2 DEF Boundary
    <2> QED  BY <1>1, <2>2, <2>4, <2>6 DEF Advances, Later
  <1> QED  BY <1>2, <1>3, <1>4, <1>5, StepWrites

\* StepsAdvance: a published item never reuses the identity of an earlier one, but
\* for the one replacement of a QA item whose report was rejected.
THEOREM StepsAdvanceHolds == Spec => StepsAdvance
  <1>1. CoreInv /\ DeepInv /\ [Next]_deliveryVars => [Advances]_deliveryVars
    BY AdvancesNext
  <1> QED  BY <1>1, DeliveryCorrect, ArtifactsCorrect, PTL DEF Spec, StepsAdvance, Advances

\* WaitsDecidable: the decision about a waiting step is still about the role, attempt
\* and revision it was asked for, until the Task is cancelled.
THEOREM WaitsDecidableHolds == Spec => []WaitsDecidable
  <1>1. DeepInv => WaitsDecidable
    BY DEF DeepInv
  <1> QED  BY <1>1, ArtifactsCorrect, PTL

=============================================================================
