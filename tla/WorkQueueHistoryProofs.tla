----------------------- MODULE WorkQueueHistoryProofs -----------------------
(***************************************************************************)
(* What the queue's tables say over time: a Task has one open role step,   *)
(* closed work stays closed, the claim history keeps the roles of an Agent *)
(* apart, a worker never outlives its own lease, and a completion records  *)
(* every artifact ever accepted.  All of it follows from what one step may *)
(* do to the rows of the items and to the claims, given that the tables    *)
(* agree (WorkQueueProofs).                                                *)
(***************************************************************************)
EXTENDS WorkQueueProofs

-----------------------------------------------------------------------------
(* What one step may do to the item table                                  *)

\* Open work is moved on or closed; every other row stays as it is.
RowsMove ==
    \A i \in Item :
        \/ items'[i] = items[i]
        \/ /\ items[i].status \in Open
           /\ items'[i].status \in Open \cup {"CLOSED"}

\* Open work is closed and its successor in the same Task is published.
Publishes(i, n) ==
    /\ TaskOf[n] = TaskOf[i]
    /\ items[i].status \in Open /\ items'[i].status = "CLOSED"
    /\ items[n].status = "ABSENT" /\ items'[n].status \in Open
    /\ \A j \in Item \ {i, n} : items'[j] = items[j]

\* The first item of a Task is published.
Admits(i) ==
    /\ \A j \in Item : TaskOf[j] = TaskOf[i] => items[j].status = "ABSENT"
    /\ \A j \in Item \ {i} : items'[j] = items[j]

RowStep ==
    \/ RowsMove
    \/ \E i, n \in Item : Publishes(i, n)
    \/ \E i \in Item : Admits(i)

\* LEASED and RUNNING work is open, and so is every status a row can be moved to.
LEMMA OpenStatus ==
    /\ Active \subseteq Open
    /\ {"READY", "WAITING", "RETRY_SCHEDULED", "LEASED", "RUNNING"} \subseteq Open
    /\ "CLOSED" \notin Open /\ "ABSENT" \notin Open
  BY DEF Active, Open, ItemStatus

\* Reclaiming moves open work only: an ACTIVE claim has LEASED or RUNNING work.
LEMMA ExpireRows ==
  ASSUME TableInv, NEW n \in Nat, ExpireClaims(n)
  PROVE  RowsMove
<1> SUFFICES ASSUME NEW i \in Item, items'[i] # items[i]
             PROVE  items[i].status \in Open /\ items'[i].status \in Open
  BY DEF RowsMove
<1>1. PICK l \in LeaseId : ActiveClaim(l) /\ l.item = i
  BY DEF ExpireClaims
<1>2. items[i].status \in Active
  BY <1>1 DEF TableInv, ClaimAgreement, ActiveClaimsAgree
<1>3. items'[i].status = "RETRY_SCHEDULED"
  BY DEF ExpireClaims
<1> QED
  BY <1>2, <1>3, OpenStatus

\* A claim, a start and a release change the row of their own open item.
LEMMA ProcessRows ==
  ASSUME TableInv, NEW p \in Process, Claim(p) \/ Start(p) \/ ReleaseToStatus(p)
  PROVE  RowsMove
<1> DEFINE i == proc[p].item
<1>1. i \in Item /\ items \in [Item -> ItemRecord] /\ items[i] \in ItemRecord
  BY DEF TableInv, TypeOK, HolderInv, Holds, Claim, Start, ReleaseToStatus
<1>2. CASE items' = items
  BY <1>2 DEF RowsMove
<1>3. CASE Claim(p) /\ items' # items
  <2>1. items' = [items EXCEPT ![i].status = "LEASED", ![i].avail = 0,
                               ![i].wait = "none"]
    BY <1>3 DEF Claim
  <2>2. items[i].status \in {"READY", "RETRY_SCHEDULED"}
    BY <1>3 DEF Claim, ClaimValid, Schedulable
  <2>3. items'[i].status = "LEASED" /\ \A j \in Item \ {i} : items'[j] = items[j]
    BY <1>1, <2>1 DEF ItemRecord
  <2> QED
    BY <2>2, <2>3, OpenStatus DEF RowsMove
<1>4. CASE Start(p) /\ items' # items
  <2>1. items' = [items EXCEPT ![i].status = "RUNNING"] /\ items[i].status \in Active
    BY <1>4 DEF Start
  <2>2. items'[i].status = "RUNNING" /\ \A j \in Item \ {i} : items'[j] = items[j]
    BY <1>1, <2>1 DEF ItemRecord
  <2> QED
    BY <2>1, <2>2, OpenStatus DEF RowsMove
<1>5. CASE ReleaseToStatus(p) /\ items' # items
  <2>1. PICK row \in Released(items[i], proc[p].now) :
            items' = [items EXCEPT ![i] = row]
    BY <1>5 DEF ReleaseToStatus
  <2>2. items[i].status \in Active
    BY <1>5 DEF ReleaseToStatus, ReleaseValid
  <2>3. row.status \in {"WAITING", "RETRY_SCHEDULED"}
    BY <1>1, <2>1 DEF Released, ItemRecord
  <2>4. items'[i] = row /\ \A j \in Item \ {i} : items'[j] = items[j]
    BY <1>1, <2>1
  <2> QED
    BY <2>2, <2>3, <2>4, OpenStatus DEF RowsMove
<1> QED
  BY <1>2, <1>3, <1>4, <1>5

\* A completion closes its item and publishes at most one successor of it.
LEMMA FinishRows ==
  ASSUME TableInv, NEW p \in Process, Finish(p)
  PROVE  RowStep
<1> DEFINE i == proc[p].item
<1>1. i \in Item /\ items \in [Item -> ItemRecord] /\ items[i] \in ItemRecord
  BY DEF TableInv, TypeOK, HolderInv, Holds, Finish
<1>2. CASE items' = items
  BY <1>2 DEF RowStep, RowsMove
<1>3. CASE FinishValid(p)
  <2>1. PICK next \in {NoItem} \cup {n \in Item : Successor(i, n)} :
            Complete(p, i, next)
    BY <1>3 DEF Finish
  <2>2. items[i].status \in Open
    BY <1>3, OpenStatus DEF FinishValid
  <2>3. i # next
    BY <1>1, <2>1, <2>2, QueueConstants, OpenStatus DEF Successor
  <2>4. items'[i].status = "CLOSED"
    <3>1. items'[i] = [items[i] EXCEPT !.status = "CLOSED"]
      BY <1>1, <2>1, <2>3 DEF Complete
    <3> QED
      BY <1>1, <3>1 DEF ItemRecord
  <2>5. \A j \in Item \ {i, next} : items'[j] = items[j]
    BY <2>1 DEF Complete
  <2>6. CASE next = NoItem
    BY <2>2, <2>4, <2>5, <2>6, QueueConstants DEF RowStep, RowsMove
  <2>7. CASE next \in Item /\ Successor(i, next)
    <3>1. items'[next] = NewItem
      BY <2>1, <2>3, <2>7 DEF Complete
    <3>2. Publishes(i, next)
      BY <2>2, <2>4, <2>5, <2>7, <3>1, NewItemType, OpenStatus
         DEF Publishes, Successor
    <3> QED
      BY <1>1, <2>7, <3>2 DEF RowStep
  <2> QED
    BY <2>1, <2>6, <2>7
<1> QED
  BY <1>2, <1>3 DEF Finish

\* Admission, resumption, resolution, settlement and cancellation.
LEMMA SignalRows ==
  ASSUME TableInv, Signal
  PROVE  RowStep
<1>1. items \in [Item -> ItemRecord]
  BY DEF TableInv, TypeOK
<1>2. ASSUME NEW i \in Item, Admit(i) PROVE RowStep
  <2>1. \A j \in Item \ {i} : items'[j] = items[j]
    BY <1>1, <1>2 DEF Admit
  <2> QED
    BY <1>2, <2>1 DEF Admit, Admits, RowStep
<1>3. ASSUME NEW i \in Item, items[i].status \in Open,
             NEW row \in ItemRecord, row.status \in Open \cup {"CLOSED"},
             items' = [items EXCEPT ![i] = row]
      PROVE  RowStep
  BY <1>1, <1>3 DEF RowStep, RowsMove
<1>4. ASSUME NEW i \in Item, items[i].status \in {"WAITING", "RETRY_SCHEDULED"},
             items[i].seq < MaxSeq, items' = [items EXCEPT ![i] = Resumed(@)]
      PROVE  RowStep
  <2>1. Resumed(items[i]) \in ItemRecord /\ Resumed(items[i]).status = "READY"
    BY <1>1, <1>4, ResumedRow
  <2>2. items' = [items EXCEPT ![i] = Resumed(items[i])]
    BY <1>4
  <2> QED
    BY <1>3, <1>4, <2>1, <2>2, OpenStatus
<1>5. ASSUME NEW i \in Item, SettleWait(i) PROVE RowStep
  <2> DEFINE row == [items[i] EXCEPT !.status = "CLOSED", !.wait = "none"]
  <2>1. items' = [items EXCEPT ![i] = row]
    BY <1>1, <1>5 DEF SettleWait
  <2>2. row \in ItemRecord /\ row.status = "CLOSED"
    BY <1>1, ClosedRow
  <2>3. items[i].status \in Open
    BY <1>5, OpenStatus DEF SettleWait
  <2> HIDE DEF row
  <2> QED
    BY <1>3, <2>1, <2>2, <2>3
<1>6. ASSUME NEW i \in Item, NEW n \in Item, Successor(i, n),
             items[i].status = "WAITING",
             items' = [items EXCEPT ![i].status = "CLOSED", ![i].wait = "none",
                                    ![n] = NewItem]
      PROVE  RowStep
  <2> DEFINE row == [items[i] EXCEPT !.status = "CLOSED", !.wait = "none"]
  <2>1. items[n].status = "ABSENT" /\ n # i
    BY <1>6 DEF Successor
  <2>2. items' = [items EXCEPT ![i] = row, ![n] = NewItem]
    BY <1>1, <1>6, <2>1
  <2>3. row \in ItemRecord /\ row.status = "CLOSED"
    BY <1>1, ClosedRow
  <2> HIDE DEF row
  <2>4. /\ items'[i] = row /\ items'[n] = NewItem
        /\ \A j \in Item \ {i, n} : items'[j] = items[j]
    BY <1>1, <2>1, <2>2
  <2>5. Publishes(i, n)
    BY <1>6, <2>1, <2>3, <2>4, NewItemType, OpenStatus DEF Publishes, Successor
  <2> QED
    BY <2>5 DEF RowStep
<1>7. ASSUME NEW t \in Task, CloseCancelled(t) PROVE RowStep
  <2>1. \A i \in Item :
            \/ items'[i] = items[i]
            \/ items[i].status \in Open /\ items'[i].status = "CLOSED"
    BY <1>1, <1>7, ClosedRow DEF CloseCancelled
  <2> QED
    BY <2>1 DEF RowStep, RowsMove
<1>8. CASE RecoveryReclaim
  <2>1. PICK n \in 0 .. clock : ExpireClaims(n)
    BY <1>8 DEF RecoveryReclaim
  <2>2. n \in Nat
    BY <2>1 DEF TableInv, TypeOK
  <2> QED
    BY <2>1, <2>2, ExpireRows DEF RowStep
<1>9. ASSUME NEW i \in Item, MakeReady(i) PROVE RowStep
  BY <1>4, <1>9 DEF MakeReady
<1>10. ASSUME NEW i \in Item, ResolveWait(i) PROVE RowStep
  BY <1>4, <1>6, <1>10 DEF ResolveWait
<1> QED
  BY <1>2, <1>5, <1>7, <1>8, <1>9, <1>10 DEF Signal

\* Every step moves open work, publishes a successor or admits a Task.
LEMMA RowSteps == TableInv /\ [Next]_vars => RowStep
<1> SUFFICES ASSUME TableInv, [Next]_vars PROVE RowStep
  OBVIOUS
<1>1. CASE UNCHANGED items
  BY <1>1 DEF RowStep, RowsMove
<1>2. ASSUME NEW p \in Process, Dispatch(p) PROVE RowStep
  <2>1. CASE ReclaimExpired(p)
    BY <2>1, ExpireRows DEF ReclaimExpired, RowStep, TableInv, TypeOK, ProcRecord
  <2>2. CASE Claim(p)
    BY <2>2, ProcessRows DEF RowStep
  <2> QED
    BY <1>1, <1>2, <2>1, <2>2 DEF Dispatch, Tick, Scan
<1>3. ASSUME NEW p \in Process, Execute(p) PROVE RowStep
  <2>1. CASE Start(p) \/ ReleaseToStatus(p)
    BY <2>1, ProcessRows DEF RowStep
  <2>2. CASE Finish(p)
    BY <2>2, FinishRows
  <2> QED
    BY <1>1, <1>3, <2>1, <2>2
       DEF Execute, StartReadClock, AcceptArtifact, FinishRead, ReleaseRead, Abandon
<1>4. ASSUME NEW p \in Process, Heartbeat(p) \/ Crash(p) PROVE RowStep
  BY <1>1, <1>4 DEF Heartbeat, BeatReadClock, Renew, RenewError, Crash
<1> QED
  BY <1>1, <1>2, <1>3, <1>4, SignalRows DEF Next, Advance, vars

\* A Task is delivered serially, however many items, processes and successors:
\* no admission, completion or wait resolution publishes a second open step.
THEOREM OneOpenStepHolds == Spec => []OneOpenStep
<1>1. Init => OneOpenStep
  BY OpenStatus DEF Init, OneOpenStep, AbsentItem
<1>2. TableInv /\ OneOpenStep /\ [Next]_vars => OneOpenStep'
  <2> SUFFICES ASSUME OneOpenStep, RowStep PROVE OneOpenStep'
    BY RowSteps
  <2>1. CASE RowsMove
    BY <2>1 DEF RowsMove, OneOpenStep
  <2>2. ASSUME NEW i \in Item, NEW n \in Item, Publishes(i, n) PROVE OneOpenStep'
    BY <2>2, OpenStatus DEF Publishes, OneOpenStep
  <2>3. ASSUME NEW i \in Item, Admits(i) PROVE OneOpenStep'
    BY <2>3, OpenStatus DEF Admits, OneOpenStep
  <2> QED
    BY <2>1, <2>2, <2>3 DEF RowStep
<1> QED
  BY <1>1, <1>2, TableCorrect, PTL DEF Spec

\* Closed work is never reopened, rescheduled or given another generation: not
\* by a late completion or release, not by a reclaim that runs after it.
THEOREM ClosedIsFinalHolds == Spec => ClosedIsFinal
<1>1. TableInv /\ [Next]_vars =>
        [\A i \in Item : items[i].status = "CLOSED" => items'[i] = items[i]]_vars
  <2> SUFFICES ASSUME RowStep, NEW i \in Item, items[i].status = "CLOSED"
               PROVE  items'[i] = items[i]
    BY RowSteps
  <2> QED
    BY OpenStatus DEF RowStep, RowsMove, Publishes, Admits
<1> QED
  BY <1>1, TableCorrect, PTL DEF Spec, ClosedIsFinal

-----------------------------------------------------------------------------
(* What one step may do to the claim table                                 *)

\* No claim is made and none is prolonged.
ClaimsFade ==
    \A l \in LeaseId :
        /\ claims'[l].state # "NONE" => claims[l].state # "NONE"
        /\ ActiveClaim(l)' => ActiveClaim(l) /\ claims'[l].expires = claims[l].expires

\* Process p makes the claim it proposed, and no other.
ClaimMade(p) ==
    LET k == proc[p].lease
    IN  /\ k \in LeaseId /\ claims[k].state = "NONE"
        /\ Independent(TaskOf[k.item], RoleOf[k.item], k.agent)
        /\ \A l \in LeaseId \ {k} : claims'[l] = claims[l]
        /\ proc'[p].pc \in Holding /\ proc'[p].lease = k
        /\ proc'[p].exp = claims'[k].expires
        /\ \A q \in Process \ {p} : proc'[q] = proc[q]

\* The heartbeat of p prolongs the lease p holds, and no other.
LeaseRenewed(p) ==
    LET k == proc[p].lease
    IN  /\ proc[p].pc = "running" /\ k \in LeaseId /\ ActiveClaim(k)
        /\ \A l \in LeaseId \ {k} : claims'[l] = claims[l]
        /\ proc'[p].pc = "running" /\ proc'[p].lease = k
        /\ proc'[p].exp = claims'[k].expires
        /\ \A q \in Process \ {p} : proc'[q] = proc[q]

\* What a process remembers of its lease is kept until it lets go of it.
LeasesKept ==
    \A q \in Process :
        proc'[q].pc \in Holding =>
            /\ proc[q].pc \in Holding
            /\ proc'[q].lease = proc[q].lease
            /\ proc'[q].exp = proc[q].exp

ClaimStep ==
    \/ ClaimsFade /\ LeasesKept
    \/ \E p \in Process : ClaimMade(p)
    \/ \E p \in Process : LeaseRenewed(p)

\* A process that goes idle, moves to another point of its code or reads the
\* clock keeps what it remembers of its lease.
LEMMA LeasesFrame ==
  ASSUME TypeOK, NEW p \in Process, NEW r \in ProcRecord,
         proc' = [proc EXCEPT ![p] = r],
         r.pc \in Holding => /\ proc[p].pc \in Holding
                             /\ r.lease = proc[p].lease /\ r.exp = proc[p].exp
  PROVE  LeasesKept
<1>1. proc'[p] = r /\ \A q \in Process \ {p} : proc'[q] = proc[q]
  BY DEF TypeOK
<1> QED
  BY <1>1 DEF LeasesKept

\* Going idle lets go of the lease.
LEMMA LeaseDropped ==
  ASSUME TypeOK, NEW p \in Process, Idle(p)
  PROVE  LeasesKept
<1>1. IdleProc.pc \notin Holding /\ proc' = [proc EXCEPT ![p] = IdleProc]
  BY DEF Idle, IdleProc, Holding
<1> QED
  BY <1>1, IdleType, LeasesFrame

\* Reclaiming withdraws claims and makes none.
LEMMA ExpireFades ==
  ASSUME TableInv, NEW n \in Nat, ExpireClaims(n)
  PROVE  ClaimsFade
  BY DEF ExpireClaims, TableInv, TypeOK, ClaimsFade, ActiveClaim, ClaimRecord

\* The dispatcher makes no claim but the one its claiming transaction inserts.
LEMMA DispatchClaims ==
  ASSUME TableInv, NEW p \in Process, Dispatch(p)
  PROVE  ClaimStep
<1>1. TypeOK /\ proc[p] \in ProcRecord /\ clock \in Nat
  BY DEF TableInv, TypeOK
<1>2. ASSUME UNCHANGED claims PROVE ClaimsFade
  BY <1>2 DEF ClaimsFade, ActiveClaim
<1>3. ASSUME NEW i \in Item, Tick(p, i) PROVE ClaimStep
  <2> DEFINE r == [IdleProc EXCEPT !.pc = "reclaim", !.now = clock, !.item = i]
  <2>1. r \in ProcRecord /\ r.pc = "reclaim" /\ proc' = [proc EXCEPT ![p] = r]
    BY <1>1, <1>3, IdleType DEF Tick, ProcRecord, ProcPC
  <2> HIDE DEF r
  <2>2. LeasesKept
    BY <1>1, <2>1, LeasesFrame DEF Holding
  <2> QED
    BY <1>2, <1>3, <2>2 DEF Tick, ClaimStep
<1>4. CASE ReclaimExpired(p)
  <2> DEFINE r == [proc[p] EXCEPT !.pc = "scan"]
  <2>1. r \in ProcRecord /\ r.pc = "scan" /\ proc' = [proc EXCEPT ![p] = r]
    BY <1>1, <1>4 DEF ReclaimExpired, Goto, ProcRecord, ProcPC, TypeOK
  <2> HIDE DEF r
  <2>2. LeasesKept
    BY <1>1, <2>1, LeasesFrame DEF Holding
  <2>3. ClaimsFade
    BY <1>1, <1>4, ExpireFades DEF ReclaimExpired, ProcRecord
  <2> QED
    BY <2>2, <2>3 DEF ClaimStep
<1>5. CASE Scan(p)
  <2>1. \A q \in Process \ {p} : proc'[q] = proc[q]
    BY <1>1, <1>5 DEF Scan, Idle, TypeOK
  <2>2. proc'[p].pc \notin Holding
    BY <1>1, <1>5 DEF Scan, Idle, TypeOK, IdleProc, Holding, ProcRecord
  <2> QED
    BY <1>2, <1>5, <2>1, <2>2 DEF Scan, ClaimStep, LeasesKept
<1>6. CASE Claim(p) /\ ~ClaimValid(p)
  BY <1>1, <1>2, <1>6, LeaseDropped DEF Claim, ClaimStep
<1>7. CASE Claim(p) /\ ClaimValid(p)
  <2> DEFINE k == proc[p].lease
             n == proc[p].now
             r == [IdleProc EXCEPT !.pc = "claimed", !.item = proc[p].item,
                                   !.lease = k, !.exp = n + TTL]
  <2>1. k \in LeaseId /\ claims \in [LeaseId -> ClaimRecord]
    BY <1>7 DEF Claim, TableInv, TypeOK, HolderInv, Holds
  <2>2. claims[k].state = "NONE" /\ Independent(TaskOf[k.item], RoleOf[k.item], k.agent)
    BY <1>7 DEF ClaimValid
  <2>3. claims'[k].expires = n + TTL /\ \A l \in LeaseId \ {k} : claims'[l] = claims[l]
    BY <1>7, <2>1 DEF Claim
  <2>4. proc' = [proc EXCEPT ![p] = r]
    BY <1>7 DEF Claim
  <2>5. r.pc = "claimed" /\ r.lease = k /\ r.exp = n + TTL
    BY DEF IdleProc
  <2> HIDE DEF r
  <2>6. proc'[p] = r /\ \A q \in Process \ {p} : proc'[q] = proc[q]
    BY <1>1, <2>4 DEF TypeOK
  <2>7. ClaimMade(p)
    BY <2>1, <2>2, <2>3, <2>5, <2>6 DEF ClaimMade, Holding
  <2> QED
    BY <2>7 DEF ClaimStep
<1> QED
  BY <1>3, <1>4, <1>5, <1>6, <1>7 DEF Dispatch

\* No step of the worker's main thread makes a claim or prolongs one.
LEMMA ExecuteClaims ==
  ASSUME TableInv, NEW p \in Process, Execute(p) \/ Crash(p)
  PROVE  ClaimStep
<1>1. TypeOK /\ proc[p] \in ProcRecord /\ clock \in Nat
  BY DEF TableInv, TypeOK
<1>2. ASSUME UNCHANGED claims PROVE ClaimsFade
  BY <1>2 DEF ClaimsFade, ActiveClaim
<1>3. ASSUME ActiveClaim(proc[p].lease),
             claims' = [claims EXCEPT ![proc[p].lease].state = "RELEASED"]
      PROVE  ClaimsFade
  BY <1>1, <1>3 DEF TypeOK, ClaimRecord, ClaimsFade, ActiveClaim
<1>4. CASE Idle(p)
  <2>1. LeasesKept
    BY <1>1, <1>4, LeaseDropped
  <2>2. ClaimsFade
    BY <1>2, <1>3, <1>4 DEF Execute, StartReadClock, Start, AcceptArtifact, FinishRead,
       Finish, FinishValid, Complete, ReleaseRead, ReleaseToStatus, ReleaseValid,
       Abandon, Crash, Owns, LiveAt
  <2> QED
    BY <2>1, <2>2 DEF ClaimStep
<1>5. CASE StartReadClock(p) \/ Start(p) \/ FinishRead(p) \/ ReleaseRead(p)
  <2>1. CASE ~Idle(p)
    <3>1. proc[p].pc \in {"claimed", "start", "running"} /\ UNCHANGED claims
      BY <1>5, <2>1 DEF StartReadClock, Start, FinishRead, ReleaseRead, LifecycleFree
    <3>2. \A q \in Process \ {p} : proc'[q] = proc[q]
      BY <1>1, <1>5, <2>1 DEF StartReadClock, Start, FinishRead, ReleaseRead,
         GotoReadingClock, TypeOK
    <3>3. proc'[p].lease = proc[p].lease /\ proc'[p].exp = proc[p].exp
      BY <1>1, <1>5, <2>1 DEF StartReadClock, Start, FinishRead, ReleaseRead,
         GotoReadingClock, TypeOK, ProcRecord
    <3>4. LeasesKept
      BY <3>1, <3>2, <3>3 DEF LeasesKept, Holding
    <3> QED
      BY <1>2, <3>1, <3>4 DEF ClaimStep
  <2> QED
    BY <1>4, <2>1
<1>6. CASE AcceptArtifact(p)
  BY <1>2, <1>6 DEF AcceptArtifact, ClaimStep, LeasesKept
<1> QED
  BY <1>4, <1>5, <1>6 DEF Execute, Finish, ReleaseToStatus, Abandon, Crash

\* A heartbeat prolongs only the lease of its own process.
LEMMA HeartbeatClaims ==
  ASSUME TableInv, NEW p \in Process, Heartbeat(p)
  PROVE  ClaimStep
<1>1. TypeOK /\ proc[p] \in ProcRecord
  BY DEF TableInv, TypeOK
<1>2. ASSUME UNCHANGED claims PROVE ClaimsFade
  BY <1>2 DEF ClaimsFade, ActiveClaim
<1>3. CASE BeatReadClock(p)
  BY <1>2, <1>3 DEF BeatReadClock, ClaimStep, LeasesKept
<1>4. CASE UNCHANGED claims /\ proc' = [proc EXCEPT ![p].lost = TRUE]
  <2>1. LeasesKept
    BY <1>1, <1>4 DEF LeasesKept, TypeOK, ProcRecord
  <2> QED
    BY <1>2, <1>4, <2>1 DEF ClaimStep
<1>5. CASE Renew(p) /\ RenewValid(p)
  <2> DEFINE k == proc[p].lease
             until == beat[p].now + TTL
  <2>1. proc[p].pc = "running" /\ k \in LeaseId
    BY <1>5 DEF Renew, TableInv, HolderInv, Holds, Holding
  <2>2. ActiveClaim(k)
    BY <1>5 DEF RenewValid, Owns, LiveAt
  <2>3. /\ claims' = [claims EXCEPT ![k].expires = until]
        /\ proc' = [proc EXCEPT ![p].exp = until]
    BY <1>5 DEF Renew
  <2>4. claims'[k].expires = until /\ \A l \in LeaseId \ {k} : claims'[l] = claims[l]
    BY <1>1, <2>1, <2>3 DEF TypeOK, ClaimRecord
  <2>5. /\ proc'[p].pc = proc[p].pc /\ proc'[p].lease = k /\ proc'[p].exp = until
        /\ \A q \in Process \ {p} : proc'[q] = proc[q]
    BY <1>1, <2>3 DEF TypeOK, ProcRecord
  <2>6. LeaseRenewed(p)
    BY <2>1, <2>2, <2>4, <2>5 DEF LeaseRenewed
  <2> QED
    BY <2>6 DEF ClaimStep
<1> QED
  BY <1>3, <1>4, <1>5 DEF Heartbeat, Renew, RenewError

\* No signal makes a claim.
LEMMA SignalClaims ==
  ASSUME TableInv, Signal \/ Advance \/ UNCHANGED vars
  PROVE  ClaimStep
<1>1. UNCHANGED proc
  BY DEF Signal, Admit, MakeReady, ResolveWait, SettleWait, CloseCancelled,
     RecoveryReclaim, Advance, vars
<1>2. LeasesKept
  BY <1>1 DEF LeasesKept
<1>3. CASE UNCHANGED claims
  BY <1>2, <1>3 DEF ClaimStep, ClaimsFade, ActiveClaim
<1>4. ASSUME NEW t \in Task, CloseCancelled(t) PROVE ClaimsFade
  BY <1>4 DEF CloseCancelled, TableInv, TypeOK, ClaimRecord, ClaimsFade, ActiveClaim
<1>5. CASE RecoveryReclaim
  <2>1. PICK n \in 0 .. clock : ExpireClaims(n)
    BY <1>5 DEF RecoveryReclaim
  <2>2. n \in Nat
    BY <2>1 DEF TableInv, TypeOK
  <2> QED
    BY <1>2, <2>1, <2>2, ExpireFades DEF ClaimStep
<1> QED
  BY <1>2, <1>3, <1>4, <1>5 DEF Signal, Admit, MakeReady, ResolveWait, SettleWait,
     Advance, vars, ClaimStep

\* Every step withdraws claims, makes one proposed claim or prolongs one held.
LEMMA ClaimSteps == TableInv /\ [Next]_vars => ClaimStep
  BY DispatchClaims, ExecuteClaims, HeartbeatClaims, SignalClaims DEF Next

\* In the whole claim history of a Task, for any number of Agents and roles, no
\* Agent held two delivery roles: the claiming transaction compares with every
\* claim ever made, also those released or expired since the preview.
THEOREM RoleIndependenceHolds == Spec => []RoleIndependence
<1>1. Init => RoleIndependence
  BY DEF Init, RoleIndependence, NoClaim
<1>2. TableInv /\ RoleIndependence /\ [Next]_vars => RoleIndependence'
  <2> SUFFICES ASSUME RoleIndependence, TableInv, ClaimStep PROVE RoleIndependence'
    BY ClaimSteps
  <2>1. CASE ClaimsFade
    BY <2>1 DEF ClaimsFade, RoleIndependence
  <2>2. ASSUME NEW p \in Process, ClaimMade(p) PROVE RoleIndependence'
    BY <2>2 DEF ClaimMade, Independent, RoleIndependence
  <2>3. ASSUME NEW p \in Process, LeaseRenewed(p) PROVE RoleIndependence'
    <3>1. \A l \in LeaseId : claims'[l].state # "NONE" => claims[l].state # "NONE"
      BY <2>3 DEF LeaseRenewed, ActiveClaim
    <3> QED
      BY <3>1 DEF RoleIndependence
  <2> QED
    BY <2>1, <2>2, <2>3 DEF ClaimStep
<1> QED
  BY <1>1, <1>2, TableCorrect, PTL DEF Spec

\* The local deadline of a worker bounds from below the expiry of the lease it
\* holds, from the moment of the claim on.
DeadlineInv ==
    \A p \in Process :
        proc[p].pc \in Holding /\ ActiveClaim(proc[p].lease) =>
            proc[p].exp <= claims[proc[p].lease].expires

\* A worker never trusts its lease for longer than the queue does, however the
\* renewals of its heartbeat interleave with its main thread, with reclaims and
\* with the claims of other processes: only its owner prolongs a lease.
THEOREM LocalDeadlineHolds == Spec => []LocalDeadlineConservative
<1>1. Init => DeadlineInv
  BY DEF Init, DeadlineInv, IdleProc, Holding
<1>2. TableInv /\ TableInv' /\ DeadlineInv /\ [Next]_vars => DeadlineInv'
  <2> SUFFICES ASSUME TableInv, TableInv', DeadlineInv, ClaimStep,
                      NEW q \in Process, proc'[q].pc \in Holding,
                      claims'[proc'[q].lease].state = "ACTIVE"
               PROVE  proc'[q].exp <= claims'[proc'[q].lease].expires
    BY ClaimSteps DEF DeadlineInv, ActiveClaim
  <2>1. proc'[q].lease \in LeaseId /\ proc'[q].exp \in Nat
    BY DEF TableInv, HolderInv, Holds, TypeOK, ProcRecord
  <2>2. proc[q].pc \in Holding =>
            /\ proc[q].lease \in LeaseId /\ claims[proc[q].lease].owner = q
            /\ claims[proc[q].lease].state # "NONE"
    BY DEF TableInv, HolderInv, Holds
  <2>3. CASE ClaimsFade /\ LeasesKept
    BY <2>1, <2>3 DEF ClaimsFade, LeasesKept, DeadlineInv, ActiveClaim
  <2>4. ASSUME NEW p \in Process, ClaimMade(p) \/ LeaseRenewed(p),
               ~(ClaimsFade /\ LeasesKept)
        PROVE  proc'[q].exp <= claims'[proc'[q].lease].expires
    <3>1. CASE q = p
      BY <2>1, <2>4, <3>1 DEF ClaimMade, LeaseRenewed
    <3>2. CASE q # p
      <4>1. proc'[q] = proc[q]
        BY <2>4, <3>2 DEF ClaimMade, LeaseRenewed
      <4>2. proc[q].lease # proc[p].lease
        BY <2>2, <2>4, <3>2, <4>1 DEF ClaimMade, LeaseRenewed, TableInv, HolderInv,
           Holds, Holding
      <4>3. claims'[proc[q].lease] = claims[proc[q].lease]
        BY <2>1, <2>4, <4>1, <4>2 DEF ClaimMade, LeaseRenewed
      <4> QED
        BY <2>2, <4>1, <4>3 DEF DeadlineInv, ActiveClaim
    <3> QED
      BY <3>1, <3>2
  <2> QED
    BY <2>3, <2>4 DEF ClaimStep
<1>3. DeadlineInv => LocalDeadlineConservative
  BY DEF DeadlineInv, LocalDeadlineConservative, Holding
<1>4. (TableInv /\ DeadlineInv) /\ [Next]_vars => (TableInv /\ DeadlineInv)'
  BY <1>2, TableStep
<1> QED
  BY <1>1, <1>3, <1>4, TableInit, PTL DEF Spec

-----------------------------------------------------------------------------
(* Receipts                                                                *)

\* A finish that can still succeed has read all receipts there are: between its
\* read and its transaction only the holder of the same lease could add one.
FinishReceipts ==
    \A p \in Process :
        proc[p].pc = "finish" /\ ActiveClaim(proc[p].lease) =>
            proc[p].got = accepted[proc[p].item]

\* A completed item is closed and has exactly the receipts of its completion.
CompletedItems ==
    \A i \in Item : completion[i].lease # NoLease =>
        /\ items[i].status = "CLOSED"
        /\ completion[i].receipts = accepted[i]

ReceiptInv == FinishReceipts /\ CompletedItems

\* A claim that is ACTIVE after a step, and held by the same process before it,
\* was ACTIVE before it.
LEMMA HeldWasActive ==
  ASSUME TableInv, ClaimStep, NEW q \in Process, proc[q].pc \in Holding,
         claims'[proc[q].lease].state = "ACTIVE"
  PROVE  ActiveClaim(proc[q].lease)
<1>1. proc[q].lease \in LeaseId /\ claims[proc[q].lease].state # "NONE"
  BY DEF TableInv, HolderInv, Holds
<1> QED
  BY <1>1 DEF ClaimStep, ClaimsFade, ClaimMade, LeaseRenewed, ActiveClaim

\* Every step keeps the receipts, given that the tables agree.
LEMMA ReceiptStep ==
  ASSUME TableInv, ReceiptInv, [Next]_vars
  PROVE  ReceiptInv'
<1>1. RowStep /\ ClaimStep
  BY RowSteps, ClaimSteps
<1>2. \A i \in Item : items[i].status = "CLOSED" => items'[i] = items[i]
  BY <1>1, OpenStatus DEF RowStep, RowsMove, Publishes, Admits
<1>3. TypeOK
  BY DEF TableInv
<1>4. ASSUME UNCHANGED <<accepted, completion>>,
             \A q \in Process : proc'[q].pc = "finish" => proc'[q] = proc[q]
      PROVE  ReceiptInv'
  <2>1. FinishReceipts'
    <3> SUFFICES ASSUME NEW q \in Process, proc'[q].pc = "finish",
                        claims'[proc'[q].lease].state = "ACTIVE"
                 PROVE  proc'[q].got = accepted'[proc'[q].item]
      BY DEF FinishReceipts, ActiveClaim
    <3>1. proc'[q] = proc[q]
      BY <1>4
    <3>2. ActiveClaim(proc[q].lease)
      BY <1>1, <3>1, HeldWasActive DEF Holding
    <3> QED
      BY <1>4, <3>1, <3>2 DEF ReceiptInv, FinishReceipts
  <2>2. CompletedItems'
    BY <1>2, <1>4 DEF ReceiptInv, CompletedItems
  <2> QED
    BY <2>1, <2>2 DEF ReceiptInv
<1>5. ASSUME NEW p \in Process, AcceptArtifact(p) PROVE ReceiptInv'
  <2> DEFINE i == proc[p].item
             k == proc[p].lease
  <2>1. /\ proc[p].pc = "running" /\ ActiveClaim(k) /\ k \in LeaseId /\ k.item = i
        /\ claims[k].owner = p
    BY <1>5 DEF AcceptArtifact, Fenced, Owns, LiveAt, TableInv, HolderInv, Holds,
       Holding
  <2>2. UNCHANGED <<items, claims, completion, proc>>
    BY <1>5 DEF AcceptArtifact
  <2>3. \A j \in Item \ {i} : accepted'[j] = accepted[j]
    BY <1>3, <1>5 DEF AcceptArtifact, TypeOK
  <2>4. FinishReceipts'
    <3> SUFFICES ASSUME NEW q \in Process, proc[q].pc = "finish",
                        ActiveClaim(proc[q].lease)
                 PROVE  proc[q].got = accepted'[proc[q].item]
      BY <2>2 DEF FinishReceipts, ActiveClaim
    <3>1. /\ proc[q].lease \in LeaseId /\ proc[q].lease.item = proc[q].item
          /\ claims[proc[q].lease].owner = q /\ proc[q].item \in Item
      BY DEF TableInv, HolderInv, Holds, Holding
    <3>2. proc[q].item # i
      BY <2>1, <3>1 DEF TableInv, ClaimAgreement, ActiveClaimsAgree
    <3> QED
      BY <2>3, <3>1, <3>2 DEF ReceiptInv, FinishReceipts
  <2>5. CompletedItems'
    <3>1. items[i].status # "CLOSED"
      BY <2>1 DEF TableInv, ClaimAgreement, ActiveClaimsAgree, Active
    <3> QED
      BY <2>2, <2>3, <3>1 DEF ReceiptInv, CompletedItems
  <2> QED
    BY <2>4, <2>5 DEF ReceiptInv
<1>6. ASSUME NEW p \in Process, FinishRead(p) PROVE ReceiptInv'
  <2>1. UNCHANGED <<items, claims, accepted, completion>>
    BY <1>6 DEF FinishRead
  <2>2. /\ \A q \in Process \ {p} : proc'[q] = proc[q]
        /\ proc'[p].got = accepted[proc[p].item] /\ proc'[p].item = proc[p].item
    BY <1>3, <1>6 DEF FinishRead, TypeOK, ProcRecord
  <2>3. FinishReceipts'
    BY <2>1, <2>2 DEF ReceiptInv, FinishReceipts, ActiveClaim
  <2> QED
    BY <2>1, <2>3 DEF ReceiptInv, CompletedItems
<1>7. ASSUME NEW p \in Process, Finish(p), FinishValid(p) PROVE ReceiptInv'
  <2> DEFINE i == proc[p].item
  <2>1. /\ proc[p].pc = "finish" /\ ActiveClaim(proc[p].lease) /\ i \in Item
        /\ items[i].status \in Active
    BY <1>7 DEF Finish, FinishValid, Owns, LiveAt, TableInv, HolderInv, Holds
  <2>2. PICK next \in {NoItem} \cup {n \in Item : Successor(i, n)} :
            Complete(p, i, next)
    BY <1>7 DEF Finish
  <2>3. UNCHANGED accepted /\ proc' = [proc EXCEPT ![p] = IdleProc]
    BY <1>7 DEF Finish, Idle
  <2>4. /\ completion'[i].receipts = proc[p].got
        /\ \A j \in Item \ {i} : completion'[j] = completion[j]
    BY <1>3, <2>1, <2>2 DEF Complete, TypeOK
  <2>5. items'[i].status = "CLOSED"
    <3>1. items'[i] = [items[i] EXCEPT !.status = "CLOSED"]
      <4>1. i # next
        BY <2>1, <2>2, QueueConstants DEF Successor, Active
      <4> QED
        BY <2>1, <2>2, <4>1 DEF Complete
    <3> QED
      BY <1>3, <2>1, <3>1 DEF TypeOK, ItemRecord
  <2>6. proc'[p].pc = "idle" /\ \A q \in Process \ {p} : proc'[q] = proc[q]
    BY <1>3, <2>3 DEF TypeOK, IdleProc
  <2>7. FinishReceipts'
    <3> SUFFICES ASSUME NEW q \in Process, proc'[q].pc = "finish",
                        claims'[proc'[q].lease].state = "ACTIVE"
                 PROVE  proc'[q].got = accepted'[proc'[q].item]
      BY DEF FinishReceipts, ActiveClaim
    <3>1. proc'[q] = proc[q]
      BY <2>6
    <3>2. ActiveClaim(proc[q].lease)
      BY <1>1, <3>1, HeldWasActive DEF Holding
    <3> QED
      BY <2>3, <3>1, <3>2 DEF ReceiptInv, FinishReceipts
  <2>8. CompletedItems'
    <3>1. completion'[i].receipts = accepted'[i]
      BY <2>1, <2>3, <2>4 DEF ReceiptInv, FinishReceipts
    <3> QED
      BY <1>2, <2>3, <2>4, <2>5, <3>1 DEF ReceiptInv, CompletedItems
  <2> QED
    BY <2>7, <2>8 DEF ReceiptInv
<1>8. ASSUME NEW p \in Process,
             Dispatch(p) \/ Execute(p) \/ Heartbeat(p) \/ Crash(p),
             ~AcceptArtifact(p), ~FinishRead(p), ~(Finish(p) /\ FinishValid(p))
      PROVE  ReceiptInv'
  <2>1. UNCHANGED <<accepted, completion>>
    BY <1>8 DEF Dispatch, Tick, ReclaimExpired, Scan, Claim, Execute, StartReadClock,
       Start, Finish, ReleaseRead, ReleaseToStatus, Abandon, Heartbeat, BeatReadClock,
       Renew, RenewError, Crash
  <2>2. \A q \in Process \ {p} : proc'[q] = proc[q]
    BY <1>3, <1>8 DEF TypeOK, Dispatch, Tick, ReclaimExpired, Scan, Claim, Execute,
       StartReadClock, Start, Finish, ReleaseRead, ReleaseToStatus, Abandon, Heartbeat,
       BeatReadClock, Renew, RenewError, Crash, Idle, Goto, GotoReadingClock
  <2>3. proc'[p].pc # "finish" \/ proc'[p] = proc[p]
    <3>1. CASE Heartbeat(p)
      <4>1. proc[p].pc = "running"
        BY <3>1 DEF Heartbeat, BeatReadClock, Renew, RenewError, LifecycleFree,
           TableInv, HolderInv, Holds
      <4>2. CASE UNCHANGED proc
        BY <4>2
      <4>3. CASE Renew(p) \/ RenewError(p)
        <5>1. PICK u : \/ proc' = [proc EXCEPT ![p].exp = u]
                       \/ proc' = [proc EXCEPT ![p].lost = u]
          BY <4>3 DEF Renew, RenewError
        <5> QED
          BY <1>3, <4>1, <5>1 DEF TypeOK, ProcRecord
      <4> QED
        BY <3>1, <4>2, <4>3 DEF Heartbeat, BeatReadClock
    <3>2. ASSUME NEW i \in Item, Tick(p, i) PROVE proc'[p].pc # "finish"
      BY <1>3, <3>2 DEF TypeOK, Tick, IdleProc
    <3>3. CASE ReclaimExpired(p)
      BY <1>3, <3>3 DEF TypeOK, ProcRecord, ReclaimExpired, Goto
    <3>4. CASE Scan(p)
      BY <1>3, <3>4 DEF TypeOK, ProcRecord, Scan, Idle, IdleProc
    <3>5. CASE Claim(p)
      <4> DEFINE r == [IdleProc EXCEPT !.pc = "claimed", !.item = proc[p].item,
                           !.lease = proc[p].lease, !.exp = proc[p].now + TTL]
      <4>1. r.pc = "claimed" /\ IdleProc.pc = "idle"
        BY DEF IdleProc
      <4>2. proc' = [proc EXCEPT ![p] = r] \/ proc' = [proc EXCEPT ![p] = IdleProc]
        BY <3>5 DEF Claim, Idle
      <4> HIDE DEF r
      <4> QED
        BY <1>3, <4>1, <4>2 DEF TypeOK
    <3>6. CASE Execute(p) \/ Crash(p)
      BY <1>3, <1>8, <3>6 DEF TypeOK, ProcRecord, Execute, StartReadClock, Start,
         Finish, ReleaseRead, ReleaseToStatus, Abandon, Crash, Idle, IdleProc,
         GotoReadingClock
    <3> QED
      BY <1>8, <3>1, <3>2, <3>3, <3>4, <3>5, <3>6 DEF Dispatch
  <2> QED
    BY <1>4, <2>1, <2>2, <2>3
<1>9. CASE Signal \/ Advance \/ UNCHANGED vars
  <2>1. UNCHANGED <<accepted, completion, proc>>
    BY <1>9 DEF Signal, Admit, MakeReady, ResolveWait, SettleWait, CloseCancelled,
       RecoveryReclaim, Advance, vars
  <2> QED
    BY <1>4, <2>1
<1> QED
  BY <1>5, <1>6, <1>7, <1>8, <1>9 DEF Next

\* The receipts of a completion, read outside its transaction, are exactly the
\* artifacts ever accepted for the item, for any number of processes: a fenced
\* predecessor cannot add one between the read and the commit, nor later.
THEOREM CompletionReceiptsHold == Spec => []CompletionReceiptsExact
<1>1. Init => ReceiptInv
  BY DEF Init, ReceiptInv, FinishReceipts, CompletedItems, IdleProc, NoCompletion
<1>2. (TableInv /\ ReceiptInv) /\ [Next]_vars => (TableInv /\ ReceiptInv)'
  BY ReceiptStep, TableStep
<1>3. ReceiptInv => CompletionReceiptsExact
  BY DEF ReceiptInv, CompletedItems, CompletionReceiptsExact
<1> QED
  BY <1>1, <1>2, <1>3, TableInit, PTL DEF Spec

=============================================================================
