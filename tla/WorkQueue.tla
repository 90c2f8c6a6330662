----------------------------- MODULE WorkQueue -----------------------------
(***************************************************************************)
(* The MySQL-backed PersistentWorkQueue of role Runs, the DispatcherLoop   *)
(* that claims from it and the WorkerLease (main thread and heartbeat      *)
(* thread) that executes a claim.                                          *)
(*                                                                         *)
(* Every queue method is one SQL transaction under one authority lock, so  *)
(* each is one action.  The clock a method compares leases with is read by *)
(* its caller before the lock is granted; a process therefore reads `now'  *)
(* in one step and runs the transaction in a later one, and any other      *)
(* transaction or any amount of time may come between.                     *)
(***************************************************************************)
EXTENDS Naturals, FiniteSets

CONSTANTS
    Item,       \* WorkItem ids
    Task,       \* Task ids
    Role,       \* delivery roles (all in _INDEPENDENT_DELIVERY_ROLES)
    Agent,      \* AgentProfile ids
    Process,    \* supervisor processes: dispatcher, worker and heartbeat
    TaskOf,     \* [Item -> Task]
    RoleOf,     \* [Item -> Role]
    Eligible,   \* [Agent -> SUBSET Role]: active, eligible and capable
    Capacity,   \* [Agent -> Nat]: max_parallel_assignments
    TTL,        \* lease duration
    RetryDelay, \* delay before reclaimed or retried work is available
    MaxClock,   \* bound: the clock stops here
    MaxSeq,     \* bound: work with this dispatch_sequence is not claimed
    NoItem,     \* absence of a WorkItem
    NoLease,    \* absence of a lease
    NoProcess   \* owner of a lease id that was never claimed

ASSUME QueueConstants ==
    /\ TaskOf \in [Item -> Task]
    /\ RoleOf \in [Item -> Role]
    /\ Eligible \in [Agent -> SUBSET Role]
    /\ Capacity \in [Agent -> Nat \ {0}]
    /\ TTL \in Nat \ {0}
    /\ RetryDelay \in Nat \ {0}
    /\ MaxClock \in Nat
    /\ MaxSeq \in Nat
    /\ NoItem \notin Item
    /\ NoProcess \notin Process

VARIABLES
    clock,      \* the real time of the host
    items,      \* table work_queue_items
    claims,     \* table work_queue_claims, by lease id
    accepted,   \* table work_queue_accepted_artifacts: publishing leases per item
    completion, \* the COMPLETED event of an item: its lease and receipts
    proc,       \* main thread of each process
    beat        \* heartbeat thread of each process

vars == <<clock, items, claims, accepted, completion, proc, beat>>

-----------------------------------------------------------------------------
(* Types                                                                   *)

Generation == 0 .. MaxSeq

\* The lease id is a digest of the item, its dispatch_sequence, task, role,
\* agent and attempt; task, role and attempt are determined by the item.
LeaseId == [item : Item, seq : Generation, agent : Agent]

\* WAITING stands for WAITING_HUMAN and WAITING_DEPENDENCY, which the queue
\* treats alike; ABSENT for a row not inserted yet.
ItemStatus == {"ABSENT", "READY", "LEASED", "RUNNING", "RETRY_SCHEDULED",
               "WAITING", "CLOSED"}
Active == {"LEASED", "RUNNING"}
Open == ItemStatus \ {"ABSENT", "CLOSED"}

\* wait: "typed" when a DeliveryDisposition is attached, "untyped" for a
\* knowledge wait, "none" otherwise.  avail is available_at (0 when NULL).
ItemRecord == [status : ItemStatus, seq : Generation, avail : Nat,
               wait : {"none", "untyped", "typed"}]

ClaimRecord == [state : {"NONE", "ACTIVE", "RELEASED", "EXPIRED"},
                owner : Process \cup {NoProcess}, expires : Nat]

CompletionRecord == [lease : LeaseId \cup {NoLease}, receipts : SUBSET LeaseId]

ProcPC == {"idle", "reclaim", "scan", "claim", "claimed", "start", "running",
           "finish", "release"}

ProcRecord == [pc : ProcPC,
               now : Nat,                       \* the clock value last read
               item : Item \cup {NoItem},       \* the bound WorkItem
               seen : ItemRecord,               \* its row as scanned
               lease : LeaseId \cup {NoLease},  \* proposed or held lease
               exp : Nat,                       \* WorkerLease._expires_at
               lost : BOOLEAN,                  \* WorkerLease._lost
               got : SUBSET LeaseId]            \* receipts read by finish

AbsentItem == [status |-> "ABSENT", seq |-> 0, avail |-> 0, wait |-> "none"]
NewItem == [AbsentItem EXCEPT !.status = "READY"]
NoCompletion == [lease |-> NoLease, receipts |-> {}]
NoClaim == [state |-> "NONE", owner |-> NoProcess, expires |-> 0]
IdleProc == [pc |-> "idle", now |-> 0, item |-> NoItem, seen |-> AbsentItem,
             lease |-> NoLease, exp |-> 0, lost |-> FALSE, got |-> {}]
NoBeat == [on |-> FALSE, now |-> 0]

TypeOK ==
    /\ clock \in Nat
    /\ items \in [Item -> ItemRecord]
    /\ claims \in [LeaseId -> ClaimRecord]
    /\ accepted \in [Item -> SUBSET LeaseId]
    /\ completion \in [Item -> CompletionRecord]
    /\ proc \in [Process -> ProcRecord]
    /\ beat \in [Process -> [on : BOOLEAN, now : Nat]]

Init ==
    /\ clock = 0
    /\ items = [i \in Item |-> AbsentItem]
    /\ claims = [l \in LeaseId |-> NoClaim]
    /\ accepted = [i \in Item |-> {}]
    /\ completion = [i \in Item |-> NoCompletion]
    /\ proc = [p \in Process |-> IdleProc]
    /\ beat = [p \in Process |-> NoBeat]

-----------------------------------------------------------------------------
(* Queries                                                                 *)

ActiveClaim(l) == claims[l].state = "ACTIVE"

\* Rows a transaction with clock value n counts as live.
LiveAt(l, n) == ActiveClaim(l) /\ claims[l].expires > n

Load(a, n) == {l \in LeaseId : l.agent = a /\ LiveAt(l, n)}

TaskLive(t, n) == \E l \in LeaseId : TaskOf[l.item] = t /\ LiveAt(l, n)

\* READY, or RETRY_SCHEDULED and due.  MaxSeq bounds the model's generations.
Schedulable(row, n) ==
    /\ \/ row.status = "READY"
       \/ row.status = "RETRY_SCHEDULED" /\ row.avail <= n
    /\ row.seq < MaxSeq

\* Mutant: capacity compared before the new unit is counted.
HasCapacityOffByOne(t, a, n) ==
    ~TaskLive(t, n) /\ Cardinality(Load(a, n)) <= Capacity[a]

\* Capacity for one more unit of agent a, and no live claim on the Task.
HasCapacity(t, a, n) ==
    /\ ~TaskLive(t, n)
    /\ Cardinality(Load(a, n)) + 1 <= Capacity[a]

\* Mutant: only claims that are still ACTIVE count against independence.
IndependentActiveOnly(t, r, a) ==
    \A l \in LeaseId :
        ActiveClaim(l) /\ TaskOf[l.item] = t /\ l.agent = a => RoleOf[l.item] = r

\* Over the whole claim history of the Task, a holds no other delivery role.
Independent(t, r, a) ==
    \A l \in LeaseId :
        claims[l].state # "NONE" /\ TaskOf[l.item] = t /\ l.agent = a
            => RoleOf[l.item] = r

\* PortfolioScheduler.match accepts agent a; its preference order is left
\* open, so every acceptable agent may be the one it returns.
Matches(i, a, n) ==
    /\ RoleOf[i] \in Eligible[a]
    /\ Cardinality(Load(a, n)) + 1 <= Capacity[a]
    /\ Independent(TaskOf[i], RoleOf[i], a)

\* _require_active_claim: p presents its own lease id and token.
Owns(p, n) ==
    /\ claims[proc[p].lease].owner = p
    /\ LiveAt(proc[p].lease, n)

\* WorkerLease.check passes: renewal not lost, local deadline not reached.
Check(p) == ~proc[p].lost /\ clock < proc[p].exp

\* assert_owner: the generation is unchanged and the lease is live.
Fenced(p) ==
    /\ items[proc[p].item].seq = proc[p].lease.seq
    /\ Owns(p, clock)

\* WorkerLease._lifecycle is free: neither a renewal nor a release holds it.
LifecycleFree(p) == ~beat[p].on /\ proc[p].pc = "running"

Idle(p) == proc' = [proc EXCEPT ![p] = IdleProc]
Goto(p, pc) == proc' = [proc EXCEPT ![p].pc = pc]
GotoReadingClock(p, pc) == proc' = [proc EXCEPT ![p].pc = pc, ![p].now = clock]

-----------------------------------------------------------------------------
(* Publication of work                                                     *)

\* RoleQueue.admit: the first step of a Task enters the queue once.
Admit(i) ==
    /\ \A j \in Item : TaskOf[j] = TaskOf[i] => items[j].status = "ABSENT"
    /\ items' = [items EXCEPT ![i] = NewItem]
    /\ UNCHANGED <<clock, claims, accepted, completion, proc, beat>>

\* n may be published as the successor of i: same Task, identity unused.
Successor(i, n) == TaskOf[n] = TaskOf[i] /\ items[n].status = "ABSENT"

-----------------------------------------------------------------------------
(* Dispatch: DispatcherLoop.tick                                           *)

\* The supervisor picks its Task's open item and reads the clock of the tick.
Tick(p, i) ==
    /\ proc[p].pc = "idle"
    /\ items[i].status \in Open \ {"WAITING"}
    /\ proc' = [proc EXCEPT ![p] = [IdleProc EXCEPT !.pc = "reclaim",
                                        !.now = clock, !.item = i]]
    /\ UNCHANGED <<clock, items, claims, accepted, completion, beat>>

\* Mutant: the expired work is rescheduled but its owner is not fenced.
ExpireUnfenced(n) ==
    LET Due(i) == \E l \in LeaseId : ActiveClaim(l) /\ l.item = i /\ claims[l].expires <= n
    IN  /\ items' = [i \in Item |->
                IF Due(i)
                THEN [status |-> "RETRY_SCHEDULED", seq |-> items[i].seq + 1,
                      avail |-> n + RetryDelay, wait |-> "none"]
                ELSE items[i]]
        /\ UNCHANGED claims

\* Fence every owner whose lease expired by n; its work is rescheduled.
ExpireClaims(n) ==
    LET due == {l \in LeaseId : ActiveClaim(l) /\ claims[l].expires <= n}
        Due(i) == \E l \in due : l.item = i
    IN  /\ items' = [i \in Item |->
                IF Due(i)
                THEN [status |-> "RETRY_SCHEDULED", seq |-> items[i].seq + 1,
                      avail |-> n + RetryDelay, wait |-> "none"]
                ELSE items[i]]
        /\ claims' = [l \in LeaseId |->
                IF l \in due THEN [claims[l] EXCEPT !.state = "EXPIRED"]
                             ELSE claims[l]]

\* Mutant: the tick goes on without reclaiming.
ReclaimNothing(p) ==
    /\ proc[p].pc = "reclaim"
    /\ Goto(p, "scan")
    /\ UNCHANGED <<clock, items, claims, accepted, completion, beat>>

ReclaimExpired(p) ==
    /\ proc[p].pc = "reclaim"
    /\ ExpireClaims(proc[p].now)
    /\ Goto(p, "scan")
    /\ UNCHANGED <<clock, accepted, completion, beat>>

\* The recovery commands reclaim outside a tick, with a clock read earlier.
RecoveryReclaim ==
    /\ \E n \in 0 .. clock : ExpireClaims(n)
    /\ UNCHANGED <<clock, accepted, completion, proc, beat>>

\* Unlocked reads of the item, leases and assignments, then the preview.
Scan(p) ==
    LET i == proc[p].item
        n == proc[p].now
    IN  /\ proc[p].pc = "scan"
        /\ \/ \E a \in Agent :
                /\ Schedulable(items[i], n)
                /\ Matches(i, a, n)
                /\ proc' = [proc EXCEPT
                       ![p].pc = "claim",
                       ![p].seen = items[i],
                       ![p].lease = [item |-> i, seq |-> items[i].seq, agent |-> a]]
           \/ /\ \A a \in Agent : ~(Schedulable(items[i], n) /\ Matches(i, a, n))
              /\ Idle(p)
        /\ UNCHANGED <<clock, items, claims, accepted, completion, beat>>

\* The row is still the scanned one and the allocation is still valid.  The
\* clock compared with is the one the tick read before it reclaimed.
ClaimValid(p) ==
    LET l == proc[p].lease
        n == proc[p].now
    IN  /\ items[proc[p].item] = proc[p].seen
        /\ Schedulable(proc[p].seen, n)
        /\ HasCapacity(TaskOf[l.item], l.agent, n)
        /\ Independent(TaskOf[l.item], RoleOf[l.item], l.agent)
        /\ claims[l].state = "NONE"

Claim(p) ==
    LET i == proc[p].item
        n == proc[p].now
    IN  /\ proc[p].pc = "claim"
        /\ \/ /\ ClaimValid(p)
              /\ items' = [items EXCEPT ![i].status = "LEASED", ![i].avail = 0,
                                        ![i].wait = "none"]
              /\ claims' = [claims EXCEPT ![proc[p].lease] =
                     [state |-> "ACTIVE", owner |-> p, expires |-> n + TTL]]
              /\ proc' = [proc EXCEPT ![p] = [IdleProc EXCEPT
                     !.pc = "claimed", !.item = i, !.lease = proc[p].lease,
                     !.exp = n + TTL]]
           \/ /\ ~ClaimValid(p)          \* QueueConflict: no dispatch
              /\ Idle(p)
              /\ UNCHANGED <<items, claims>>
        /\ UNCHANGED <<clock, accepted, completion, beat>>

-----------------------------------------------------------------------------
(* Execution of a claim: WorkerLease                                       *)

StartReadClock(p) ==
    /\ proc[p].pc = "claimed"
    /\ GotoReadingClock(p, "start")
    /\ UNCHANGED <<clock, items, claims, accepted, completion, beat>>

\* LEASED -> RUNNING; a lease lost before the start leaves the loop.
Start(p) ==
    LET i == proc[p].item IN
    /\ proc[p].pc = "start"
    /\ \/ /\ Owns(p, proc[p].now)
          /\ items[i].status \in Active
          /\ items' = [items EXCEPT ![i].status = "RUNNING"]
          /\ proc' = [proc EXCEPT ![p].pc = "running", ![p].now = 0]
       \/ /\ ~(Owns(p, proc[p].now) /\ items[i].status \in Active)
          /\ Idle(p)
          /\ UNCHANGED items
    /\ UNCHANGED <<clock, claims, accepted, completion, beat>>

\* The heartbeat takes the lifecycle lock and reads the clock.
BeatReadClock(p) ==
    /\ LifecycleFree(p)
    /\ ~proc[p].lost
    /\ beat' = [beat EXCEPT ![p] = [on |-> TRUE, now |-> clock]]
    /\ UNCHANGED <<clock, items, claims, accepted, completion, proc>>

RenewValid(p) ==
    /\ Owns(p, beat[p].now)
    /\ items[proc[p].item].status \in Active

\* Mutant: the local deadline counts from the end of the renewal.
RenewFromNow(p) ==
    /\ beat[p].on
    /\ \/ /\ RenewValid(p)
          /\ claims' = [claims EXCEPT ![proc[p].lease].expires = beat[p].now + TTL]
          /\ proc' = [proc EXCEPT ![p].exp = clock + TTL]
       \/ /\ ~RenewValid(p)
          /\ proc' = [proc EXCEPT ![p].lost = TRUE]
          /\ UNCHANGED claims
    /\ beat' = [beat EXCEPT ![p] = NoBeat]
    /\ UNCHANGED <<clock, items, accepted, completion>>

\* Extend the lease and the local deadline, or remember that it is lost.
Renew(p) ==
    LET until == beat[p].now + TTL IN
    /\ beat[p].on
    /\ \/ /\ RenewValid(p)
          /\ claims' = [claims EXCEPT ![proc[p].lease].expires = until]
          /\ proc' = [proc EXCEPT ![p].exp = until]
       \/ /\ ~RenewValid(p)
          /\ proc' = [proc EXCEPT ![p].lost = TRUE]
          /\ UNCHANGED claims
    /\ beat' = [beat EXCEPT ![p] = NoBeat]
    /\ UNCHANGED <<clock, items, accepted, completion>>

\* The renewal raises (connection lost): the worker treats the lease as lost.
RenewError(p) ==
    /\ beat[p].on
    /\ proc' = [proc EXCEPT ![p].lost = TRUE]
    /\ beat' = [beat EXCEPT ![p] = NoBeat]
    /\ UNCHANGED <<clock, items, claims, accepted, completion>>

\* Mutant: the artifact is written without asking whether the lease is live.
AcceptUnfenced(p) ==
    /\ proc[p].pc = "running"
    /\ accepted' = [accepted EXCEPT ![proc[p].item] = @ \cup {proc[p].lease}]
    /\ UNCHANGED <<clock, items, claims, completion, proc, beat>>

\* accept_artifact: the fence is checked before the write and, with a fresh
\* clock, again before the commit; the lifecycle lock is not taken.
AcceptArtifact(p) ==
    /\ proc[p].pc = "running"
    /\ Check(p)
    /\ Fenced(p)
    /\ accepted' = [accepted EXCEPT ![proc[p].item] = @ \cup {proc[p].lease}]
    /\ UNCHANGED <<clock, items, claims, completion, proc, beat>>

\* WorkerLease.finish: local check under the lifecycle lock, then MySqlRoleQueue
\* reads the item's receipts before it opens the completing transaction.
FinishRead(p) ==
    /\ LifecycleFree(p)
    /\ Check(p)
    /\ proc' = [proc EXCEPT ![p].pc = "finish", ![p].now = clock,
                            ![p].got = accepted[proc[p].item]]
    /\ UNCHANGED <<clock, items, claims, accepted, completion, beat>>

FinishValid(p) ==
    /\ Check(p)
    /\ Fenced(p)
    /\ Owns(p, proc[p].now)
    /\ items[proc[p].item].status \in Active

\* Mutant: the successor is published and the lease released, but the item
\* stays as it is.
CompleteWithoutClose(p, i, next) ==
    /\ items' = [j \in Item |-> IF j = next THEN NewItem ELSE items[j]]
    /\ claims' = [claims EXCEPT ![proc[p].lease].state = "RELEASED"]
    /\ completion' = [completion EXCEPT ![i] =
            [lease |-> proc[p].lease, receipts |-> proc[p].got]]

\* Close the item, release the lease and publish the successor, atomically.
Complete(p, i, next) ==
    /\ items' = [j \in Item |->
            CASE j = i -> [items[i] EXCEPT !.status = "CLOSED"]
              [] j = next -> NewItem
              [] OTHER -> items[j]]
    /\ claims' = [claims EXCEPT ![proc[p].lease].state = "RELEASED"]
    /\ completion' = [completion EXCEPT ![i] =
            [lease |-> proc[p].lease, receipts |-> proc[p].got]]

Finish(p) ==
    LET i == proc[p].item IN
    /\ proc[p].pc = "finish"
    /\ \/ /\ FinishValid(p)
          /\ \E next \in {NoItem} \cup {n \in Item : Successor(i, n)} :
                Complete(p, i, next)
       \/ /\ ~FinishValid(p)
          /\ UNCHANGED <<items, claims, completion>>
    /\ Idle(p)
    /\ UNCHANGED <<clock, accepted, beat>>

\* wait_for_delivery, wait_for_knowledge and queue.retry: lifecycle lock, local
\* check, clock, and then the releasing transaction.
ReleaseRead(p) ==
    /\ LifecycleFree(p)
    /\ Check(p)
    /\ GotoReadingClock(p, "release")
    /\ UNCHANGED <<clock, items, claims, accepted, completion, beat>>

ReleaseValid(p) ==
    Owns(p, proc[p].now) /\ items[proc[p].item].status \in Active

\* The rows _release_to_status may leave behind.
Released(row, n) ==
    {[row EXCEPT !.status = "WAITING", !.wait = w, !.avail = 0]
        : w \in {"untyped", "typed"}}
    \cup {[row EXCEPT !.status = "RETRY_SCHEDULED", !.seq = @ + 1,
                      !.avail = n + RetryDelay]}

ReleaseToStatus(p) ==
    LET i == proc[p].item IN
    /\ proc[p].pc = "release"
    /\ \/ /\ ReleaseValid(p)
          /\ \E row \in Released(items[i], proc[p].now) :
                items' = [items EXCEPT ![i] = row]
          /\ claims' = [claims EXCEPT ![proc[p].lease].state = "RELEASED"]
       \/ /\ ~ReleaseValid(p)
          /\ UNCHANGED <<items, claims>>
    /\ Idle(p)
    /\ UNCHANGED <<clock, accepted, completion, beat>>

\* The role run raises, or a check fails: the lease is left to expire.
Abandon(p) ==
    /\ LifecycleFree(p)
    /\ Idle(p)
    /\ UNCHANGED <<clock, items, claims, accepted, completion, beat>>

\* The process dies at any point; its memory, not its rows, is lost.
Crash(p) ==
    /\ proc[p].pc # "idle"
    /\ Idle(p)
    /\ beat' = [beat EXCEPT ![p] = NoBeat]
    /\ UNCHANGED <<clock, items, claims, accepted, completion>>

-----------------------------------------------------------------------------
(* External signals                                                        *)

NoActiveClaim(i) == \A l \in LeaseId : ActiveClaim(l) => l.item # i

Resumed(row) == [row EXCEPT !.status = "READY", !.seq = @ + 1, !.avail = 0,
                            !.wait = "none"]

\* A verified signal resumes waiting or scheduled work as a new generation.
MakeReady(i) ==
    /\ items[i].status \in {"WAITING", "RETRY_SCHEDULED"}
    /\ NoActiveClaim(i)
    /\ items[i].seq < MaxSeq
    /\ items' = [items EXCEPT ![i] = Resumed(@)]
    /\ UNCHANGED <<clock, claims, accepted, completion, proc, beat>>

\* resolve_wait: a sealed engineering decision resumes the item, or settles it
\* and publishes the retry of the same role as a new item.
ResolveWait(i) ==
    /\ items[i].status = "WAITING"
    /\ items[i].wait = "typed"
    /\ NoActiveClaim(i)
    /\ \/ /\ items[i].seq < MaxSeq
          /\ items' = [items EXCEPT ![i] = Resumed(@)]
       \/ \E n \in Item :
            /\ Successor(i, n)
            /\ RoleOf[n] = RoleOf[i]
            /\ items' = [items EXCEPT ![i].status = "CLOSED", ![i].wait = "none",
                                      ![n] = NewItem]
    /\ UNCHANGED <<clock, claims, accepted, completion, proc, beat>>

\* settle_stopped_budget: the Task ends and its waiting item is closed.
SettleWait(i) ==
    /\ items[i].status = "WAITING"
    /\ \A l \in LeaseId : ActiveClaim(l) => TaskOf[l.item] # TaskOf[i]
    /\ items' = [items EXCEPT ![i].status = "CLOSED", ![i].wait = "none"]
    /\ UNCHANGED <<clock, claims, accepted, completion, proc, beat>>

\* Mutant: the expired claims of the cancelled Task are left ACTIVE.
CloseKeepsClaims(t) ==
    /\ \E i \in Item : TaskOf[i] = t /\ items[i].status \in Open
    /\ ~TaskLive(t, clock)
    /\ items' = [i \in Item |->
            IF TaskOf[i] = t /\ items[i].status \in Open
            THEN [items[i] EXCEPT !.status = "CLOSED", !.wait = "none", !.avail = 0]
            ELSE items[i]]
    /\ UNCHANGED <<clock, claims, accepted, completion, proc, beat>>

\* close_cancelled_task: refused while the Task has a live lease.
CloseCancelled(t) ==
    /\ \E i \in Item : TaskOf[i] = t /\ items[i].status \in Open
    /\ ~TaskLive(t, clock)
    /\ items' = [i \in Item |->
            IF TaskOf[i] = t /\ items[i].status \in Open
            THEN [items[i] EXCEPT !.status = "CLOSED", !.wait = "none", !.avail = 0]
            ELSE items[i]]
    /\ claims' = [l \in LeaseId |->
            IF ActiveClaim(l) /\ TaskOf[l.item] = t
            THEN [claims[l] EXCEPT !.state = "EXPIRED"]
            ELSE claims[l]]
    /\ UNCHANGED <<clock, accepted, completion, proc, beat>>

Advance ==
    /\ clock < MaxClock
    /\ clock' = clock + 1
    /\ UNCHANGED <<items, claims, accepted, completion, proc, beat>>

-----------------------------------------------------------------------------

Dispatch(p) ==
    \/ \E i \in Item : Tick(p, i)
    \/ ReclaimExpired(p)
    \/ Scan(p)
    \/ Claim(p)

Execute(p) ==
    \/ StartReadClock(p)
    \/ Start(p)
    \/ AcceptArtifact(p)
    \/ FinishRead(p)
    \/ Finish(p)
    \/ ReleaseRead(p)
    \/ ReleaseToStatus(p)
    \/ Abandon(p)

Heartbeat(p) == BeatReadClock(p) \/ Renew(p) \/ RenewError(p)

Signal ==
    \/ \E i \in Item : Admit(i) \/ MakeReady(i) \/ ResolveWait(i) \/ SettleWait(i)
    \/ \E t \in Task : CloseCancelled(t)
    \/ RecoveryReclaim

Next ==
    \/ \E p \in Process : Dispatch(p) \/ Execute(p) \/ Heartbeat(p) \/ Crash(p)
    \/ Signal
    \/ Advance

Spec == Init /\ [][Next]_vars

\* A supervisor is called again until its Task ends, a heartbeat fires every
\* few seconds, and a role run ends (every invocation has a time limit).  The
\* fairness is strong where the step competes with a crash or, for the main
\* thread, with the heartbeat: a process is not stopped at the same point of
\* every try.
FairSpec ==
    /\ Spec
    /\ \A p \in Process : /\ SF_vars(\E i \in Item : Tick(p, i))
                          /\ SF_vars(ReclaimExpired(p))
                          /\ WF_vars(Scan(p) \/ Claim(p))
                          /\ WF_vars(Heartbeat(p))
                          /\ SF_vars(Execute(p))

-----------------------------------------------------------------------------
(* Safety                                                                  *)

\* A Task is delivered serially: it never has two open role steps, although
\* completion, wait resolution and admission all publish items.
OneOpenStep ==
    \A i, j \in Item :
        /\ TaskOf[i] = TaskOf[j]
        /\ items[i].status \in Open
        /\ items[j].status \in Open
        => i = j

\* The item table and the claim table agree across all transactions: an ACTIVE
\* claim is the only one of its item, of its item's current generation, and
\* its item is LEASED or RUNNING.  (The code raises QueueCorruption otherwise.)
ActiveClaimsAgree ==
    \A l \in LeaseId : ActiveClaim(l) =>
        /\ items[l.item].status \in Active
        /\ items[l.item].seq = l.seq
        /\ \A k \in LeaseId : ActiveClaim(k) /\ k.item = l.item => k = l

\* Conversely no item is LEASED or RUNNING without the claim that reclaiming
\* or releasing needs to get it back: no work is stranded.
ActiveItemsClaimed ==
    \A i \in Item : items[i].status \in Active =>
        \E l \in LeaseId : ActiveClaim(l) /\ l.item = i

ClaimAgreement == ActiveClaimsAgree /\ ActiveItemsClaimed

\* At every real instant the unexpired leases of an Agent fit its capacity,
\* although dispatchers and heartbeats compare with clocks read earlier.
LiveCapacity ==
    \A a \in Agent : Cardinality(Load(a, clock)) <= Capacity[a]

\* In the whole claim history of a Task no Agent held two delivery roles.
RoleIndependence ==
    \A k, l \in LeaseId :
        /\ claims[k].state # "NONE"
        /\ claims[l].state # "NONE"
        /\ TaskOf[k.item] = TaskOf[l.item]
        /\ k.agent = l.agent
        => RoleOf[k.item] = RoleOf[l.item]

\* The receipts of a completion, read before the completing transaction, are
\* all the artifacts ever accepted for the item, then and for ever after.
CompletionReceiptsExact ==
    \A i \in Item : completion[i].lease # NoLease =>
        completion[i].receipts = accepted[i]

\* A worker that has not lost its lease never trusts it for longer than the
\* queue does.
LocalDeadlineConservative ==
    \A p \in Process :
        /\ proc[p].pc \in {"running", "finish", "release"}
        /\ ActiveClaim(proc[p].lease)
        => proc[p].exp <= claims[proc[p].lease].expires

\* Closed work is never reopened, rescheduled or given another generation.
ClosedIsFinal ==
    [][\A i \in Item : items[i].status = "CLOSED" => items'[i] = items[i]]_vars

(* Liveness                                                                *)

\* An expired lease does not hold its work for ever, whatever became of the
\* process that held it: it is fenced, or its late owner renewed it.
ExpiredLeaseSettles ==
    \A l \in LeaseId :
        (ActiveClaim(l) /\ claims[l].expires <= clock)
            ~> (~ActiveClaim(l) \/ claims[l].expires > clock)

=============================================================================
