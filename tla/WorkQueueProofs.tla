-------------------------- MODULE WorkQueueProofs --------------------------
(***************************************************************************)
(* The item and claim tables of WorkQueue agree, for any number of items,  *)
(* agents and processes, any capacity, lease duration and retry delay.     *)
(***************************************************************************)
EXTENDS WorkQueue, TLAPS

Holding == {"claimed", "start", "running", "finish", "release"}

\* What process p remembers about the lease it proposes or holds.  A held lease
\* was claimed by p and by no other process.
Holds(p) ==
    /\ proc[p].pc # "idle" => proc[p].item \in Item
    /\ proc[p].pc \in Holding \cup {"claim"} =>
            /\ proc[p].lease \in LeaseId
            /\ proc[p].lease.item = proc[p].item
    /\ proc[p].pc = "claim" => proc[p].lease.seq = proc[p].seen.seq
    /\ proc[p].pc \in Holding =>
            /\ claims[proc[p].lease].owner = p
            /\ claims[proc[p].lease].state # "NONE"
    /\ beat[p].on => proc[p].pc = "running"

HolderInv == \A p \in Process : Holds(p)

\* Only work below the generation bound is ever claimed.
ClaimBound == \A l \in LeaseId : ActiveClaim(l) => l.seq < MaxSeq

TableInv == TypeOK /\ HolderInv /\ ClaimAgreement /\ ClaimBound

-----------------------------------------------------------------------------
(* The tables agree                                                        *)

\* Initially both tables are empty and no process holds anything.
LEMMA TableInit == Init => TableInv
<1> USE QueueConstants
<1> SUFFICES ASSUME Init PROVE TableInv
  OBVIOUS
<1>1. TypeOK
  BY DEF Init, TypeOK, ItemRecord, ClaimRecord, CompletionRecord, ProcRecord,
         AbsentItem, NoClaim, NoCompletion, IdleProc, NoBeat, ItemStatus, ProcPC,
         Generation
<1>2. HolderInv
  BY DEF Init, HolderInv, Holds, IdleProc, NoBeat, Holding
<1>3. ClaimAgreement /\ ClaimBound
  BY DEF Init, ClaimAgreement, ActiveClaimsAgree, ActiveItemsClaimed, ClaimBound,
         ActiveClaim, NoClaim, AbsentItem, Active
<1> QED
  BY <1>1, <1>2, <1>3 DEF TableInv

-----------------------------------------------------------------------------
(* Records                                                                 *)

\* The record updates the actions make keep rows and process records typed.
LEMMA IdleType == IdleProc \in ProcRecord
  BY QueueConstants DEF IdleProc, AbsentItem, ProcRecord, ItemRecord, ItemStatus,
     ProcPC, Generation

\* Setting a row's status, availability and wait, as every queue method does,
\* keeps the row typed.
LEMMA ItemUpdate ==
  ASSUME NEW r \in ItemRecord, NEW s \in ItemStatus, NEW n \in Nat,
         NEW w \in {"none", "untyped", "typed"}
  PROVE  /\ [r EXCEPT !.status = s] \in ItemRecord
         /\ [r EXCEPT !.status = s, !.wait = w] \in ItemRecord
         /\ [r EXCEPT !.status = s, !.avail = n, !.wait = w] \in ItemRecord
         /\ [r EXCEPT !.status = s, !.wait = w, !.avail = n] \in ItemRecord
  BY DEF ItemRecord

\* Rescheduling a row with its next dispatch_sequence keeps it typed while it is
\* below the generation bound.
LEMMA ItemBump ==
  ASSUME NEW r \in ItemRecord, NEW s \in ItemStatus, NEW n \in Nat,
         NEW w \in {"none", "untyped", "typed"}, r.seq < MaxSeq
  PROVE  /\ [r EXCEPT !.status = s, !.seq = @ + 1, !.avail = n] \in ItemRecord
         /\ [r EXCEPT !.status = s, !.seq = @ + 1, !.avail = n, !.wait = w]
                \in ItemRecord
         /\ [status |-> s, seq |-> r.seq + 1, avail |-> n, wait |-> w]
                \in ItemRecord
<1>1. r.seq + 1 \in Generation
  <2>1. r.seq \in 0 .. MaxSeq
    BY DEF ItemRecord, Generation
  <2> QED
    BY <2>1, QueueConstants DEF Generation
<1> DEFINE m == r.seq + 1
<1> HIDE DEF m
<1>2. /\ [r EXCEPT !.status = s, !.seq = m, !.avail = n] \in ItemRecord
      /\ [r EXCEPT !.status = s, !.seq = m, !.avail = n, !.wait = w] \in ItemRecord
      /\ [status |-> s, seq |-> m, avail |-> n, wait |-> w] \in ItemRecord
  BY <1>1 DEF ItemRecord, m
<1> QED
  BY <1>2 DEF m

\* A freshly enqueued row (_enqueue_locked) is typed and READY.
LEMMA NewItemType == NewItem \in ItemRecord /\ NewItem.status = "READY"
  BY QueueConstants DEF NewItem, AbsentItem, ItemRecord, ItemStatus, Generation

\* Changing the state or the expiry of a claim row keeps the row typed.
LEMMA ClaimUpdate ==
  ASSUME NEW c \in ClaimRecord, NEW n \in Nat, NEW p \in Process,
         NEW s \in {"RELEASED", "EXPIRED"}
  PROVE  /\ [c EXCEPT !.state = s] \in ClaimRecord
         /\ [c EXCEPT !.expires = n] \in ClaimRecord
         /\ [state |-> "ACTIVE", owner |-> p, expires |-> n] \in ClaimRecord
  BY DEF ClaimRecord

-----------------------------------------------------------------------------
(* Frames                                                                  *)

\* Withdrawing the claims in D while their items leave LEASED and RUNNING, and
\* moving other items between inactive statuses, keeps the tables in agreement.
LEMMA Withdraw ==
  ASSUME ClaimAgreement, ClaimBound,
         NEW D \in SUBSET LeaseId,
         \A l \in LeaseId : ActiveClaim(l)' <=> ActiveClaim(l) /\ l \notin D,
         \A i \in Item :
            \/ items'[i] = items[i] /\ \A l \in D : ActiveClaim(l) => l.item # i
            \/ /\ items'[i].status \notin Active
               /\ \A l \in LeaseId : ActiveClaim(l) /\ l.item = i => l \in D
  PROVE  ClaimAgreement' /\ ClaimBound'
<1>1. \A l \in LeaseId : l.item \in Item
  BY DEF LeaseId
<1>2. ClaimBound'
  BY DEF ClaimBound
<1>3. ActiveClaimsAgree'
  BY <1>1 DEF ClaimAgreement, ActiveClaimsAgree
<1>4. ActiveItemsClaimed'
  BY <1>1 DEF ClaimAgreement, ActiveItemsClaimed
<1> QED
  BY <1>2, <1>3, <1>4 DEF ClaimAgreement

\* Claims are never deleted and never change owner.
ClaimsKept ==
    \A l \in LeaseId : claims[l].state # "NONE" =>
        claims'[l].state # "NONE" /\ claims'[l].owner = claims[l].owner

\* A step of p that keeps the claims disturbs no other process.
LEMMA HolderFrame ==
  ASSUME HolderInv, ClaimsKept, NEW p \in Process, Holds(p)',
         \A q \in Process \ {p} : proc'[q] = proc[q] /\ beat'[q] = beat[q]
  PROVE  HolderInv'
  BY DEF HolderInv, Holds, ClaimsKept, Holding

\* A step that leaves the threads alone and keeps the claims disturbs no holder.
LEMMA HolderSignal ==
  ASSUME HolderInv, ClaimsKept, UNCHANGED <<proc, beat>>
  PROVE  HolderInv'
  BY DEF HolderInv, Holds, ClaimsKept, Holding

-----------------------------------------------------------------------------
(* Steps that leave both tables alone                                      *)

\* With items and claims unchanged only types and holders are left to show.
LEMMA TablesKept ==
  ASSUME TableInv, UNCHANGED <<items, claims>>, TypeOK', HolderInv'
  PROVE  TableInv'
  BY DEF TableInv, ClaimAgreement, ActiveClaimsAgree, ActiveItemsClaimed,
         ClaimBound, ActiveClaim

\* A step that only moves process p to the record r.
LEMMA ProcStep ==
  ASSUME TableInv, NEW p \in Process, NEW r \in ProcRecord,
         NEW b \in [on : BOOLEAN, now : Nat],
         proc' = [proc EXCEPT ![p] = r], beat' = [beat EXCEPT ![p] = b],
         UNCHANGED <<clock, items, claims, accepted, completion>>,
         r.pc # "idle" => r.item \in Item,
         r.pc \in Holding \cup {"claim"} =>
            r.lease \in LeaseId /\ r.lease.item = r.item,
         r.pc = "claim" => r.lease.seq = r.seen.seq,
         r.pc \in Holding =>
            claims[r.lease].owner = p /\ claims[r.lease].state # "NONE",
         b.on => r.pc = "running"
  PROVE  TableInv'
<1>1. TypeOK'
  BY DEF TableInv, TypeOK
<1>2. proc'[p] = r /\ beat'[p] = b
  BY DEF TableInv, TypeOK
<1>3. HolderInv'
  <2>1. Holds(p)'
    BY <1>2 DEF Holds
  <2>2. ClaimsKept
    BY DEF ClaimsKept
  <2>3. \A q \in Process \ {p} : proc'[q] = proc[q] /\ beat'[q] = beat[q]
    BY DEF TableInv, TypeOK
  <2> QED
    BY <2>1, <2>2, <2>3, HolderFrame DEF TableInv
<1> QED
  BY <1>1, <1>3, TablesKept

\* A process may always fall back to idle.
LEMMA GoIdle ==
  ASSUME TableInv, NEW p \in Process, Idle(p), ~beat[p].on,
         UNCHANGED <<clock, items, claims, accepted, completion, beat>>
  PROVE  TableInv'
<1>1. beat' = [beat EXCEPT ![p] = beat[p]] /\ beat[p] \in [on : BOOLEAN, now : Nat]
  BY DEF TableInv, TypeOK
<1>2. IdleProc.pc = "idle"
  BY DEF IdleProc
<1>3. proc' = [proc EXCEPT ![p] = IdleProc]
  BY DEF Idle
<1>4. "idle" \notin Holding \cup {"claim"}
  BY DEF Holding
<1> HIDE DEF Idle
<1> QED
  BY <1>1, <1>2, <1>3, <1>4, IdleType, ProcStep

\* The supervisor's choice of an item (Tick) keeps the tables in agreement.
LEMMA TickTable ==
  ASSUME TableInv, NEW p \in Process, NEW i \in Item, Tick(p, i)
  PROVE  TableInv'
<1> DEFINE r == [IdleProc EXCEPT !.pc = "reclaim", !.now = clock, !.item = i]
<1>1. clock \in Nat
  BY DEF TableInv, TypeOK
<1>2. r \in ProcRecord
  BY <1>1, IdleType DEF ProcRecord, ProcPC
<1>3. r.pc = "reclaim" /\ r.item = i
  BY DEF IdleProc
<1>4. proc' = [proc EXCEPT ![p] = r]
  BY DEF Tick
<1>5. beat' = [beat EXCEPT ![p] = beat[p]] /\ beat[p] \in [on : BOOLEAN, now : Nat]
  BY DEF Tick, TableInv, TypeOK
<1>6. ~beat[p].on
  BY DEF Tick, TableInv, HolderInv, Holds
<1>7. UNCHANGED <<clock, items, claims, accepted, completion>>
  BY DEF Tick
<1> HIDE DEF r
<1> QED
  BY <1>2, <1>3, <1>4, <1>5, <1>6, <1>7, ProcStep DEF Holding

\* The dispatcher's unlocked scan and preview (Scan) keeps them in agreement.
LEMMA ScanTable ==
  ASSUME TableInv, NEW p \in Process, Scan(p)
  PROVE  TableInv'
<1> DEFINE i == proc[p].item
<1>1. proc[p].pc = "scan" /\ UNCHANGED <<clock, items, claims, accepted, completion, beat>>
  BY DEF Scan
<1>2. i \in Item /\ ~beat[p].on
  BY <1>1 DEF TableInv, HolderInv, Holds
<1>3. CASE Idle(p)
  BY <1>1, <1>2, <1>3, GoIdle
<1>4. ASSUME NEW a \in Agent,
             proc' = [proc EXCEPT ![p].pc = "claim", ![p].seen = items[i],
                        ![p].lease = [item |-> i, seq |-> items[i].seq, agent |-> a]]
      PROVE  TableInv'
  <2> DEFINE l == [item |-> i, seq |-> items[i].seq, agent |-> a]
             r == [proc[p] EXCEPT !.pc = "claim", !.seen = items[i], !.lease = l]
  <2>1. proc[p] \in ProcRecord /\ items[i] \in ItemRecord
    BY <1>2 DEF TableInv, TypeOK
  <2>2. l \in LeaseId
    BY <1>2, <2>1 DEF LeaseId, ItemRecord
  <2>3. r \in ProcRecord
    BY <2>1, <2>2 DEF ProcRecord, ProcPC
  <2>4. r.pc = "claim" /\ r.item = i /\ r.lease = l /\ r.seen = items[i]
    BY <2>1 DEF ProcRecord
  <2>5. proc' = [proc EXCEPT ![p] = r]
    BY <1>4, <2>1 DEF TableInv, TypeOK
  <2>6. beat' = [beat EXCEPT ![p] = beat[p]] /\ beat[p] \in [on : BOOLEAN, now : Nat]
    BY <1>1 DEF TableInv, TypeOK
  <2>7. l.item = i /\ l.seq = items[i].seq
    OBVIOUS
  <2> HIDE DEF r, l, i
  <2>8. /\ r.item \in Item /\ r.pc \notin Holding
        /\ r.lease \in LeaseId /\ r.lease.item = r.item
        /\ r.lease.seq = r.seen.seq
    BY <1>2, <2>2, <2>4, <2>7 DEF Holding
  <2>9. UNCHANGED <<clock, items, claims, accepted, completion>> /\ (beat[p].on => r.pc = "running")
    BY <1>1, <1>2
  <2> QED
    BY <2>3, <2>5, <2>6, <2>8, <2>9, ProcStep
<1> QED
  BY <1>3, <1>4 DEF Scan

\* A running or claimed process moves on within the steps that hold a lease.
LEMMA HoldStep ==
  ASSUME TableInv, NEW p \in Process, proc[p].pc \in Holding,
         NEW r \in ProcRecord, proc' = [proc EXCEPT ![p] = r],
         r.pc \in Holding, r.item = proc[p].item, r.lease = proc[p].lease,
         NEW b \in [on : BOOLEAN, now : Nat], beat' = [beat EXCEPT ![p] = b],
         b.on => r.pc = "running",
         UNCHANGED <<clock, items, claims, accepted, completion>>
  PROVE  TableInv'
<1>1. /\ proc[p].item \in Item /\ proc[p].lease \in LeaseId
      /\ proc[p].lease.item = proc[p].item
      /\ claims[proc[p].lease].owner = p /\ claims[proc[p].lease].state # "NONE"
  BY DEF TableInv, HolderInv, Holds, Holding
<1>2. r.pc # "claim"
  BY DEF Holding
<1> QED
  BY <1>1, <1>2, ProcStep

\* The clock and receipt reads of start, finish and release keep them so.
LEMMA ExecuteReadTable ==
  ASSUME TableInv, NEW p \in Process,
         StartReadClock(p) \/ FinishRead(p) \/ ReleaseRead(p)
  PROVE  TableInv'
<1>1. clock \in Nat /\ proc[p] \in ProcRecord
  BY DEF TableInv, TypeOK
<1>2. ~beat[p].on /\ proc[p].pc \in Holding
  BY DEF StartReadClock, FinishRead, ReleaseRead, LifecycleFree, Holding, TableInv,
         HolderInv, Holds
<1>3. beat' = [beat EXCEPT ![p] = beat[p]] /\ beat[p] \in [on : BOOLEAN, now : Nat]
  BY DEF StartReadClock, FinishRead, ReleaseRead, TableInv, TypeOK
<1>4. UNCHANGED <<clock, items, claims, accepted, completion>>
  BY DEF StartReadClock, FinishRead, ReleaseRead
<1>5. ASSUME NEW pc \in {"start", "release"},
             proc' = [proc EXCEPT ![p].pc = pc, ![p].now = clock]
      PROVE  TableInv'
  <2> DEFINE r == [proc[p] EXCEPT !.pc = pc, !.now = clock]
  <2>1. r \in ProcRecord
    BY <1>1 DEF ProcRecord, ProcPC
  <2>2. r.pc \in Holding /\ r.item = proc[p].item /\ r.lease = proc[p].lease
    BY <1>1 DEF ProcRecord, Holding
  <2>3. proc' = [proc EXCEPT ![p] = r]
    BY <1>5, <1>1 DEF TableInv, TypeOK
  <2> HIDE DEF r
  <2> QED
    BY <1>2, <1>3, <1>4, <2>1, <2>2, <2>3, HoldStep
<1>6. CASE FinishRead(p)
  <2> DEFINE G == accepted[proc[p].item]
             r == [proc[p] EXCEPT !.pc = "finish", !.now = clock, !.got = G]
  <2>1. G \in SUBSET LeaseId
    BY <1>2 DEF TableInv, TypeOK, HolderInv, Holds, Holding
  <2>2. r \in ProcRecord
    BY <1>1, <2>1 DEF ProcRecord, ProcPC
  <2>3. r.pc \in Holding /\ r.item = proc[p].item /\ r.lease = proc[p].lease
    BY <1>1 DEF ProcRecord, Holding
  <2>4. proc' = [proc EXCEPT ![p] = r]
    BY <1>6, <1>1 DEF FinishRead, TableInv, TypeOK
  <2> HIDE DEF r, G
  <2> QED
    BY <1>2, <1>3, <1>4, <2>2, <2>3, <2>4, HoldStep
<1> QED
  BY <1>5, <1>6 DEF StartReadClock, ReleaseRead, GotoReadingClock

\* A heartbeat that reads its clock, or whose renewal raises, keeps them so.
LEMMA BeatTable ==
  ASSUME TableInv, NEW p \in Process, BeatReadClock(p) \/ RenewError(p)
  PROVE  TableInv'
<1>1. clock \in Nat /\ proc[p] \in ProcRecord
  BY DEF TableInv, TypeOK
<1>2. proc[p].pc = "running" /\ proc[p].pc \in Holding
  BY DEF BeatReadClock, RenewError, LifecycleFree, TableInv, HolderInv, Holds, Holding
<1>3. UNCHANGED <<clock, items, claims, accepted, completion>>
  BY DEF BeatReadClock, RenewError
<1>4. CASE BeatReadClock(p)
  <2>1. proc' = [proc EXCEPT ![p] = proc[p]]
    BY <1>4 DEF BeatReadClock, TableInv, TypeOK
  <2>2. beat' = [beat EXCEPT ![p] = [on |-> TRUE, now |-> clock]]
    BY <1>4 DEF BeatReadClock
  <2>3. [on |-> TRUE, now |-> clock] \in [on : BOOLEAN, now : Nat]
    BY <1>1
  <2> QED
    BY <1>1, <1>2, <1>3, <2>1, <2>2, <2>3, HoldStep
<1>5. CASE RenewError(p)
  <2> DEFINE r == [proc[p] EXCEPT !.lost = TRUE]
  <2>1. r \in ProcRecord /\ r.pc = "running" /\ r.item = proc[p].item
        /\ r.lease = proc[p].lease
    BY <1>1, <1>2 DEF ProcRecord
  <2>2. proc' = [proc EXCEPT ![p] = r] /\ beat' = [beat EXCEPT ![p] = NoBeat]
    BY <1>5, <1>1 DEF RenewError, TableInv, TypeOK
  <2>3. NoBeat \in [on : BOOLEAN, now : Nat]
    BY DEF NoBeat
  <2> HIDE DEF r
  <2> QED
    BY <1>2, <1>3, <2>1, <2>2, <2>3, HoldStep
<1> QED
  BY <1>4, <1>5

\* A worker that abandons its lease or dies keeps them so: its rows stay.
LEMMA LeaveTable ==
  ASSUME TableInv, NEW p \in Process, Abandon(p) \/ Crash(p)
  PROVE  TableInv'
<1>1. CASE Abandon(p)
  BY <1>1, GoIdle DEF Abandon, LifecycleFree
<1>2. CASE Crash(p)
  <2>1. NoBeat \in [on : BOOLEAN, now : Nat] /\ ~NoBeat.on
    BY DEF NoBeat
  <2>2. IdleProc.pc = "idle"
    BY DEF IdleProc
  <2>3. proc' = [proc EXCEPT ![p] = IdleProc]
    BY <1>2 DEF Crash, Idle
  <2>4. /\ beat' = [beat EXCEPT ![p] = NoBeat]
        /\ UNCHANGED <<clock, items, claims, accepted, completion>>
    BY <1>2 DEF Crash
  <2>5. "idle" \notin Holding \cup {"claim"}
    BY DEF Holding
  <2> QED
    BY <2>1, <2>2, <2>3, <2>4, <2>5, IdleType, ProcStep
<1> QED
  BY <1>1, <1>2

\* accept_artifact touches neither table.
LEMMA AcceptTable ==
  ASSUME TableInv, NEW p \in Process, AcceptArtifact(p)
  PROVE  TableInv'
<1>1. proc[p].item \in Item /\ proc[p].lease \in LeaseId
  BY DEF AcceptArtifact, TableInv, HolderInv, Holds, Holding
<1>2. TypeOK'
  BY <1>1 DEF AcceptArtifact, TableInv, TypeOK
<1>3. HolderInv'
  BY HolderSignal DEF AcceptArtifact, TableInv, ClaimsKept
<1> QED
  BY <1>2, <1>3, TablesKept DEF AcceptArtifact

\* The passing of time touches neither table.
LEMMA AdvanceTable ==
  ASSUME TableInv, Advance \/ UNCHANGED vars
  PROVE  TableInv'
<1>1. TypeOK'
  BY DEF Advance, vars, TableInv, TypeOK
<1>2. HolderInv'
  BY HolderSignal DEF Advance, vars, TableInv, ClaimsKept
<1> QED
  BY <1>1, <1>2, TablesKept DEF Advance, vars

-----------------------------------------------------------------------------
(* Steps that change the tables                                            *)

TablesTyped ==
    /\ items \in [Item -> ItemRecord]
    /\ claims \in [LeaseId -> ClaimRecord]

\* A step that changes the tables and leaves the threads alone.
LEMMA SignalStep ==
  ASSUME TableInv, UNCHANGED <<clock, accepted, completion, proc, beat>>,
         TablesTyped', ClaimsKept, ClaimAgreement', ClaimBound'
  PROVE  TableInv'
<1>1. TypeOK'
  BY DEF TableInv, TypeOK, TablesTyped
<1>2. HolderInv'
  BY HolderSignal DEF TableInv
<1> QED
  BY <1>1, <1>2 DEF TableInv

\* A transaction of process p, after which p's record is r.
LEMMA QueueStep ==
  ASSUME TableInv, NEW p \in Process, NEW r \in ProcRecord,
         proc' = [proc EXCEPT ![p] = r], ~beat[p].on,
         UNCHANGED <<clock, accepted, beat>>,
         completion' \in [Item -> CompletionRecord],
         TablesTyped', ClaimsKept, ClaimAgreement', ClaimBound',
         r.pc # "idle" => r.item \in Item,
         r.pc # "claim",
         r.pc \in Holding =>
            /\ r.lease \in LeaseId /\ r.lease.item = r.item
            /\ claims'[r.lease].owner = p /\ claims'[r.lease].state # "NONE"
  PROVE  TableInv'
<1>1. TypeOK'
  BY DEF TableInv, TypeOK, TablesTyped
<1>2. proc'[p] = r
  BY DEF TableInv, TypeOK
<1>3. HolderInv'
  <2>1. Holds(p)'
    BY <1>2 DEF Holds
  <2>2. \A q \in Process \ {p} : proc'[q] = proc[q] /\ beat'[q] = beat[q]
    BY DEF TableInv, TypeOK
  <2> QED
    BY <2>1, <2>2, HolderFrame DEF TableInv
<1> QED
  BY <1>1, <1>3 DEF TableInv

\* Reclaiming with any clock value keeps the tables in agreement.
LEMMA ExpireTables ==
  ASSUME TableInv, NEW n \in Nat, ExpireClaims(n)
  PROVE  TablesTyped' /\ ClaimsKept /\ ClaimAgreement' /\ ClaimBound'
<1> DEFINE due == {l \in LeaseId : ActiveClaim(l) /\ claims[l].expires <= n}
           Due(i) == \E l \in due : l.item = i
<1>1. /\ items' = [i \in Item |->
            IF Due(i)
            THEN [status |-> "RETRY_SCHEDULED", seq |-> items[i].seq + 1,
                  avail |-> n + RetryDelay, wait |-> "none"]
            ELSE items[i]]
      /\ claims' = [l \in LeaseId |->
            IF l \in due THEN [claims[l] EXCEPT !.state = "EXPIRED"]
                         ELSE claims[l]]
  BY DEF ExpireClaims
<1>2. items \in [Item -> ItemRecord] /\ claims \in [LeaseId -> ClaimRecord]
  BY DEF TableInv, TypeOK
<1>3. \A l \in LeaseId : l.item \in Item
  BY DEF LeaseId
<1>4. \A i \in Item : Due(i) => items[i].seq < MaxSeq
  BY DEF TableInv, ClaimAgreement, ActiveClaimsAgree, ClaimBound
<1>5. n + RetryDelay \in Nat
  BY QueueConstants
<1>6. TablesTyped'
  <2>1. \A i \in Item : items'[i] \in ItemRecord
    BY <1>1, <1>2, <1>4, <1>5, ItemBump DEF ItemStatus
  <2>2. \A l \in LeaseId : claims'[l] \in ClaimRecord
    BY <1>1, <1>2 DEF ClaimRecord
  <2> QED
    BY <1>1, <2>1, <2>2 DEF TablesTyped
<1>7. ClaimsKept
  BY <1>1, <1>2 DEF ClaimsKept, ClaimRecord
<1>8. ClaimAgreement' /\ ClaimBound'
  <2>1. \A l \in LeaseId : ActiveClaim(l)' <=> ActiveClaim(l) /\ l \notin due
    BY <1>1, <1>2 DEF ActiveClaim, ClaimRecord
  <2>2. ASSUME NEW i \in Item
        PROVE  \/ items'[i] = items[i] /\ \A l \in due : ActiveClaim(l) => l.item # i
               \/ /\ items'[i].status \notin Active
                  /\ \A l \in LeaseId : ActiveClaim(l) /\ l.item = i => l \in due
    <3>1. CASE ~Due(i)
      BY <1>1, <3>1
    <3>2. CASE Due(i)
      BY <1>1, <3>2 DEF Active, TableInv, ClaimAgreement, ActiveClaimsAgree
    <3> QED
      BY <3>1, <3>2
  <2>3. due \in SUBSET LeaseId
    OBVIOUS
  <2> HIDE DEF due
  <2> QED
    BY <2>1, <2>2, <2>3, Withdraw DEF TableInv
<1> QED
  BY <1>6, <1>7, <1>8

\* The tick's reclaim_expired keeps the tables in agreement.
LEMMA ReclaimTable ==
  ASSUME TableInv, NEW p \in Process, ReclaimExpired(p)
  PROVE  TableInv'
<1> DEFINE r == [proc[p] EXCEPT !.pc = "scan"]
<1>1. proc[p] \in ProcRecord /\ proc[p].now \in Nat
  BY DEF TableInv, TypeOK, ProcRecord
<1>2. proc[p].pc = "reclaim" /\ proc[p].item \in Item /\ ~beat[p].on
  BY DEF ReclaimExpired, TableInv, HolderInv, Holds
<1>3. r \in ProcRecord /\ r.pc = "scan" /\ r.item = proc[p].item
  BY <1>1 DEF ProcRecord, ProcPC
<1>4. proc' = [proc EXCEPT ![p] = r]
  BY <1>1 DEF ReclaimExpired, Goto, TableInv, TypeOK
<1>5. UNCHANGED <<clock, accepted, completion, beat>>
  BY DEF ReclaimExpired
<1>6. TablesTyped' /\ ClaimsKept /\ ClaimAgreement' /\ ClaimBound'
  BY <1>1, ExpireTables DEF ReclaimExpired
<1>7. completion' \in [Item -> CompletionRecord]
  BY <1>5 DEF TableInv, TypeOK
<1>8. "scan" \notin Holding
  BY DEF Holding
<1> HIDE DEF r
<1> QED
  BY <1>2, <1>3, <1>4, <1>5, <1>6, <1>7, <1>8, QueueStep

\* So does the reclaim of the recovery commands, with whatever clock they read.
LEMMA RecoveryTable ==
  ASSUME TableInv, RecoveryReclaim
  PROVE  TableInv'
<1>1. PICK n \in 0 .. clock : ExpireClaims(n)
  BY DEF RecoveryReclaim
<1>2. n \in Nat
  BY <1>1 DEF TableInv, TypeOK
<1> QED
  BY <1>1, <1>2, ExpireTables, SignalStep DEF RecoveryReclaim

\* A transaction that refuses leaves the tables alone and idles the process.
LEMMA Refused ==
  ASSUME TableInv, NEW p \in Process, Idle(p), proc[p].pc # "running",
         UNCHANGED <<clock, items, claims, accepted, completion, beat>>
  PROVE  TableInv'
  BY GoIdle DEF TableInv, HolderInv, Holds

\* The claiming transaction adds the one ACTIVE claim of a schedulable item.
LEMMA ClaimTable ==
  ASSUME TableInv, NEW p \in Process, Claim(p)
  PROVE  TableInv'
<1> DEFINE i == proc[p].item
           k == proc[p].lease
           n == proc[p].now
           r == [IdleProc EXCEPT !.pc = "claimed", !.item = i, !.lease = k,
                                 !.exp = n + TTL]
           c == [state |-> "ACTIVE", owner |-> p, expires |-> n + TTL]
<1>1. proc[p].pc = "claim" /\ UNCHANGED <<clock, accepted, completion, beat>>
  BY DEF Claim
<1>2. /\ i \in Item /\ k \in LeaseId /\ k.item = i /\ k.seq = proc[p].seen.seq
      /\ ~beat[p].on
  BY <1>1 DEF TableInv, HolderInv, Holds
<1>3. proc[p] \in ProcRecord /\ n \in Nat /\ n + TTL \in Nat
  BY QueueConstants DEF TableInv, TypeOK, ProcRecord
<1>4. CASE ~ClaimValid(p)
  BY <1>1, <1>4, Refused DEF Claim
<1>5. CASE ClaimValid(p)
  <2>1. /\ items' = [items EXCEPT ![i].status = "LEASED", ![i].avail = 0,
                                  ![i].wait = "none"]
        /\ claims' = [claims EXCEPT ![k] = c]
        /\ proc' = [proc EXCEPT ![p] = r]
    BY <1>5 DEF Claim
  <2>2. /\ items[i] = proc[p].seen
        /\ items[i].status \in {"READY", "RETRY_SCHEDULED"} /\ items[i].seq < MaxSeq
        /\ claims[k].state = "NONE"
    BY <1>5 DEF ClaimValid, Schedulable
  <2>3. items \in [Item -> ItemRecord] /\ claims \in [LeaseId -> ClaimRecord]
    BY DEF TableInv, TypeOK
  <2>4. /\ items'[i].status = "LEASED" /\ items'[i].seq = items[i].seq
        /\ \A j \in Item \ {i} : items'[j] = items[j]
    BY <1>2, <2>1, <2>3 DEF ItemRecord
  <2>5. claims'[k] = c /\ \A l \in LeaseId \ {k} : claims'[l] = claims[l]
    BY <1>2, <2>1, <2>3
  <2>6. c \in ClaimRecord /\ c.state = "ACTIVE" /\ c.owner = p
    BY <1>3 DEF ClaimRecord
  <2>7. TablesTyped'
    <3>1. [items[i] EXCEPT !.status = "LEASED", !.avail = 0, !.wait = "none"]
             \in ItemRecord
      BY <1>2, <2>3, ItemUpdate DEF ItemStatus
    <3>2. items' \in [Item -> ItemRecord]
      BY <1>2, <2>1, <2>3, <3>1
    <3>3. claims' \in [LeaseId -> ClaimRecord]
      BY <1>2, <2>1, <2>3, <2>6
    <3> QED
      BY <3>2, <3>3 DEF TablesTyped
  <2>8. ClaimsKept
    BY <2>2, <2>5 DEF ClaimsKept
  <2> HIDE DEF c
  <2>9. \A l \in LeaseId : ActiveClaim(l)' <=> ActiveClaim(l) \/ l = k
    BY <2>2, <2>5, <2>6 DEF ActiveClaim
  <2>10. \A l \in LeaseId : ActiveClaim(l) => l.item # i
    BY <2>2 DEF TableInv, ClaimAgreement, ActiveClaimsAgree, Active
  <2>11. \A l \in LeaseId : l.item \in Item
    BY DEF LeaseId
  <2>12. ActiveClaimsAgree' /\ ClaimBound'
    BY <1>2, <2>2, <2>4, <2>9, <2>10, <2>11
       DEF TableInv, ClaimAgreement, ActiveClaimsAgree, Active, ClaimBound
  <2>13. ActiveItemsClaimed'
    BY <1>2, <2>4, <2>9 DEF TableInv, ClaimAgreement, ActiveItemsClaimed
  <2>14. r \in ProcRecord /\ r.pc = "claimed" /\ r.item = i /\ r.lease = k
    BY <1>2, <1>3, IdleType DEF ProcRecord, ProcPC, IdleProc
  <2>15. completion' \in [Item -> CompletionRecord]
    BY <1>1 DEF TableInv, TypeOK
  <2> HIDE DEF r, k, i, n
  <2> QED
    BY <1>1, <1>2, <2>1, <2>5, <2>6, <2>7, <2>8, <2>12, <2>13, <2>14, <2>15, QueueStep
       DEF ClaimAgreement
<1> QED
  BY <1>4, <1>5

\* start moves a LEASED item to RUNNING under the claim that owns it.
LEMMA StartTable ==
  ASSUME TableInv, NEW p \in Process, Start(p)
  PROVE  TableInv'
<1> DEFINE i == proc[p].item
           r == [proc[p] EXCEPT !.pc = "running", !.now = 0]
<1>1. proc[p].pc = "start" /\ UNCHANGED <<clock, claims, accepted, completion, beat>>
  BY DEF Start
<1>2. /\ i \in Item /\ proc[p].lease \in LeaseId /\ proc[p].lease.item = i
      /\ claims[proc[p].lease].owner = p /\ claims[proc[p].lease].state # "NONE"
      /\ ~beat[p].on
  BY <1>1 DEF TableInv, HolderInv, Holds, Holding
<1>3. proc[p] \in ProcRecord /\ items[i] \in ItemRecord
  BY <1>2 DEF TableInv, TypeOK
<1>4. CASE ~(Owns(p, proc[p].now) /\ items[i].status \in Active)
  <2>1. Idle(p) /\ UNCHANGED items
    BY <1>4 DEF Start
  <2> QED
    BY <1>1, <2>1, Refused
<1>5. CASE Owns(p, proc[p].now) /\ items[i].status \in Active
  <2>1. /\ items' = [items EXCEPT ![i].status = "RUNNING"]
        /\ proc' = [proc EXCEPT ![p] = r]
    BY <1>5, <1>3 DEF Start, TableInv, TypeOK
  <2>2. r \in ProcRecord /\ r.pc = "running" /\ r.item = i /\ r.lease = proc[p].lease
    BY <1>3 DEF ProcRecord, ProcPC
  <2>3. /\ items'[i].status = "RUNNING" /\ items'[i].seq = items[i].seq
        /\ \A j \in Item \ {i} : items'[j] = items[j]
    BY <1>2, <1>3, <2>1 DEF TableInv, TypeOK, ItemRecord
  <2>4. TablesTyped'
    <3>1. [items[i] EXCEPT !.status = "RUNNING"] \in ItemRecord
      BY <1>3 DEF ItemRecord, ItemStatus
    <3> QED
      BY <1>1, <1>2, <2>1, <3>1 DEF TablesTyped, TableInv, TypeOK
  <2>5. ClaimsKept
    BY <1>1 DEF ClaimsKept
  <2>6. \A l \in LeaseId : ActiveClaim(l)' <=> ActiveClaim(l)
    BY <1>1 DEF ActiveClaim
  <2>7. \A l \in LeaseId : l.item \in Item
    BY DEF LeaseId
  <2>8. "RUNNING" \in Active
    BY DEF Active
  <2>9. ActiveClaimsAgree' /\ ClaimBound'
    BY <2>3, <2>6, <2>7, <2>8
       DEF TableInv, ClaimAgreement, ActiveClaimsAgree, ClaimBound
  <2>10. ActiveItemsClaimed'
    BY <1>5, <2>3, <2>6 DEF TableInv, ClaimAgreement, ActiveItemsClaimed
  <2>11. completion' \in [Item -> CompletionRecord]
    BY <1>1 DEF TableInv, TypeOK
  <2> HIDE DEF r
  <2> QED
    BY <1>1, <1>2, <2>1, <2>2, <2>4, <2>5, <2>9, <2>10, <2>11, QueueStep
       DEF ClaimAgreement
<1> QED
  BY <1>4, <1>5

\* renew changes the expiry of an owned claim, or marks the worker's lease lost.
LEMMA RenewTable ==
  ASSUME TableInv, NEW p \in Process, Renew(p)
  PROVE  TableInv'
<1> DEFINE k == proc[p].lease
           until == beat[p].now + TTL
           lostr == [proc[p] EXCEPT !.lost = TRUE]
           r == [proc[p] EXCEPT !.exp = until]
           c == [claims[k] EXCEPT !.expires = until]
<1>1. /\ beat[p].on /\ UNCHANGED <<clock, items, accepted, completion>>
      /\ beat' = [beat EXCEPT ![p] = NoBeat]
  BY DEF Renew
<1>2. proc[p].pc = "running"
  BY <1>1 DEF TableInv, HolderInv, Holds
<1>3. /\ proc[p].item \in Item /\ k \in LeaseId /\ k.item = proc[p].item
      /\ claims[k].owner = p /\ claims[k].state # "NONE"
  BY <1>2 DEF TableInv, HolderInv, Holds, Holding
<1>4. proc[p] \in ProcRecord /\ until \in Nat /\ claims[k] \in ClaimRecord
  BY <1>3, QueueConstants DEF TableInv, TypeOK
<1>5. NoBeat \in [on : BOOLEAN, now : Nat] /\ ~NoBeat.on
  BY DEF NoBeat
<1>6. CASE ~RenewValid(p)
  <2>1. proc' = [proc EXCEPT ![p] = lostr] /\ UNCHANGED claims
    BY <1>6, <1>4 DEF Renew, TableInv, TypeOK
  <2>2. /\ lostr \in ProcRecord /\ lostr.pc = "running"
        /\ lostr.item = proc[p].item /\ lostr.lease = k
    BY <1>2, <1>4 DEF ProcRecord
  <2>3. "running" \in Holding
    BY DEF Holding
  <2> HIDE DEF lostr
  <2> QED
    BY <1>1, <1>2, <1>5, <2>1, <2>2, <2>3, HoldStep
<1>7. CASE RenewValid(p)
  <2>1. claims' = [claims EXCEPT ![k] = c] /\ proc' = [proc EXCEPT ![p] = r]
    BY <1>7, <1>3, <1>4 DEF Renew, TableInv, TypeOK
  <2>2. c \in ClaimRecord /\ c.state = claims[k].state /\ c.owner = claims[k].owner
    BY <1>4 DEF ClaimRecord
  <2>3. /\ r \in ProcRecord /\ r.pc = "running"
        /\ r.item = proc[p].item /\ r.lease = k
    BY <1>2, <1>4 DEF ProcRecord
  <2> HIDE DEF c, r
  <2>4. \A l \in LeaseId : /\ claims'[l].state = claims[l].state
                           /\ claims'[l].owner = claims[l].owner
    BY <1>3, <2>1, <2>2 DEF TableInv, TypeOK
  <2>5. TypeOK'
    BY <1>1, <1>3, <1>5, <2>1, <2>2, <2>3 DEF TableInv, TypeOK
  <2>6. ClaimAgreement' /\ ClaimBound'
    BY <1>1, <2>4 DEF TableInv, ClaimAgreement, ActiveClaimsAgree,
       ActiveItemsClaimed, ClaimBound, ActiveClaim
  <2>7. HolderInv'
    <3>1. proc'[p] = r /\ beat'[p] = NoBeat
      BY <1>1, <2>1 DEF TableInv, TypeOK
    <3>2. \A q \in Process \ {p} : proc'[q] = proc[q] /\ beat'[q] = beat[q]
      BY <1>1, <2>1 DEF TableInv, TypeOK
    <3>3. ClaimsKept
      BY <2>4 DEF ClaimsKept
    <3>4. Holds(p)'
      BY <1>3, <1>5, <2>3, <2>4, <3>1 DEF Holds
    <3> QED
      BY <3>2, <3>3, <3>4, HolderFrame DEF TableInv
  <2> QED
    BY <2>5, <2>6, <2>7 DEF TableInv
<1> QED
  BY <1>6, <1>7

\* The transaction of p that withdraws its own lease k and leaves item i, and
\* possibly an item published with it, in an inactive status.
LEMMA ReleaseOwn ==
  ASSUME TableInv, NEW p \in Process, proc[p].pc \in Holding \ {"running"},
         proc' = [proc EXCEPT ![p] = IdleProc],
         UNCHANGED <<clock, accepted, beat>>,
         completion' \in [Item -> CompletionRecord],
         ActiveClaim(proc[p].lease),
         claims' = [claims EXCEPT ![proc[p].lease].state = "RELEASED"],
         items' \in [Item -> ItemRecord],
         items'[proc[p].item].status \notin Active,
         \A j \in Item \ {proc[p].item} :
            \/ items'[j] = items[j]
            \/ items[j].status \notin Active /\ items'[j].status \notin Active
  PROVE  TableInv'
<1> DEFINE k == proc[p].lease
           i == proc[p].item
           c == [claims[k] EXCEPT !.state = "RELEASED"]
<1>1. i \in Item /\ k \in LeaseId /\ k.item = i /\ ~beat[p].on
  BY DEF TableInv, HolderInv, Holds, Holding
<1>2. claims \in [LeaseId -> ClaimRecord] /\ claims[k] \in ClaimRecord
  BY <1>1 DEF TableInv, TypeOK
<1>3. claims' = [claims EXCEPT ![k] = c]
  BY <1>1, <1>2
<1>4. c \in ClaimRecord /\ c.state = "RELEASED" /\ c.owner = claims[k].owner
  BY <1>2 DEF ClaimRecord
<1> HIDE DEF c
<1>5. claims'[k] = c /\ \A l \in LeaseId \ {k} : claims'[l] = claims[l]
  BY <1>1, <1>2, <1>3
<1>6. TablesTyped' /\ ClaimsKept
  BY <1>1, <1>2, <1>3, <1>4, <1>5 DEF TablesTyped, ClaimsKept
<1>7. \A l \in LeaseId : ActiveClaim(l)' <=> ActiveClaim(l) /\ l \notin {k}
  BY <1>4, <1>5 DEF ActiveClaim
<1>8. ASSUME NEW j \in Item
      PROVE  \/ items'[j] = items[j] /\ \A l \in {k} : ActiveClaim(l) => l.item # j
             \/ /\ items'[j].status \notin Active
                /\ \A l \in LeaseId : ActiveClaim(l) /\ l.item = j => l \in {k}
  BY <1>1 DEF TableInv, ClaimAgreement, ActiveClaimsAgree
<1>9. {k} \in SUBSET LeaseId
  BY <1>1
<1>10. ClaimAgreement' /\ ClaimBound'
  BY <1>7, <1>8, <1>9, Withdraw DEF TableInv
<1>11. IdleProc.pc = "idle" /\ "idle" \notin Holding
  BY DEF IdleProc, Holding
<1> QED
  BY <1>1, <1>6, <1>10, <1>11, IdleType, QueueStep

\* The completing transaction closes the item, releases the claim and publishes
\* the successor.
LEMMA FinishTable ==
  ASSUME TableInv, NEW p \in Process, Finish(p)
  PROVE  TableInv'
<1> DEFINE i == proc[p].item
           k == proc[p].lease
<1>1. /\ proc[p].pc = "finish" /\ UNCHANGED <<clock, accepted, beat>>
      /\ proc' = [proc EXCEPT ![p] = IdleProc]
  BY DEF Finish, Idle
<1>2. i \in Item /\ k \in LeaseId /\ proc[p].pc \in Holding \ {"running"}
  BY <1>1 DEF TableInv, HolderInv, Holds, Holding
<1>3. CASE ~FinishValid(p)
  <2>1. Idle(p) /\ UNCHANGED <<items, claims, completion>>
    BY <1>3 DEF Finish
  <2> QED
    BY <1>1, <2>1, Refused
<1>4. CASE FinishValid(p)
  <2>1. PICK next \in {NoItem} \cup {n \in Item : Successor(i, n)} :
                Complete(p, i, next)
    BY <1>4 DEF Finish
  <2>2. ActiveClaim(k) /\ items[i].status \in Active
    BY <1>4 DEF FinishValid, Owns, LiveAt
  <2>3. items' = [j \in Item |->
            CASE j = i -> [items[i] EXCEPT !.status = "CLOSED"]
              [] j = next -> NewItem
              [] OTHER -> items[j]]
    BY <2>1 DEF Complete
  <2>4. \A j \in Item : j = next => items[j].status = "ABSENT"
    BY <2>1, QueueConstants DEF Successor
  <2>5. items[i] \in ItemRecord /\ items \in [Item -> ItemRecord]
    BY <1>2 DEF TableInv, TypeOK
  <2>6. /\ [items[i] EXCEPT !.status = "CLOSED"] \in ItemRecord
        /\ [items[i] EXCEPT !.status = "CLOSED"].status = "CLOSED"
    BY <2>5 DEF ItemRecord, ItemStatus
  <2>7. items' \in [Item -> ItemRecord] /\ items'[i].status = "CLOSED"
    <3> DEFINE closed == [items[i] EXCEPT !.status = "CLOSED"]
    <3>1. i # next
      BY <1>2, <2>2, <2>4 DEF Active
    <3>2. closed \in ItemRecord /\ closed.status = "CLOSED"
      BY <2>6
    <3>3. items' = [j \in Item |-> IF j = i THEN closed
                                  ELSE IF j = next THEN NewItem ELSE items[j]]
      BY <2>3, <3>1
    <3> HIDE DEF closed
    <3>4. \A j \in Item : items'[j] \in ItemRecord
      BY <2>5, <3>2, <3>3, NewItemType
    <3> QED
      BY <1>2, <3>2, <3>3, <3>4
  <2>8. "CLOSED" \notin Active /\ "ABSENT" \notin Active /\ "READY" \notin Active
    BY DEF Active
  <2>9. \A j \in Item \ {i} :
            \/ items'[j] = items[j]
            \/ items[j].status \notin Active /\ items'[j].status \notin Active
    BY <2>3, <2>4, <2>8, NewItemType
  <2>10. completion' \in [Item -> CompletionRecord]
    <3>1. [lease |-> k, receipts |-> proc[p].got] \in CompletionRecord
      BY <1>2 DEF TableInv, TypeOK, ProcRecord, CompletionRecord
    <3> QED
      BY <1>2, <2>1, <3>1 DEF Complete, TableInv, TypeOK
  <2>11. claims' = [claims EXCEPT ![k].state = "RELEASED"]
    BY <2>1 DEF Complete
  <2> QED
    BY <1>1, <1>2, <2>2, <2>7, <2>8, <2>9, <2>10, <2>11, ReleaseOwn
<1> QED
  BY <1>3, <1>4

\* _release_to_status withdraws the claim while the item starts to wait or is
\* rescheduled.
LEMMA ReleaseTable ==
  ASSUME TableInv, NEW p \in Process, ReleaseToStatus(p)
  PROVE  TableInv'
<1> DEFINE i == proc[p].item
           k == proc[p].lease
<1>1. /\ proc[p].pc = "release" /\ UNCHANGED <<clock, accepted, completion, beat>>
      /\ Idle(p) /\ proc' = [proc EXCEPT ![p] = IdleProc]
  BY DEF ReleaseToStatus, Idle
<1>2. /\ i \in Item /\ k \in LeaseId /\ k.item = i
      /\ proc[p].pc \in Holding \ {"running"}
  BY <1>1 DEF TableInv, HolderInv, Holds, Holding
<1>3. CASE ~ReleaseValid(p)
  <2>1. UNCHANGED <<items, claims>>
    BY <1>3 DEF ReleaseToStatus
  <2> QED
    BY <1>1, <2>1, Refused
<1>4. CASE ReleaseValid(p)
  <2>1. PICK row \in Released(items[i], proc[p].now) :
                items' = [items EXCEPT ![i] = row]
    BY <1>4 DEF ReleaseToStatus
  <2>2. claims' = [claims EXCEPT ![k].state = "RELEASED"]
    BY <1>4 DEF ReleaseToStatus
  <2>3. ActiveClaim(k)
    BY <1>4 DEF ReleaseValid, Owns, LiveAt
  <2>4. items[i] \in ItemRecord /\ items \in [Item -> ItemRecord]
        /\ proc[p].now \in Nat
    BY <1>2 DEF TableInv, TypeOK, ProcRecord
  <2>5. items[i].seq < MaxSeq
    BY <1>2, <2>3 DEF TableInv, ClaimBound, ClaimAgreement, ActiveClaimsAgree
  <2>6. row \in ItemRecord /\ row.status \notin Active
    <3>1. ASSUME NEW w \in {"untyped", "typed"},
                 row = [items[i] EXCEPT !.status = "WAITING", !.wait = w, !.avail = 0]
          PROVE  row \in ItemRecord /\ row.status \notin Active
      BY <2>4, <3>1 DEF ItemRecord, ItemStatus, Active
    <3>2. ASSUME row = [items[i] EXCEPT !.status = "RETRY_SCHEDULED", !.seq = @ + 1,
                                        !.avail = proc[p].now + RetryDelay]
          PROVE  row \in ItemRecord /\ row.status \notin Active
      <4>1. proc[p].now + RetryDelay \in Nat
        BY <2>4, QueueConstants
      <4>2. row \in ItemRecord
        BY <2>4, <2>5, <3>2, <4>1, ItemBump DEF ItemStatus
      <4>3. row.status = "RETRY_SCHEDULED"
        BY <2>4, <3>2 DEF ItemRecord
      <4> QED
        BY <4>2, <4>3 DEF Active
    <3> QED
      BY <2>1, <3>1, <3>2 DEF Released
  <2>7. /\ items' \in [Item -> ItemRecord] /\ items'[i].status \notin Active
        /\ \A j \in Item \ {i} : items'[j] = items[j]
    BY <1>2, <2>1, <2>4, <2>6
  <2>8. completion' \in [Item -> CompletionRecord]
    BY <1>1 DEF TableInv, TypeOK
  <2> QED
    BY <1>1, <1>2, <2>2, <2>3, <2>7, <2>8, ReleaseOwn
<1> QED
  BY <1>3, <1>4

\* A signal that touches only items without an ACTIVE claim, and leaves them
\* in an inactive status.
LEMMA InactiveItems ==
  ASSUME TableInv, UNCHANGED <<clock, claims, accepted, completion, proc, beat>>,
         items' \in [Item -> ItemRecord],
         \A j \in Item :
            \/ items'[j] = items[j]
            \/ items[j].status \notin Active /\ items'[j].status \notin Active
  PROVE  TableInv'
<1>1. TablesTyped' /\ ClaimsKept
  BY DEF TablesTyped, ClaimsKept, TableInv, TypeOK
<1>2. \A l \in LeaseId : ActiveClaim(l)' <=> ActiveClaim(l) /\ l \notin {}
  BY DEF ActiveClaim
<1>3. ASSUME NEW j \in Item
      PROVE  \/ items'[j] = items[j] /\ \A l \in {} : ActiveClaim(l) => l.item # j
             \/ /\ items'[j].status \notin Active
                /\ \A l \in LeaseId : ActiveClaim(l) /\ l.item = j => l \in {}
  BY DEF TableInv, ClaimAgreement, ActiveClaimsAgree
<1>4. {} \in SUBSET LeaseId
  OBVIOUS
<1>5. ClaimAgreement' /\ ClaimBound'
  BY <1>2, <1>3, <1>4, Withdraw DEF TableInv
<1> QED
  BY <1>1, <1>5, SignalStep

\* Admission inserts a READY row that has no claim.
LEMMA AdmitTable ==
  ASSUME TableInv, NEW i \in Item, Admit(i)
  PROVE  TableInv'
<1>1. items' = [items EXCEPT ![i] = NewItem] /\ items[i].status = "ABSENT"
  BY DEF Admit
<1>2. items' \in [Item -> ItemRecord]
  BY <1>1, NewItemType DEF TableInv, TypeOK
<1>3. "ABSENT" \notin Active /\ "READY" \notin Active
  BY DEF Active
<1>4. \A j \in Item :
            \/ items'[j] = items[j]
            \/ items[j].status \notin Active /\ items'[j].status \notin Active
  BY <1>1, <1>3, NewItemType DEF TableInv, TypeOK
<1> QED
  BY <1>2, <1>4, InactiveItems DEF Admit

\* Resuming work below the generation bound gives a row that is READY again.
LEMMA ResumedRow ==
  ASSUME NEW row \in ItemRecord, row.seq < MaxSeq
  PROVE  Resumed(row) \in ItemRecord /\ Resumed(row).status = "READY"
<1>1. Resumed(row) \in ItemRecord
  BY ItemBump DEF Resumed, ItemStatus
<1>2. Resumed(row).status = "READY"
  BY DEF Resumed, ItemRecord
<1> QED
  BY <1>1, <1>2

\* Closing a row settles it and nothing else.
LEMMA ClosedRow ==
  ASSUME NEW row \in ItemRecord
  PROVE  /\ [row EXCEPT !.status = "CLOSED", !.wait = "none"] \in ItemRecord
         /\ [row EXCEPT !.status = "CLOSED", !.wait = "none"].status = "CLOSED"
         /\ [row EXCEPT !.status = "CLOSED", !.wait = "none", !.avail = 0]
                \in ItemRecord
         /\ [row EXCEPT !.status = "CLOSED", !.wait = "none", !.avail = 0].status
                = "CLOSED"
  BY DEF ItemRecord, ItemStatus

\* Resuming an item without an ACTIVE claim keeps the tables in agreement.
LEMMA ResumeTable ==
  ASSUME TableInv, NEW i \in Item, items[i].status \notin Active,
         items[i].seq < MaxSeq, items' = [items EXCEPT ![i] = Resumed(@)],
         UNCHANGED <<clock, claims, accepted, completion, proc, beat>>
  PROVE  TableInv'
<1>1. items \in [Item -> ItemRecord]
  BY DEF TableInv, TypeOK
<1>2. Resumed(items[i]) \in ItemRecord /\ Resumed(items[i]).status = "READY"
  BY <1>1, ResumedRow
<1>3. items' = [items EXCEPT ![i] = Resumed(items[i])]
  BY <1>1
<1>4. /\ items' \in [Item -> ItemRecord] /\ items'[i].status = "READY"
      /\ \A j \in Item \ {i} : items'[j] = items[j]
  BY <1>1, <1>2, <1>3
<1>5. "READY" \notin Active
  BY DEF Active
<1>6. \A j \in Item :
            \/ items'[j] = items[j]
            \/ items[j].status \notin Active /\ items'[j].status \notin Active
  BY <1>4, <1>5
<1> QED
  BY <1>4, <1>6, InactiveItems

\* make_ready, resolve_wait and settle_stopped_budget keep them in agreement.
LEMMA SignalTable ==
  ASSUME TableInv, NEW i \in Item, MakeReady(i) \/ ResolveWait(i) \/ SettleWait(i)
  PROVE  TableInv'
<1> DEFINE closed == [items[i] EXCEPT !.status = "CLOSED", !.wait = "none"]
<1>1. /\ items[i].status \notin Active
      /\ UNCHANGED <<clock, claims, accepted, completion, proc, beat>>
  BY DEF MakeReady, ResolveWait, SettleWait, Active
<1>2. items \in [Item -> ItemRecord] /\ items[i] \in ItemRecord
  BY DEF TableInv, TypeOK
<1>3. closed \in ItemRecord /\ closed.status = "CLOSED"
  BY <1>2, ClosedRow
<1>4. "CLOSED" \notin Active /\ "READY" \notin Active /\ "ABSENT" \notin Active
  BY DEF Active
<1>5. CASE items[i].seq < MaxSeq /\ items' = [items EXCEPT ![i] = Resumed(@)]
  BY <1>1, <1>5, ResumeTable
<1>6. ASSUME NEW n \in Item, Successor(i, n), items[i].status = "WAITING",
             items' = [items EXCEPT ![i].status = "CLOSED", ![i].wait = "none",
                                    ![n] = NewItem]
      PROVE  TableInv'
  <2>1. items[n].status = "ABSENT" /\ n # i
    BY <1>6 DEF Successor
  <2>2. items' = [items EXCEPT ![i] = closed, ![n] = NewItem]
    BY <1>6, <1>2, <2>1
  <2> HIDE DEF closed
  <2>3. /\ items' \in [Item -> ItemRecord]
        /\ items'[i] = closed /\ items'[n] = NewItem
        /\ \A j \in Item \ {i, n} : items'[j] = items[j]
    BY <1>2, <1>3, <2>1, <2>2, NewItemType
  <2>4. \A j \in Item :
            \/ items'[j] = items[j]
            \/ items[j].status \notin Active /\ items'[j].status \notin Active
    BY <1>1, <1>3, <1>4, <2>1, <2>3, NewItemType
  <2> QED
    BY <1>1, <2>3, <2>4, InactiveItems
<1>7. CASE items' = [items EXCEPT ![i].status = "CLOSED", ![i].wait = "none"]
  <2>1. items' = [items EXCEPT ![i] = closed]
    BY <1>7, <1>2
  <2> HIDE DEF closed
  <2>2. /\ items' \in [Item -> ItemRecord] /\ items'[i] = closed
        /\ \A j \in Item \ {i} : items'[j] = items[j]
    BY <1>2, <1>3, <2>1
  <2>3. \A j \in Item :
            \/ items'[j] = items[j]
            \/ items[j].status \notin Active /\ items'[j].status \notin Active
    BY <1>1, <1>3, <1>4, <2>2
  <2> QED
    BY <1>1, <2>2, <2>3, InactiveItems
<1> QED
  BY <1>5, <1>6, <1>7 DEF MakeReady, ResolveWait, SettleWait

\* close_cancelled_task closes the items and expires the claims of one Task.
LEMMA CancelTable ==
  ASSUME TableInv, NEW t \in Task, CloseCancelled(t)
  PROVE  TableInv'
<1> DEFINE D == {l \in LeaseId : ActiveClaim(l) /\ TaskOf[l.item] = t}
           Hit(i) == TaskOf[i] = t /\ items[i].status \in Open
           closed(i) == [items[i] EXCEPT !.status = "CLOSED", !.wait = "none",
                                         !.avail = 0]
<1>1. /\ items' = [i \in Item |-> IF Hit(i) THEN closed(i) ELSE items[i]]
      /\ claims' = [l \in LeaseId |->
            IF l \in D THEN [claims[l] EXCEPT !.state = "EXPIRED"] ELSE claims[l]]
      /\ UNCHANGED <<clock, accepted, completion, proc, beat>>
  BY DEF CloseCancelled
<1>2. items \in [Item -> ItemRecord] /\ claims \in [LeaseId -> ClaimRecord]
  BY DEF TableInv, TypeOK
<1>3. \A l \in LeaseId : l.item \in Item
  BY DEF LeaseId
<1>4. \A i \in Item : closed(i) \in ItemRecord /\ closed(i).status = "CLOSED"
  BY <1>2, ClosedRow
<1> HIDE DEF closed
<1>5. TablesTyped'
  <2>1. \A i \in Item : items'[i] \in ItemRecord
    BY <1>1, <1>2, <1>4
  <2>2. \A l \in LeaseId : claims'[l] \in ClaimRecord
    BY <1>1, <1>2 DEF ClaimRecord
  <2> QED
    BY <1>1, <2>1, <2>2 DEF TablesTyped
<1>6. ClaimsKept
  BY <1>1, <1>2 DEF ClaimsKept, ClaimRecord
<1>7. \A l \in LeaseId : ActiveClaim(l)' <=> ActiveClaim(l) /\ l \notin D
  BY <1>1, <1>2 DEF ActiveClaim, ClaimRecord
<1>8. ASSUME NEW i \in Item
      PROVE  \/ items'[i] = items[i] /\ \A l \in D : ActiveClaim(l) => l.item # i
             \/ /\ items'[i].status \notin Active
                /\ \A l \in LeaseId : ActiveClaim(l) /\ l.item = i => l \in D
  <2>1. CASE Hit(i)
    <3>1. items'[i].status = "CLOSED"
      BY <1>1, <1>4, <2>1
    <3> QED
      BY <2>1, <3>1 DEF Active
  <2>2. CASE ~Hit(i)
    <3>1. items'[i] = items[i]
      BY <1>1, <2>2
    <3>2. ASSUME NEW l \in D, l.item = i PROVE FALSE
      BY <2>2, <3>2 DEF TableInv, ClaimAgreement, ActiveClaimsAgree, Active, Open,
         ItemStatus
    <3> QED
      BY <3>1, <3>2
  <2> QED
    BY <2>1, <2>2
<1>9. D \in SUBSET LeaseId
  OBVIOUS
<1> HIDE DEF D, Hit
<1>10. ClaimAgreement' /\ ClaimBound'
  BY <1>7, <1>8, <1>9, Withdraw DEF TableInv
<1> QED
  BY <1>1, <1>5, <1>6, <1>10, SignalStep

-----------------------------------------------------------------------------
(* Theorems on the tables                                                  *)

\* Every step of every thread, signal and crash keeps the tables in agreement.
LEMMA TableStep == TableInv /\ [Next]_vars => TableInv'
<1> SUFFICES ASSUME TableInv, [Next]_vars PROVE TableInv'
  OBVIOUS
<1>1. ASSUME NEW p \in Process, Dispatch(p) PROVE TableInv'
  BY <1>1, TickTable, ReclaimTable, ScanTable, ClaimTable DEF Dispatch
<1>2. ASSUME NEW p \in Process, Execute(p) PROVE TableInv'
  BY <1>2, ExecuteReadTable, StartTable, AcceptTable, FinishTable, ReleaseTable,
     LeaveTable DEF Execute
<1>3. ASSUME NEW p \in Process, Heartbeat(p) PROVE TableInv'
  BY <1>3, BeatTable, RenewTable DEF Heartbeat
<1>4. ASSUME NEW p \in Process, Crash(p) PROVE TableInv'
  BY <1>4, LeaveTable
<1>5. CASE Signal
  BY <1>5, AdmitTable, SignalTable, CancelTable, RecoveryTable DEF Signal
<1>6. CASE Advance \/ UNCHANGED vars
  BY <1>6, AdvanceTable
<1> QED
  BY <1>1, <1>2, <1>3, <1>4, <1>5, <1>6 DEF Next

\* The inductive invariant of the queue's two tables holds in every reachable
\* state; the theorems below are its consequences.
THEOREM TableCorrect == Spec => []TableInv
  BY TableInit, TableStep, PTL DEF Spec

\* Type correctness: no interleaving of dispatchers, workers, heartbeats,
\* crashes and signals makes a row, receipt or process record ill-formed; in
\* particular every dispatch_sequence stays within its bound.
THEOREM TypeCorrect == Spec => []TypeOK
<1>1. TableInv => TypeOK
  BY DEF TableInv
<1> QED
  BY <1>1, TableCorrect, PTL

\* The item and claim tables of the queue agree for ever: at most one ACTIVE
\* claim per item, of its current generation, exactly for LEASED or RUNNING
\* work, so _require_active_claim never meets the states it calls corruption.
THEOREM ClaimAgreementHolds == Spec => []ClaimAgreement
<1>1. TableInv => ClaimAgreement
  BY DEF TableInv
<1> QED
  BY <1>1, TableCorrect, PTL

=============================================================================
