---------------------- MODULE WorkQueueCapacityProofs ----------------------
(***************************************************************************)
(* No Agent is ever over capacity in real time.  The invariant counts, per *)
(* Agent, the leases that are live or that a heartbeat in flight may still *)
(* renew; a dispatcher that ignores a lease as expired has fenced it.      *)
(***************************************************************************)
EXTENDS WorkQueueProofs, FiniteSetTheorems

\* A clock value read by a thread is in the past.
ClockInv ==
    \A p \in Process : proc[p].now <= clock /\ beat[p].now <= clock

\* A heartbeat in flight can still renew the lease of its process.
Renewable(l) ==
    \E q \in Process : /\ beat[q].on
                       /\ proc[q].lease = l
                       /\ beat[q].now < claims[l].expires

\* No lease that a dispatcher between its reclaim and its claim ignores as
\* expired can still be renewed by a heartbeat in flight.
IgnoredIsDead ==
    \A p \in Process : proc[p].pc \in {"scan", "claim"} =>
        \A l \in LeaseId :
            ActiveClaim(l) /\ claims[l].expires <= proc[p].now => ~Renewable(l)

\* The leases of a that are live, or may become live again.
Potential(a) ==
    {l \in LeaseId : /\ l.agent = a
                     /\ ActiveClaim(l)
                     /\ claims[l].expires > clock \/ Renewable(l)}

PotentialCapacity ==
    \A a \in Agent : Cardinality(Potential(a)) <= Capacity[a]

FiniteActive == IsFiniteSet({l \in LeaseId : ActiveClaim(l)})

CapacityInv == ClockInv /\ IgnoredIsDead /\ FiniteActive /\ PotentialCapacity

-----------------------------------------------------------------------------
(* Capacity at every real instant                                          *)

\* Initially there is no lease and no clock has been read.
LEMMA CapacityInit == Init => CapacityInv
<1> SUFFICES ASSUME Init PROVE CapacityInv
  OBVIOUS
<1>1. \A l \in LeaseId : ~ActiveClaim(l)
  BY DEF Init, NoClaim, ActiveClaim
<1>2. ClockInv /\ IgnoredIsDead
  BY <1>1 DEF Init, ClockInv, IgnoredIsDead, IdleProc, NoBeat
<1>3. {l \in LeaseId : ActiveClaim(l)} = {}
  BY <1>1
<1>4. \A a \in Agent : Potential(a) = {}
  BY <1>1 DEF Potential
<1>5. FiniteActive
  BY <1>3, FS_EmptySet DEF FiniteActive
<1>6. PotentialCapacity
  <2>1. \A a \in Agent : Cardinality(Potential(a)) = 0
    BY <1>4, FS_EmptySet
  <2>2. \A a \in Agent : Capacity[a] \in Nat
    BY QueueConstants
  <2> QED
    BY <2>1, <2>2 DEF PotentialCapacity
<1> QED
  BY <1>2, <1>5, <1>6 DEF CapacityInv

\* A step that lets no lease become live again keeps within capacity.
LEMMA CapacityShrinks ==
  ASSUME CapacityInv, ClockInv', IgnoredIsDead',
         \A l \in LeaseId : ActiveClaim(l)' => ActiveClaim(l),
         \A a \in Agent : Potential(a)' \subseteq Potential(a)
  PROVE  CapacityInv'
<1> DEFINE S == {l \in LeaseId : ActiveClaim(l)}
<1>1. IsFiniteSet(S)
  BY DEF CapacityInv, FiniteActive
<1>2. S' \subseteq S
  OBVIOUS
<1>3. FiniteActive'
  BY <1>1, <1>2, FS_Subset DEF FiniteActive
<1>4. ASSUME NEW a \in Agent PROVE Cardinality(Potential(a)') <= Capacity[a]
  <2>1. Potential(a) \subseteq S
    BY DEF Potential
  <2>2. IsFiniteSet(Potential(a))
    BY <1>1, <2>1, FS_Subset
  <2>3. IsFiniteSet(Potential(a)') /\ Cardinality(Potential(a)') <= Cardinality(Potential(a))
    BY <2>2, FS_Subset
  <2>4. Cardinality(Potential(a)') \in Nat /\ Cardinality(Potential(a)) \in Nat
    BY <2>2, <2>3, FS_CardinalityType
  <2>5. Cardinality(Potential(a)) <= Capacity[a] /\ Capacity[a] \in Nat
    BY QueueConstants DEF CapacityInv, PotentialCapacity
  <2> QED
    BY <2>3, <2>4, <2>5
<1>5. PotentialCapacity'
  BY <1>4 DEF PotentialCapacity
<1> QED
  BY <1>3, <1>5 DEF CapacityInv

\* A step that neither claims nor renews nor takes a new reading in a heartbeat.
LEMMA QuietStep ==
  ASSUME TableInv, CapacityInv, TypeOK', clock' >= clock,
         \A l \in LeaseId : ActiveClaim(l)' =>
            ActiveClaim(l) /\ claims'[l].expires = claims[l].expires,
         \A q \in Process :
            /\ proc'[q].now <= clock' /\ beat'[q].now <= clock'
            /\ beat'[q].on => /\ beat[q].on /\ beat'[q].now = beat[q].now
                              /\ proc'[q].lease = proc[q].lease
            /\ proc'[q].pc \in {"scan", "claim"} =>
                \/ proc[q].pc \in {"scan", "claim"} /\ proc'[q].now = proc[q].now
                \/ \A l \in LeaseId : ActiveClaim(l)' => claims'[l].expires > proc'[q].now
  PROVE  CapacityInv'
<1>1. ASSUME NEW l \in LeaseId, ActiveClaim(l)', Renewable(l)'
      PROVE  Renewable(l)
  BY <1>1 DEF Renewable
<1>2. \A l \in LeaseId : claims'[l].expires \in Nat
  BY DEF TypeOK, ClaimRecord
<1>3. \A q \in Process : proc'[q].now \in Nat
  BY DEF TypeOK, ProcRecord
<1>4. clock \in Nat /\ clock' \in Nat
  BY DEF TableInv, TypeOK
<1>5. ClockInv'
  BY DEF ClockInv
<1>6. IgnoredIsDead'
  <2> SUFFICES ASSUME NEW p \in Process, proc'[p].pc \in {"scan", "claim"},
                      NEW l \in LeaseId, ActiveClaim(l)',
                      claims'[l].expires <= proc'[p].now, Renewable(l)'
               PROVE  FALSE
    BY DEF IgnoredIsDead
  <2>1. proc[p].pc \in {"scan", "claim"} /\ proc'[p].now = proc[p].now
    BY <1>2, <1>3
  <2> QED
    BY <1>1, <2>1 DEF CapacityInv, IgnoredIsDead
<1>7. \A a \in Agent : Potential(a)' \subseteq Potential(a)
  BY <1>1, <1>2, <1>4 DEF Potential
<1> QED
  BY <1>5, <1>6, <1>7, CapacityShrinks

\* A process that holds a lease with its heartbeat in flight is its only owner.
LEMMA OneHeartbeat ==
  ASSUME TableInv, NEW p \in Process, NEW q \in Process, beat[q].on,
         proc[p].pc \in Holding, proc[q].lease = proc[p].lease
  PROVE  p = q
  BY DEF TableInv, HolderInv, Holds, Holding

\* A heartbeat that reads its clock while its lease is live makes the lease one
\* that may be renewed, which it already counted as.
LEMMA BeatCapacity ==
  ASSUME TableInv, CapacityInv, NEW p \in Process, BeatReadClock(p)
  PROVE  CapacityInv'
<1> DEFINE k == proc[p].lease
<1>1. /\ proc[p].pc = "running" /\ proc[p].pc \in Holding /\ ~beat[p].on
      /\ UNCHANGED <<clock, items, claims, accepted, completion, proc>>
  BY DEF BeatReadClock, LifecycleFree, Holding
<1>2. /\ beat'[p].on /\ beat'[p].now = clock
      /\ \A q \in Process \ {p} : beat'[q] = beat[q]
  BY DEF BeatReadClock, TableInv, TypeOK
<1>3. k \in LeaseId /\ clock \in Nat /\ claims[k].expires \in Nat
  BY <1>1 DEF TableInv, HolderInv, Holds, TypeOK, ClaimRecord
<1>4. \A l \in LeaseId : ActiveClaim(l)' <=> ActiveClaim(l)
  BY <1>1 DEF ActiveClaim
<1>5. \A l \in LeaseId : Renewable(l)' =>
            Renewable(l) \/ (l = k /\ claims[l].expires > clock)
  BY <1>1, <1>2, <1>3 DEF Renewable
<1>6. ClockInv'
  BY <1>1, <1>2, <1>3 DEF CapacityInv, ClockInv
<1>7. IgnoredIsDead'
  <2> SUFFICES ASSUME NEW q \in Process, proc[q].pc \in {"scan", "claim"},
                      NEW l \in LeaseId, ActiveClaim(l),
                      claims[l].expires <= proc[q].now, Renewable(l)'
               PROVE  FALSE
    BY <1>1, <1>4 DEF IgnoredIsDead
  <2>1. ~Renewable(l)
    BY DEF CapacityInv, IgnoredIsDead
  <2>2. l = k /\ claims[l].expires > clock
    BY <1>5, <2>1
  <2>3. proc[q].now <= clock /\ proc[q].now \in Nat
    BY DEF CapacityInv, ClockInv, TableInv, TypeOK, ProcRecord
  <2> QED
    BY <1>3, <2>2, <2>3
<1>8. \A a \in Agent : Potential(a)' \subseteq Potential(a)
  BY <1>1, <1>4, <1>5 DEF Potential
<1> QED
  BY <1>4, <1>6, <1>7, <1>8, CapacityShrinks

\* A renewal only extends a lease that counted as potentially live already.
LEMMA RenewCapacity ==
  ASSUME TableInv, CapacityInv, NEW p \in Process, Renew(p), TypeOK'
  PROVE  CapacityInv'
<1> DEFINE k == proc[p].lease
           until == beat[p].now + TTL
<1>1. /\ beat[p].on /\ UNCHANGED <<clock, items, accepted, completion>>
      /\ beat' = [beat EXCEPT ![p] = NoBeat]
  BY DEF Renew
<1>2. proc[p].pc = "running" /\ proc[p].pc \in Holding
  BY <1>1 DEF TableInv, HolderInv, Holds, Holding
<1>3. /\ k \in LeaseId /\ beat[p].now \in Nat /\ proc[p].now <= clock
      /\ proc[p] \in ProcRecord /\ clock \in Nat
  BY <1>2 DEF TableInv, HolderInv, Holds, TypeOK, CapacityInv, ClockInv
<1>4. /\ ~beat'[p].on /\ beat'[p].now = 0
      /\ \A q \in Process \ {p} : beat'[q] = beat[q] /\ proc'[q] = proc[q]
  BY <1>1 DEF Renew, NoBeat, TableInv, TypeOK
<1>5. proc'[p].pc = "running" /\ proc'[p].now = proc[p].now /\ proc'[p].lease = k
  BY <1>2, <1>3 DEF Renew, TableInv, TypeOK, ProcRecord
<1>6. CASE ~RenewValid(p)
  <2>1. UNCHANGED claims
    BY <1>6 DEF Renew
  <2>2. \A l \in LeaseId : ActiveClaim(l)' =>
            ActiveClaim(l) /\ claims'[l].expires = claims[l].expires
    BY <2>1 DEF ActiveClaim
  <2>3. ASSUME NEW q \in Process
        PROVE
            /\ proc'[q].now <= clock' /\ beat'[q].now <= clock'
            /\ beat'[q].on => /\ beat[q].on /\ beat'[q].now = beat[q].now
                              /\ proc'[q].lease = proc[q].lease
            /\ proc'[q].pc \in {"scan", "claim"} =>
                   proc[q].pc \in {"scan", "claim"} /\ proc'[q].now = proc[q].now
    BY <1>1, <1>3, <1>4, <1>5 DEF CapacityInv, ClockInv
  <2>4. clock' >= clock
    BY <1>1, <1>3
  <2> QED
    BY <2>2, <2>3, <2>4, QuietStep
<1>7. CASE RenewValid(p)
  <2>1. claims' = [claims EXCEPT ![k].expires = until]
    BY <1>7 DEF Renew
  <2>2. claims \in [LeaseId -> ClaimRecord]
    BY DEF TableInv, TypeOK
  <2>3. \A l \in LeaseId : ActiveClaim(l)' <=> ActiveClaim(l)
    BY <1>3, <2>1, <2>2 DEF ActiveClaim, ClaimRecord
  <2>4. \A l \in LeaseId \ {k} : claims'[l] = claims[l]
    BY <1>3, <2>1, <2>2
  <2>5. ActiveClaim(k) /\ Renewable(k)
    BY <1>1, <1>3, <1>7 DEF RenewValid, Owns, LiveAt, Renewable
  <2>6. \A l \in LeaseId : Renewable(l)' => Renewable(l) /\ l # k
    <3> SUFFICES ASSUME NEW l \in LeaseId, NEW q \in Process, beat'[q].on,
                        proc'[q].lease = l, beat'[q].now < claims'[l].expires
                 PROVE  Renewable(l) /\ l # k
      BY DEF Renewable
    <3>1. q # p /\ beat[q].on /\ proc[q].lease = l /\ beat[q].now = beat'[q].now
      BY <1>4
    <3>2. l # k
      BY <1>2, <3>1, OneHeartbeat
    <3> QED
      BY <2>4, <3>1, <3>2 DEF Renewable
  <2>7. ClockInv'
    BY <1>1, <1>3, <1>4, <1>5 DEF CapacityInv, ClockInv
  <2>8. IgnoredIsDead'
    <3> SUFFICES ASSUME NEW q \in Process, proc'[q].pc \in {"scan", "claim"},
                        NEW l \in LeaseId, ActiveClaim(l)',
                        claims'[l].expires <= proc'[q].now, Renewable(l)'
                 PROVE  FALSE
      BY DEF IgnoredIsDead
    <3>1. q # p /\ proc'[q] = proc[q]
      BY <1>4, <1>5
    <3>2. Renewable(l) /\ l # k
      BY <2>6
    <3>3. claims[l].expires <= proc[q].now
      BY <2>4, <3>1, <3>2
    <3> QED
      BY <2>3, <3>1, <3>2, <3>3 DEF CapacityInv, IgnoredIsDead
  <2>9. \A a \in Agent : Potential(a)' \subseteq Potential(a)
    <3> SUFFICES ASSUME NEW a \in Agent, NEW l \in Potential(a)'
                 PROVE  l \in Potential(a)
      OBVIOUS
    <3>1. /\ l \in LeaseId /\ l.agent = a /\ ActiveClaim(l)
          /\ claims'[l].expires > clock \/ Renewable(l)'
      BY <1>1, <2>3 DEF Potential
    <3>2. CASE l = k
      BY <2>5, <3>1, <3>2 DEF Potential
    <3>3. CASE l # k
      BY <2>4, <2>6, <3>1, <3>3 DEF Potential
    <3> QED
      BY <3>2, <3>3
  <2> QED
    BY <2>3, <2>7, <2>8, <2>9, CapacityShrinks
<1> QED
  BY <1>6, <1>7

\* Withdrawing claims, or leaving them alone.
ClaimsShrink ==
    \A l \in LeaseId : ActiveClaim(l)' =>
        ActiveClaim(l) /\ claims'[l].expires = claims[l].expires

\* A step of p alone that leaves its heartbeat out of flight.
LEMMA QuietProc ==
  ASSUME TableInv, CapacityInv, TypeOK', UNCHANGED clock, ClaimsShrink,
         NEW p \in Process,
         \A q \in Process \ {p} : proc'[q] = proc[q] /\ beat'[q] = beat[q],
         ~beat'[p].on, beat'[p].now <= clock, proc'[p].now <= clock,
         proc'[p].pc \in {"scan", "claim"} =>
            \/ proc[p].pc \in {"scan", "claim"} /\ proc'[p].now = proc[p].now
            \/ \A l \in LeaseId : ActiveClaim(l)' => claims'[l].expires > proc'[p].now
  PROVE  CapacityInv'
<1>1. clock' >= clock
  BY DEF TableInv, TypeOK
<1>2. \A q \in Process : proc[q].now <= clock /\ beat[q].now <= clock
  BY DEF CapacityInv, ClockInv
<1> QED
  BY <1>1, <1>2, QuietStep DEF ClaimsShrink

\* A step that leaves the threads alone.
LEMMA QuietSignal ==
  ASSUME TableInv, CapacityInv, TypeOK', clock' >= clock, ClaimsShrink,
         UNCHANGED <<proc, beat>>
  PROVE  CapacityInv'
<1>1. \A q \in Process : proc[q].now <= clock' /\ beat[q].now <= clock'
  <2>1. \A q \in Process : proc[q].now \in Nat /\ beat[q].now \in Nat
    BY DEF TableInv, TypeOK, ProcRecord
  <2>2. clock \in Nat /\ clock' \in Nat
    BY DEF TableInv, TypeOK
  <2> QED
    BY <2>1, <2>2 DEF CapacityInv, ClockInv
<1> QED
  BY <1>1, QuietStep DEF ClaimsShrink

\* reclaim_expired only withdraws claims.
LEMMA ExpireShrinks ==
  ASSUME TableInv, NEW n \in Nat, ExpireClaims(n)
  PROVE  ClaimsShrink /\ \A l \in LeaseId : ActiveClaim(l)' => claims'[l].expires > n
<1> DEFINE due == {l \in LeaseId : ActiveClaim(l) /\ claims[l].expires <= n}
<1>1. claims' = [l \in LeaseId |->
            IF l \in due THEN [claims[l] EXCEPT !.state = "EXPIRED"]
                         ELSE claims[l]]
  BY DEF ExpireClaims
<1>2. \A l \in LeaseId : claims[l] \in ClaimRecord
  BY DEF TableInv, TypeOK
<1>3. ASSUME NEW l \in LeaseId, ActiveClaim(l)'
      PROVE  l \notin due /\ claims'[l] = claims[l]
  BY <1>1, <1>2, <1>3 DEF ActiveClaim, ClaimRecord
<1>4. \A l \in LeaseId : claims[l].expires \in Nat
  BY <1>2 DEF ClaimRecord
<1> QED
  BY <1>3, <1>4 DEF ClaimsShrink, ActiveClaim

\* The transaction that claims counts every lease that may still be renewed.
LEMMA ClaimCapacity ==
  ASSUME TableInv, CapacityInv, NEW p \in Process, proc[p].pc = "claim",
         ClaimValid(p), Claim(p), TypeOK'
  PROVE  CapacityInv'
<1> DEFINE k == proc[p].lease
           n == proc[p].now
           c == [state |-> "ACTIVE", owner |-> p, expires |-> n + TTL]
<1>1. /\ claims' = [claims EXCEPT ![k] = c]
      /\ UNCHANGED <<clock, accepted, completion, beat>>
  BY DEF Claim
<1>2. /\ k \in LeaseId /\ claims[k].state = "NONE" /\ ~beat[p].on
      /\ Cardinality(Load(k.agent, n)) + 1 <= Capacity[k.agent]
  BY DEF TableInv, HolderInv, Holds, ClaimValid, HasCapacity
<1>3. /\ proc'[p].pc = "claimed" /\ proc'[p].now = 0 /\ proc'[p].lease = k
      /\ \A q \in Process \ {p} : proc'[q] = proc[q]
  <2> DEFINE r == [IdleProc EXCEPT !.pc = "claimed", !.item = proc[p].item,
                                   !.lease = k, !.exp = n + TTL]
  <2>1. r.pc = "claimed" /\ r.now = 0 /\ r.lease = k
    BY DEF IdleProc
  <2>2. proc' = [proc EXCEPT ![p] = r]
    BY DEF Claim
  <2> HIDE DEF r
  <2> QED
    BY <2>1, <2>2 DEF TableInv, TypeOK
<1>4. /\ clock \in Nat /\ n \in Nat /\ n <= clock /\ k.agent \in Agent
      /\ \A l \in LeaseId : claims[l].expires \in Nat
      /\ \A a \in Agent : Capacity[a] \in Nat
  BY <1>2, QueueConstants DEF TableInv, TypeOK, ProcRecord, CapacityInv, ClockInv, LeaseId,
     ClaimRecord
<1>5. claims'[k] = c /\ \A l \in LeaseId \ {k} : claims'[l] = claims[l]
  BY <1>1, <1>2 DEF TableInv, TypeOK
<1>6. \A l \in LeaseId \ {k} : ActiveClaim(l)' <=> ActiveClaim(l)
  BY <1>5 DEF ActiveClaim
<1>7. \A l \in LeaseId : Renewable(l)' => Renewable(l) /\ l # k
  <2> SUFFICES ASSUME NEW l \in LeaseId, NEW q \in Process, beat[q].on,
                      proc'[q].lease = l, beat[q].now < claims'[l].expires
               PROVE  Renewable(l) /\ l # k
    BY <1>1 DEF Renewable
  <2>1. q # p /\ proc[q].lease = l
    BY <1>2, <1>3
  <2>2. l # k
    BY <1>2, <2>1 DEF TableInv, HolderInv, Holds, Holding
  <2> QED
    BY <1>5, <2>1, <2>2 DEF Renewable
<1>8. ClockInv'
  BY <1>1, <1>3, <1>4 DEF CapacityInv, ClockInv
<1>9. IgnoredIsDead'
  <2> SUFFICES ASSUME NEW q \in Process, proc'[q].pc \in {"scan", "claim"},
                      NEW l \in LeaseId, ActiveClaim(l)',
                      claims'[l].expires <= proc'[q].now, Renewable(l)'
               PROVE  FALSE
    BY DEF IgnoredIsDead
  <2>1. q # p /\ proc'[q] = proc[q]
    BY <1>3
  <2>2. Renewable(l) /\ l # k
    BY <1>7
  <2>3. ActiveClaim(l) /\ claims[l].expires <= proc[q].now
    BY <1>5, <1>6, <2>1, <2>2
  <2> QED
    BY <2>1, <2>2, <2>3 DEF CapacityInv, IgnoredIsDead
<1>10. FiniteActive'
  <2> DEFINE S == {l \in LeaseId : ActiveClaim(l)}
  <2>1. IsFiniteSet(S \cup {k})
    BY FS_AddElement DEF CapacityInv, FiniteActive
  <2>2. S' \subseteq S \cup {k}
    BY <1>6
  <2> QED
    BY <2>1, <2>2, FS_Subset DEF FiniteActive
<1>11. ASSUME NEW a \in Agent PROVE Cardinality(Potential(a)') <= Capacity[a]
  <2>1. IsFiniteSet(Potential(a)) /\ IsFiniteSet(Load(a, n))
    <3> DEFINE S == {l \in LeaseId : ActiveClaim(l)}
    <3>1. IsFiniteSet(S)
      BY DEF CapacityInv, FiniteActive
    <3>2. Potential(a) \subseteq S /\ Load(a, n) \subseteq S
      BY DEF Potential, Load, LiveAt
    <3> QED
      BY <3>1, <3>2, FS_Subset
  <2>2. Potential(a) \subseteq Load(a, n)
    <3> SUFFICES ASSUME NEW l \in Potential(a) PROVE claims[l].expires > n
      BY DEF Potential, Load, LiveAt
    <3>1. CASE claims[l].expires > clock
      BY <1>4, <3>1 DEF Potential
    <3>2. CASE Renewable(l)
      <4>1. l \in LeaseId /\ ActiveClaim(l)
        BY DEF Potential
      <4>2. ~(claims[l].expires <= n)
        BY <3>2, <4>1 DEF CapacityInv, IgnoredIsDead
      <4> QED
        BY <1>4, <4>1, <4>2
    <3> QED
      BY <3>1, <3>2 DEF Potential
  <2>3. CASE a # k.agent
    <3>1. Potential(a)' \subseteq Potential(a)
      BY <1>1, <1>5, <1>6, <1>7, <2>3 DEF Potential
    <3>2. /\ IsFiniteSet(Potential(a)')
          /\ Cardinality(Potential(a)') <= Cardinality(Potential(a))
      BY <2>1, <3>1, FS_Subset
    <3>3. Cardinality(Potential(a)') \in Nat /\ Cardinality(Potential(a)) \in Nat
      BY <2>1, <3>2, FS_CardinalityType
    <3>4. Cardinality(Potential(a)) <= Capacity[a]
      BY DEF CapacityInv, PotentialCapacity
    <3> QED
      BY <1>4, <3>2, <3>3, <3>4
  <2>4. CASE a = k.agent
    <3>1. Potential(a)' \subseteq Load(a, n) \cup {k}
      <4>1. Potential(a)' \subseteq Potential(a) \cup {k}
        BY <1>1, <1>5, <1>6, <1>7 DEF Potential
      <4> QED
        BY <2>2, <4>1
    <3>2. /\ IsFiniteSet(Load(a, n) \cup {k})
          /\ Cardinality(Load(a, n) \cup {k}) =
                IF k \in Load(a, n) THEN Cardinality(Load(a, n))
                                    ELSE Cardinality(Load(a, n)) + 1
      BY <2>1, FS_AddElement
    <3>3. /\ IsFiniteSet(Potential(a)')
          /\ Cardinality(Potential(a)') <= Cardinality(Load(a, n) \cup {k})
      BY <3>1, <3>2, FS_Subset
    <3>4. Cardinality(Potential(a)') \in Nat /\ Cardinality(Load(a, n)) \in Nat
      BY <2>1, <3>3, FS_CardinalityType
    <3> QED
      BY <1>2, <1>4, <2>4, <3>2, <3>3, <3>4
  <2> QED
    BY <2>3, <2>4
<1>12. PotentialCapacity'
  BY <1>11 DEF PotentialCapacity
<1> QED
  BY <1>8, <1>9, <1>10, <1>12 DEF CapacityInv

\* A step that moves p to the record r, with its heartbeat not in flight.
LEMMA MoveCapacity ==
  ASSUME TableInv, CapacityInv, TypeOK', UNCHANGED clock, ClaimsShrink,
         NEW p \in Process, NEW r, proc' = [proc EXCEPT ![p] = r], r.now <= clock,
         r.pc \in {"scan", "claim"} =>
            proc[p].pc \in {"scan", "claim"} /\ r.now = proc[p].now,
         \/ UNCHANGED beat /\ ~beat[p].on
         \/ beat' = [beat EXCEPT ![p] = NoBeat]
  PROVE  CapacityInv'
<1>1. proc'[p] = r /\ \A q \in Process \ {p} : proc'[q] = proc[q] /\ beat'[q] = beat[q]
  BY DEF TableInv, TypeOK
<1>2. ~beat'[p].on /\ beat'[p].now <= clock
  <2>1. NoBeat.on = FALSE /\ NoBeat.now = 0
    BY DEF NoBeat
  <2>2. 0 <= clock
    BY DEF TableInv, TypeOK
  <2>3. CASE beat' = [beat EXCEPT ![p] = NoBeat]
    BY <2>1, <2>2, <2>3 DEF TableInv, TypeOK
  <2>4. CASE UNCHANGED beat /\ ~beat[p].on
    BY <2>4 DEF CapacityInv, ClockInv
  <2> QED
    BY <2>3, <2>4
<1> QED
  BY <1>1, <1>2, QuietProc

\* A process that goes idle keeps within capacity.
LEMMA IdleCapacity ==
  ASSUME TableInv, CapacityInv, TypeOK', UNCHANGED clock, ClaimsShrink,
         NEW p \in Process, Idle(p),
         \/ UNCHANGED beat /\ ~beat[p].on
         \/ beat' = [beat EXCEPT ![p] = NoBeat]
  PROVE  CapacityInv'
<1>1. IdleProc.pc = "idle" /\ IdleProc.now = 0
  BY DEF IdleProc
<1>2. 0 <= clock
  BY DEF TableInv, TypeOK
<1>3. proc' = [proc EXCEPT ![p] = IdleProc]
  BY DEF Idle
<1> QED
  BY <1>1, <1>2, <1>3, MoveCapacity

\* Tick, Scan and a refused claim keep within capacity.
LEMMA DispatchCapacity ==
  ASSUME TableInv, CapacityInv, TypeOK', NEW p \in Process,
         \/ \E i \in Item : Tick(p, i)
         \/ Scan(p)
         \/ Claim(p) /\ ~ClaimValid(p)
  PROVE  CapacityInv'
<1>1. UNCHANGED <<clock, claims, beat>> /\ ~beat[p].on
  BY DEF Tick, Scan, Claim, TableInv, HolderInv, Holds
<1>2. ClaimsShrink
  BY <1>1 DEF ClaimsShrink, ActiveClaim
<1>3. proc[p] \in ProcRecord /\ proc[p].now <= clock /\ clock \in Nat
  BY DEF TableInv, TypeOK, CapacityInv, ClockInv
<1>4. CASE Idle(p)
  BY <1>1, <1>2, <1>4, IdleCapacity
<1>5. ASSUME NEW i \in Item, Tick(p, i) PROVE CapacityInv'
  <2> DEFINE r == [IdleProc EXCEPT !.pc = "reclaim", !.now = clock, !.item = i]
  <2>1. r.pc = "reclaim" /\ r.now = clock
    BY DEF IdleProc
  <2>2. proc' = [proc EXCEPT ![p] = r]
    BY <1>5 DEF Tick
  <2>3. r.now <= clock
    BY <1>3, <2>1
  <2> HIDE DEF r
  <2> QED
    BY <1>1, <1>2, <2>1, <2>2, <2>3, MoveCapacity
<1>6. CASE Scan(p) /\ ~Idle(p)
  <2> DEFINE i == proc[p].item
  <2>1. PICK a \in Agent :
            proc' = [proc EXCEPT ![p].pc = "claim", ![p].seen = items[i],
                       ![p].lease = [item |-> i, seq |-> items[i].seq, agent |-> a]]
    BY <1>6 DEF Scan
  <2> DEFINE r == [proc[p] EXCEPT !.pc = "claim", !.seen = items[i],
                       !.lease = [item |-> i, seq |-> items[i].seq, agent |-> a]]
  <2>2. proc' = [proc EXCEPT ![p] = r]
    BY <1>3, <2>1 DEF TableInv, TypeOK
  <2>3. r.now = proc[p].now
    BY <1>3 DEF ProcRecord
  <2>4. proc[p].pc = "scan"
    BY <1>6 DEF Scan
  <2> HIDE DEF r
  <2> QED
    BY <1>1, <1>2, <1>3, <2>2, <2>3, <2>4, MoveCapacity
<1> QED
  BY <1>4, <1>5, <1>6 DEF Claim

\* The worker's steps after the claim keep within capacity.
LEMMA ExecuteCapacity ==
  ASSUME TableInv, CapacityInv, TypeOK', NEW p \in Process,
         \/ StartReadClock(p)
         \/ Start(p)
         \/ FinishRead(p)
         \/ Finish(p)
         \/ ReleaseRead(p)
         \/ ReleaseToStatus(p)
         \/ Abandon(p)
  PROVE  CapacityInv'
<1>1. UNCHANGED <<clock, beat>> /\ ~beat[p].on
  BY DEF StartReadClock, Start, FinishRead, Finish, ReleaseRead, ReleaseToStatus,
         Abandon, LifecycleFree, TableInv, HolderInv, Holds
<1>2. ClaimsShrink
  <2>1. CASE UNCHANGED claims
    BY <2>1 DEF ClaimsShrink, ActiveClaim
  <2>2. CASE claims' = [claims EXCEPT ![proc[p].lease].state = "RELEASED"]
    BY <2>2 DEF ClaimsShrink, ActiveClaim, TableInv, TypeOK, ClaimRecord
  <2> QED
    BY <2>1, <2>2 DEF StartReadClock, Start, FinishRead, Finish, Complete, ReleaseRead,
       ReleaseToStatus, Abandon
<1>3. proc[p] \in ProcRecord /\ clock \in Nat
  BY DEF TableInv, TypeOK
<1>4. CASE Idle(p)
  BY <1>1, <1>2, <1>4, IdleCapacity
<1>5. CASE \E pc \in {"start", "release"} :
              proc' = [proc EXCEPT ![p].pc = pc, ![p].now = clock]
  <2>1. PICK pc \in {"start", "release"} :
              proc' = [proc EXCEPT ![p].pc = pc, ![p].now = clock]
    BY <1>5
  <2> DEFINE r == [proc[p] EXCEPT !.pc = pc, !.now = clock]
  <2>2. proc' = [proc EXCEPT ![p] = r]
    BY <1>3, <2>1 DEF TableInv, TypeOK
  <2>3. r.now <= clock /\ r.pc \notin {"scan", "claim"}
    BY <1>3 DEF ProcRecord
  <2> HIDE DEF r
  <2> QED
    BY <1>1, <1>2, <2>2, <2>3, MoveCapacity
<1>6. CASE FinishRead(p)
  <2> DEFINE r == [proc[p] EXCEPT !.pc = "finish", !.now = clock,
                                  !.got = accepted[proc[p].item]]
  <2>1. proc' = [proc EXCEPT ![p] = r]
    BY <1>3, <1>6 DEF FinishRead, TableInv, TypeOK
  <2>2. r.now <= clock /\ r.pc \notin {"scan", "claim"}
    BY <1>3 DEF ProcRecord
  <2> HIDE DEF r
  <2> QED
    BY <1>1, <1>2, <2>1, <2>2, MoveCapacity
<1>7. CASE Start(p) /\ ~Idle(p)
  <2> DEFINE r == [proc[p] EXCEPT !.pc = "running", !.now = 0]
  <2>1. proc' = [proc EXCEPT ![p] = r]
    BY <1>3, <1>7 DEF Start, TableInv, TypeOK
  <2>2. r.now <= clock /\ r.pc \notin {"scan", "claim"}
    BY <1>3 DEF ProcRecord
  <2> HIDE DEF r
  <2> QED
    BY <1>1, <1>2, <2>1, <2>2, MoveCapacity
<1> QED
  BY <1>4, <1>5, <1>6, <1>7 DEF StartReadClock, ReleaseRead, GotoReadingClock, Finish,
     ReleaseToStatus, Abandon

\* So do a renewal that raises and a crash.
LEMMA StopCapacity ==
  ASSUME TableInv, CapacityInv, TypeOK', NEW p \in Process, Crash(p) \/ RenewError(p)
  PROVE  CapacityInv'
<1>1. UNCHANGED <<clock, claims>> /\ beat' = [beat EXCEPT ![p] = NoBeat]
  BY DEF Crash, RenewError
<1>2. ClaimsShrink
  BY <1>1 DEF ClaimsShrink, ActiveClaim
<1>3. CASE Crash(p)
  BY <1>1, <1>2, <1>3, IdleCapacity DEF Crash
<1>4. CASE RenewError(p)
  <2> DEFINE r == [proc[p] EXCEPT !.lost = TRUE]
  <2>1. proc[p] \in ProcRecord /\ proc[p].now <= clock /\ proc[p].pc = "running"
    BY <1>4 DEF RenewError, TableInv, HolderInv, Holds, TypeOK, CapacityInv, ClockInv
  <2>2. proc' = [proc EXCEPT ![p] = r]
    BY <1>4, <2>1 DEF RenewError, TableInv, TypeOK
  <2>3. r.now <= clock /\ r.pc \notin {"scan", "claim"}
    BY <2>1 DEF ProcRecord
  <2> HIDE DEF r
  <2> QED
    BY <1>1, <1>2, <2>2, <2>3, MoveCapacity
<1> QED
  BY <1>3, <1>4

\* So does the reclaim of a tick, which fences what the tick will ignore.
LEMMA ReclaimCapacity ==
  ASSUME TableInv, CapacityInv, TypeOK', NEW p \in Process, ReclaimExpired(p)
  PROVE  CapacityInv'
<1>1. /\ UNCHANGED <<clock, beat>> /\ ~beat[p].on /\ ExpireClaims(proc[p].now)
  BY DEF ReclaimExpired, TableInv, HolderInv, Holds
<1>2. proc[p] \in ProcRecord /\ proc[p].now \in Nat
  BY DEF TableInv, TypeOK, ProcRecord
<1>3. /\ proc'[p].now = proc[p].now
      /\ \A q \in Process \ {p} : proc'[q] = proc[q]
  BY <1>2 DEF ReclaimExpired, Goto, TableInv, TypeOK, ProcRecord
<1>4. /\ ClaimsShrink
      /\ \A l \in LeaseId : ActiveClaim(l)' => claims'[l].expires > proc[p].now
  BY <1>1, <1>2, ExpireShrinks
<1>5. proc[p].now <= clock /\ beat[p].now <= clock
  BY DEF CapacityInv, ClockInv
<1> QED
  BY <1>1, <1>3, <1>4, <1>5, QuietProc

\* So do the external signals, publications and the passing of time.
LEMMA SignalCapacity ==
  ASSUME TableInv, CapacityInv, TypeOK',
         Signal \/ Advance \/ UNCHANGED vars \/ \E p \in Process : AcceptArtifact(p)
  PROVE  CapacityInv'
<1>1. clock \in Nat
  BY DEF TableInv, TypeOK
<1>2. UNCHANGED <<proc, beat>> /\ (clock' = clock \/ clock' = clock + 1)
  BY DEF Signal, Admit, MakeReady, ResolveWait, SettleWait, CloseCancelled,
     RecoveryReclaim, Advance, vars, AcceptArtifact
<1>3. ClaimsShrink
  <2>1. CASE UNCHANGED claims
    BY <2>1 DEF ClaimsShrink, ActiveClaim
  <2>2. CASE RecoveryReclaim
    BY <1>1, <2>2, ExpireShrinks DEF RecoveryReclaim
  <2>3. ASSUME NEW t \in Task, CloseCancelled(t) PROVE ClaimsShrink
    <3>1. claims' = [l \in LeaseId |->
            IF ActiveClaim(l) /\ TaskOf[l.item] = t
            THEN [claims[l] EXCEPT !.state = "EXPIRED"]
            ELSE claims[l]]
      BY <2>3 DEF CloseCancelled
    <3> QED
      BY <3>1 DEF ClaimsShrink, ActiveClaim, TableInv, TypeOK, ClaimRecord
  <2> QED
    BY <2>1, <2>2, <2>3 DEF Signal, Admit, MakeReady, ResolveWait, SettleWait,
       Advance, vars, AcceptArtifact
<1> QED
  BY <1>1, <1>2, <1>3, QuietSignal

\* Every step keeps the capacity invariant, given that the tables agree.
LEMMA CapacityStep ==
  TableInv /\ TableInv' /\ CapacityInv /\ [Next]_vars => CapacityInv'
<1> SUFFICES ASSUME TableInv, TableInv', CapacityInv, [Next]_vars PROVE CapacityInv'
  OBVIOUS
<1>1. TypeOK'
  BY DEF TableInv
<1>2. ASSUME NEW p \in Process, Dispatch(p) PROVE CapacityInv'
  <2>1. CASE Claim(p) /\ ClaimValid(p)
    BY <1>1, <2>1, ClaimCapacity DEF Claim
  <2> QED
    BY <1>1, <1>2, <2>1, DispatchCapacity, ReclaimCapacity DEF Dispatch
<1>3. ASSUME NEW p \in Process, Execute(p) PROVE CapacityInv'
  BY <1>1, <1>3, ExecuteCapacity, SignalCapacity DEF Execute
<1>4. ASSUME NEW p \in Process, Heartbeat(p) PROVE CapacityInv'
  BY <1>1, <1>4, BeatCapacity, RenewCapacity, StopCapacity DEF Heartbeat
<1>5. ASSUME NEW p \in Process, Crash(p) PROVE CapacityInv'
  BY <1>1, <1>5, StopCapacity
<1>6. CASE Signal \/ Advance \/ UNCHANGED vars
  BY <1>1, <1>6, SignalCapacity
<1> QED
  BY <1>2, <1>3, <1>4, <1>5, <1>6 DEF Next

\* For any number of Agents, items, processes and heartbeats, any capacity and
\* any lease duration: the leases of an Agent that are unexpired at a real
\* instant never exceed max_parallel_assignments, although the claiming
\* transaction compares with a clock read before it, and renewals with another.
THEOREM LiveCapacityHolds == Spec => []LiveCapacity
<1>1. TableInv /\ CapacityInv => LiveCapacity
  <2> SUFFICES ASSUME TableInv, CapacityInv, NEW a \in Agent
               PROVE  Cardinality(Load(a, clock)) <= Capacity[a]
    BY DEF LiveCapacity
  <2> DEFINE S == {l \in LeaseId : ActiveClaim(l)}
  <2>1. Potential(a) \subseteq S /\ Load(a, clock) \subseteq Potential(a)
    BY DEF Potential, Load, LiveAt
  <2>2. IsFiniteSet(Potential(a))
    BY <2>1, FS_Subset DEF CapacityInv, FiniteActive
  <2>3. /\ IsFiniteSet(Load(a, clock))
        /\ Cardinality(Load(a, clock)) <= Cardinality(Potential(a))
    BY <2>1, <2>2, FS_Subset
  <2>4. Cardinality(Load(a, clock)) \in Nat /\ Cardinality(Potential(a)) \in Nat
    BY <2>2, <2>3, FS_CardinalityType
  <2>5. Cardinality(Potential(a)) <= Capacity[a] /\ Capacity[a] \in Nat
    BY QueueConstants DEF CapacityInv, PotentialCapacity
  <2> QED
    BY <2>3, <2>4, <2>5
<1>2. Init => TableInv /\ CapacityInv
  BY TableInit, CapacityInit
<1>3. (TableInv /\ CapacityInv) /\ [Next]_vars => (TableInv /\ CapacityInv)'
  BY TableStep, CapacityStep
<1> QED
  BY <1>1, <1>2, <1>3, PTL DEF Spec
=============================================================================
