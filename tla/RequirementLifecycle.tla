------------------------ MODULE RequirementLifecycle ------------------------
(***************************************************************************)
(* What a Requirement promises to the people and services around it,       *)
(* whatever stages, models and repositories are behind it: a draft is      *)
(* engineered only after one product was approved, the approval is never   *)
(* given again or exchanged, a delivered repository stays delivered, and   *)
(* a Requirement is done only when exactly the planned repositories were   *)
(* delivered.  It may be stopped, continued, closed and restarted.         *)
(***************************************************************************)
EXTENDS Naturals

CONSTANT Unit   \* the code directories a Requirement may select

VARIABLES
    phase,      \* the coarse stage
    approved,   \* the approved version of the product, 0 before the approval
    planned,    \* the directories the committed plan changes, {} without one
    delivered   \* the directories whose delivery is complete

lifecycleVars == <<phase, approved, planned, delivered>>

Phase == {"draft", "engineering", "stopped", "closed", "done"}

LifecycleTypeOK ==
    /\ phase \in Phase
    /\ approved \in Nat
    /\ planned \subseteq Unit
    /\ delivered \subseteq Unit

Init ==
    /\ phase = "draft"
    /\ approved = 0
    /\ planned = {}
    /\ delivered = {}

Approve ==
    /\ phase = "draft"
    /\ approved = 0
    /\ approved' \in Nat \ {0}
    /\ phase' = "engineering"
    /\ UNCHANGED <<planned, delivered>>

\* A plan is committed when there is none, and must cover what is delivered.
Plan ==
    /\ phase = "engineering"
    /\ planned = {}
    /\ planned' \in (SUBSET Unit) \ {{}}
    /\ delivered \subseteq planned'
    /\ UNCHANGED <<phase, approved, delivered>>

Deliver ==
    /\ phase = "engineering"
    /\ \E u \in planned \ delivered : delivered' = delivered \cup {u}
    /\ UNCHANGED <<phase, approved, planned>>

\* A draft stops when it cannot be prepared, engineering when it is blocked.
Stop ==
    /\ phase \in {"draft", "engineering"}
    /\ phase' = "stopped"
    /\ UNCHANGED <<approved, planned, delivered>>

\* The work goes on with the committed plan or is planned again.
Continue ==
    /\ phase = "stopped"
    /\ approved # 0
    /\ phase' = "engineering"
    /\ planned' \in {planned, {}}
    /\ UNCHANGED <<approved, delivered>>

Complete ==
    /\ phase \in {"engineering", "stopped"}
    /\ approved # 0
    /\ planned # {}
    /\ delivered = planned
    /\ phase' = "done"
    /\ UNCHANGED <<approved, planned, delivered>>

Close ==
    /\ phase \in {"draft", "engineering", "stopped"}
    /\ phase' = "closed"
    /\ UNCHANGED <<approved, planned, delivered>>

Restart ==
    /\ phase = "closed"
    /\ phase' = "stopped"
    /\ UNCHANGED <<approved, planned, delivered>>

Next == Approve \/ Plan \/ Deliver \/ Stop \/ Continue \/ Complete \/ Close \/ Restart

Spec == Init /\ [][Next]_lifecycleVars
=============================================================================
