---------------------------- MODULE MCWorkQueue ----------------------------
(***************************************************************************)
(* Instances of WorkQueue for TLC.  In the serial instance one Task is     *)
(* delivered by a Coder step, its retry and a QA step; in the portfolio    *)
(* instance two Tasks with one Coder step each compete for one Agent; in   *)
(* the single instance one step is dispatched again and again.             *)
(***************************************************************************)
EXTENDS WorkQueue, TLC

CONSTANTS c1, c2, q1, t1, t2

MCRoles == {"CODER", "QA"}
MCEligible == [a \in Agent |-> MCRoles]
MCCapacity == [a \in Agent |-> 1]

SerialItem == {c1, c2, q1}
SerialTaskOf == [i \in SerialItem |-> t1]
SerialRoleOf == [i \in SerialItem |-> IF i = q1 THEN "QA" ELSE "CODER"]

PortfolioItem == {c1, c2}
PortfolioTaskOf == (c1 :> t1) @@ (c2 :> t2)
PortfolioRoleOf == [i \in PortfolioItem |-> "CODER"]

SingleItem == {c1}
SingleTaskOf == [i \in SingleItem |-> t1]
SingleRoleOf == [i \in SingleItem |-> "CODER"]

\* Processes run the same code and agents have the same profile.
MCSymmetry == Permutations(Process) \cup Permutations(Agent)
=============================================================================
