-------------------------- MODULE MCJointDelivery --------------------------
(***************************************************************************)
(* Instances of JointDelivery for TLC: two directories and two designs, a  *)
(* complex one that changes both and a simple one that changes the first.  *)
(***************************************************************************)
EXTENDS JointDelivery, TLC

CONSTANTS u1, u2, d1, d2

MCUnit == {u1, u2}
MCDesign == {d1, d2}
MCWrites == (d1 :> {u1, u2}) @@ (d2 :> {u1})

\* Two products may be shown, a design may be made again after a recheck and a plan
\* after a failed integration; a stage stops at its first transient failure.
SafetyLimit == [k \in ModelStage |-> 2]
OneTransient == [k \in ModelStage |-> 1]

\* A transient failure of the Planner is tried again.
LiveLimit == [k \in ModelStage |-> IF k = "plan" THEN 2 ELSE 1]
LiveTransient == [k \in ModelStage |-> IF k = "plan" THEN 2 ELSE 1]
=============================================================================
