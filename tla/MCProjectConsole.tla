-------------------------- MODULE MCProjectConsole --------------------------
(***************************************************************************)
(* ProjectConsole for TLC: two operations of two deliveries, so that one   *)
(* is queued or left behind while the other runs.                          *)
(***************************************************************************)
EXTENDS ProjectConsole, TLC

CONSTANTS o1, o2, d1, d2

MCOp == {o1, o2}
MCDeliveryOf == (o1 :> d1) @@ (o2 :> d2)
=============================================================================
