--------------------------- MODULE MCTaskDelivery ---------------------------
(***************************************************************************)
(* The instance of TaskDelivery for TLC: one role with a transient failure *)
(* that is retried.                                                        *)
(***************************************************************************)
EXTENDS TaskDelivery

CoderTransient == [r \in DeliveryRole |-> IF r = "CODER" THEN 2 ELSE 1]
=============================================================================
