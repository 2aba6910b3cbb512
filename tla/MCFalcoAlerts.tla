--------------------------- MODULE MCFalcoAlerts ---------------------------
(* Instances of FalcoAlerts for TLC. *)
EXTENDS FalcoAlerts, TLC

MCHome == [s \in Signatures |-> CHOOSE c \in Clusters : TRUE]
=============================================================================
