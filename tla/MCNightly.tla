----------------------------- MODULE MCNightly -----------------------------
(* Instances of Nightly for TLC. *)
EXTENDS Nightly, TLC

MCHome == [i \in Images |-> CHOOSE c \in Clusters : TRUE]
MCSpace == [p \in Pods |-> CHOOSE s \in Spaces : TRUE]
=============================================================================
