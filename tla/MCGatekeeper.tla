---------------------------- MODULE MCGatekeeper ----------------------------
(* Instances of Gatekeeper for TLC. *)
EXTENDS Gatekeeper, TLC

CONSTANTS n1, n2

(* The other namespace is known to an exception only.                      *)
MCNamespaces == {n1, n2}
MCKnown == [c \in Clusters |-> {n1}]

(* Exceptions without a namespace or for the unknown one, and a single one *)
(* that is not active.                                                     *)
MCWritten ==
  {b \in Bodies :
     /\ b.spaces \in {{}, {n2}}
     /\ ~b.active => b.spaces = {} /\ b.image = AnyImage /\ b.clusters = {}}
=============================================================================
