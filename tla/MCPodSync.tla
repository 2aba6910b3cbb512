----------------------------- MODULE MCPodSync ------------------------------
(* Instances of PodSync for TLC. *)
EXTENDS PodSync, TLC

CONSTANTS a, b, i, n, x

(* Two pods that follow each other under one name, with other images.      *)
OneSpace == [q \in Pods |-> n]
OneName == [q \in Pods |-> x]
OwnImage == [q \in Pods |-> IF q = a THEN {i} ELSE Images \ {i}]

(* The two pods can be exchanged, with their images: what can happen when  *)
(* b runs at first happens to a when a does.                               *)
FromA == PodInit /\ running \subseteq {a}
FairFromA == FromA /\ [][PodNext]_podSyncVars /\ PodFairness
=============================================================================
