----------------------------- MODULE MCClusters -----------------------------
(* Instances of Clusters for TLC. *)
EXTENDS Clusters, TLC

CONSTANTS n1, n2, k1, k2

(* Two creations, a plain edit, the wizard run again for another           *)
(* Kubernetes, and a call of the API that switches enforcement on.         *)
MCBodies ==
  {[Nothing EXCEPT !.name = n1, !.kube = k1],
   [Nothing EXCEPT !.name = n2, !.kube = k2],
   [Nothing EXCEPT !.name = n1],
   [Nothing EXCEPT !.name = n1, !.kube = k1, !.enforced = TRUE]}

Symmetry == Permutations(Requests)
=============================================================================
