---------------------------- MODULE ClusterSync ----------------------------
(***************************************************************************)
(* What the two halves of a cluster's synchronisation have in common:      *)
(* ImageSync, which saves the images that run, and PodSync, which saves    *)
(* namespaces and pods.  A cron job, a new cluster and a changed one all   *)
(* start syncs and nothing keeps two of them apart; the tables know        *)
(* nothing of them, and every step of a sync is a query of its own.        *)
(***************************************************************************)
EXTENDS Naturals, FiniteSets

CONSTANTS
  Images,
  Spaces,       \* names of namespaces
  Syncs,        \* syncs in progress at once
  Ids,          \* bound: ids of rows
  MaxChanges,   \* bound: changes in the cluster
  MaxFaults     \* bound: queries and calls that fail, crashes

ASSUME SyncAssumption ==
  /\ IsFiniteSet(Syncs)
  /\ 0 \notin Ids
  /\ {MaxChanges, MaxFaults} \subseteq Nat

VARIABLES
  running,    \* what runs in the cluster
  pc,         \* per sync: what it does next
  listing,    \* per sync: what it was told is running
  todo,       \* per sync: what of it is still to save
  alone,      \* per sync: no other sync was in progress meanwhile
  changes,
  faults

At(p, step) == pc[p] = step
Goes(p, step) == pc' = [pc EXCEPT ![p] = step]
Fault == faults < MaxFaults /\ faults' = faults + 1

Others(p) == {q \in Syncs \ {p} : pc[q] # "idle"}

(* A sync that starts is not alone with those in progress, nor they with it.*)
Meets(p) ==
  alone' = [q \in Syncs |-> IF q = p THEN Others(p) = {}
                             ELSE alone[q] /\ q \notin Others(p)]

(* What syncs that have ended remember.                                    *)
Reset(f, ps, value) == [p \in Syncs |-> IF p \in ps THEN value ELSE f[p]]

Quiet == \A p \in Syncs : At(p, "idle")
=============================================================================
