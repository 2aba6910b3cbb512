------------------------------ MODULE PodSync -------------------------------
(***************************************************************************)
(* The namespaces and pods of one cluster, as the synchronisation of the   *)
(* cluster saves them.  Namespaces first: they are listed, saved by        *)
(* promises nobody waits for, and the rows of names that were not listed   *)
(* are deleted.  Then the running pods are listed, their images saved (see *)
(* ImageSync), every pod is found or inserted and linked to its images,    *)
(* and the rows of names that were not listed are deleted.  Syncs overlap, *)
(* and every step is a query of its own (linkExistingPodImages opens a     *)
(* transaction and does not use it).                                       *)
(*                                                                         *)
(* Equal rows of a namespace count as one, and an image has one row.  A    *)
(* link needs its pod's row and is there once: the keys of pod_images.     *)
(***************************************************************************)
EXTENDS ClusterSync

CONSTANTS
  Pods,
  SpaceOf,
  NameOf,       \* unique among the pods that run in a namespace, no further
  ImagesOf      \* images of a pod's containers

ASSUME PodSyncAssumption ==
  /\ SpaceOf \in [Pods -> Spaces]
  /\ ImagesOf \in [Pods -> (SUBSET Images) \ {{}}]

VARIABLES
  uid,        \* uids of the namespaces in the cluster, 0 for none
  spaceRows,  \* rows of kubernetes_namespaces: <<name, uid>>
  podRows,    \* rows of kubernetes_pods: [id -> [space, name, links]]
  saves,      \* saveK8sNamespaces in progress
  spaces,     \* per sync: namespaces it has listed
  doomed,     \* per sync: namespacesToBeDeleted
  saved,      \* per sync: images that saveK8sImages has ids for
  rows,       \* per sync: the ids of the pods it works on
  failed      \* per sync: somePodsFailed, or an error that ends it

cluster == <<uid, running, changes>>
podTables == <<spaceRows, podRows>>
spaceVars == <<saves, spaces, doomed>>
podVars == <<listing, saved, todo, rows>>
podSyncVars == <<cluster, podTables, spaceVars, podVars, pc, failed, alone, faults>>

Uids == 0 .. (MaxChanges + 1)
SpaceRows == Spaces \X (Uids \ {0})
Saves == [sync : Syncs, row : SpaceRows, step : {"check", "insert"}]

PodTypeOK ==
  /\ uid \in [Spaces -> Uids] /\ running \subseteq Pods
  /\ spaceRows \subseteq SpaceRows
  /\ DOMAIN podRows \subseteq Ids
  /\ podRows \in [DOMAIN podRows -> [space : Spaces, name : {NameOf[q] : q \in Pods},
                                     links : SUBSET Images]]
  /\ saves \subseteq Saves
  /\ pc \in [Syncs -> {"idle", "spaces", "drop", "list", "pod", "create", "unlink",
                       "link", "dead", "unlinkDead", "dropDead", "end"}]
  /\ spaces \in [Syncs -> SUBSET Spaces] /\ doomed \in [Syncs -> SUBSET Spaces]
  /\ listing \in [Syncs -> SUBSET Pods] /\ saved \in [Syncs -> SUBSET Images]
  /\ todo \in [Syncs -> SUBSET Pods] /\ rows \in [Syncs -> SUBSET Ids]
  /\ failed \in [Syncs -> BOOLEAN] /\ alone \in [Syncs -> BOOLEAN]
  /\ changes \in 0 .. MaxChanges /\ faults \in 0 .. MaxFaults

SamePod(q, r) == SpaceOf[q] = SpaceOf[r] /\ NameOf[q] = NameOf[r]

PodInit ==
  /\ uid \in [Spaces -> {0, 1}]
  /\ running \in SUBSET {q \in Pods : uid[SpaceOf[q]] # 0}
  /\ \A q, r \in running : SamePod(q, r) => q = r
  /\ spaceRows = {} /\ podRows = [id \in {} |-> {}]
  /\ saves = {}
  /\ pc = [p \in Syncs |-> "idle"]
  /\ spaces = [p \in Syncs |-> {}] /\ doomed = [p \in Syncs |-> {}]
  /\ listing = [p \in Syncs |-> {}] /\ saved = [p \in Syncs |-> {}]
  /\ todo = [p \in Syncs |-> {}] /\ rows = [p \in Syncs |-> {}]
  /\ failed = [p \in Syncs |-> FALSE] /\ alone = [p \in Syncs |-> TRUE]
  /\ changes = 0 /\ faults = 0

-----------------------------------------------------------------------------
(* The cluster *)

Changed ==
  /\ changes < MaxChanges /\ changes' = changes + 1
  /\ UNCHANGED <<podTables, spaceVars, podVars, pc, failed, alone, faults>>

(* A namespace that comes back has another uid.                            *)
SpaceStarts(n) ==
  /\ uid[n] = 0 /\ uid' = [uid EXCEPT ![n] = changes + 2]
  /\ UNCHANGED running /\ Changed

(* Its pods go with it.                                                    *)
SpaceStops(n) ==
  /\ uid[n] # 0 /\ uid' = [uid EXCEPT ![n] = 0]
  /\ running' = {q \in running : SpaceOf[q] # n}
  /\ Changed

(* A pod that starts may replace another of its name.                      *)
PodStarts(q) ==
  /\ uid[SpaceOf[q]] # 0 /\ q \notin running
  /\ running' = {r \in running : ~SamePod(q, r)} \cup {q}
  /\ UNCHANGED uid /\ Changed

PodStops(q) ==
  /\ q \in running /\ running' = running \ {q}
  /\ UNCHANGED uid /\ Changed

-----------------------------------------------------------------------------
(* Namespaces *)

Fails(p) == failed' = [failed EXCEPT ![p] = TRUE]

(* A wrong row: name and uid are exchanged.                                *)
SwappedRow(n) == <<uid[n], n>>
SpaceRow(n) == <<n, uid[n]>>

(* Every namespace of the answer is saved by a promise of its own.  Where  *)
(* there is no answer the pods are synchronised all the same.              *)
ListSpaces(p) ==
  LET found == {n \in Spaces : uid[n] # 0}
  IN  /\ At(p, "idle") /\ Meets(p)
      /\ \/ /\ Goes(p, "spaces")
            /\ spaces' = [spaces EXCEPT ![p] = found]
            /\ saves' = saves \cup
                 {[sync |-> p, row |-> SpaceRow(n), step |-> "check"] : n \in found}
            /\ UNCHANGED <<failed, faults>>
         \/ Goes(p, "list") /\ Fault /\ Fails(p) /\ UNCHANGED <<spaces, saves>>
      /\ UNCHANGED <<cluster, podTables, doomed, podVars>>

SaveChecks(s) ==
  /\ s.step = "check"
  /\ saves' = (saves \ {s}) \cup
       (IF s.row \in spaceRows THEN {} ELSE {[s EXCEPT !.step = "insert"]})
  /\ UNCHANGED <<cluster, podTables, spaces, doomed, podVars, pc, failed, alone, faults>>

SaveInserts(s) ==
  /\ s.step = "insert" /\ saves' = saves \ {s}
  /\ spaceRows' = spaceRows \cup {s.row}
  /\ UNCHANGED <<cluster, podRows, spaces, doomed, podVars, pc, failed, alone, faults>>

(* Nothing but an event tells of it.                                       *)
SaveFails(s) ==
  /\ s.step = "insert" /\ Fault /\ saves' = saves \ {s}
  /\ UNCHANGED <<cluster, podTables, spaces, doomed, podVars, pc, failed, alone>>

(* A wrong difference: names that were listed and are not in the table.    *)
UnsavedSpaces(p) == spaces[p] \ {r[1] : r \in spaceRows}
DeadSpaces(p) == {r[1] : r \in spaceRows} \ spaces[p]

FindDeadSpaces(p) ==
  LET dead == DeadSpaces(p)
  IN  /\ At(p, "spaces") /\ Goes(p, IF dead = {} THEN "list" ELSE "drop")
      /\ doomed' = [doomed EXCEPT ![p] = dead]
      /\ spaces' = [spaces EXCEPT ![p] = {}]
      /\ UNCHANGED <<cluster, podTables, saves, podVars, failed, alone, faults>>

DropSpaces(p) ==
  /\ At(p, "drop") /\ Goes(p, "list")
  /\ spaceRows' = {r \in spaceRows : r[1] \notin doomed[p]}
  /\ doomed' = [doomed EXCEPT ![p] = {}]
  /\ UNCHANGED <<cluster, podRows, saves, spaces, podVars, failed, alone, faults>>

SpacesFail(p) ==
  /\ pc[p] \in {"spaces", "drop"} /\ Goes(p, "list")
  /\ Fault /\ Fails(p)
  /\ spaces' = [spaces EXCEPT ![p] = {}] /\ doomed' = [doomed EXCEPT ![p] = {}]
  /\ UNCHANGED <<cluster, podTables, saves, podVars, alone>>

-----------------------------------------------------------------------------
(* Pods *)

PodRowsOf(q) == {id \in DOMAIN podRows :
  podRows[id].space = SpaceOf[q] /\ podRows[id].name = NameOf[q]}
FreePodIds == (Ids \ DOMAIN podRows) \ UNION {rows[p] : p \in Syncs}
Pod(p) == CHOOSE q \in Pods : q \in todo[p]

ListPods(p) ==
  LET used == UNION {ImagesOf[q] : q \in running}
  IN  /\ At(p, "list") /\ Goes(p, IF running = {} THEN "dead" ELSE "pod")
      /\ listing' = [listing EXCEPT ![p] = running]
      /\ todo' = [todo EXCEPT ![p] = running]
      /\ \/ saved' = [saved EXCEPT ![p] = used] /\ UNCHANGED <<failed, faults>>
         \/ /\ \E i \in used : saved' = [saved EXCEPT ![p] = used \ {i}]
            /\ Fault /\ Fails(p)
      /\ UNCHANGED <<cluster, podTables, spaceVars, rows, alone>>

(* Neither the list nor the images could be had: syncPods ends.            *)
ListFails(p) ==
  /\ At(p, "list") /\ Goes(p, "end") /\ Fault /\ Fails(p)
  /\ UNCHANGED <<cluster, podTables, spaceVars, podVars, alone>>

FindPod(p) ==
  /\ At(p, "pod")
  /\ IF PodRowsOf(Pod(p)) = {} THEN Goes(p, "create") /\ UNCHANGED rows
     ELSE /\ Goes(p, "unlink")
          /\ \E id \in PodRowsOf(Pod(p)) : rows' = [rows EXCEPT ![p] = {id}]
  /\ UNCHANGED <<cluster, podTables, spaceVars, listing, saved, todo, failed, alone, faults>>

CreatePod(p) ==
  LET row == [space |-> SpaceOf[Pod(p)], name |-> NameOf[Pod(p)], links |-> {}]
      id == CHOOSE k \in FreePodIds : TRUE
  IN  /\ At(p, "create") /\ Goes(p, "link") /\ FreePodIds # {}
      /\ podRows' = [k \in DOMAIN podRows \cup {id} |->
                       IF k = id THEN row ELSE podRows[k]]
      /\ rows' = [rows EXCEPT ![p] = {id}]
      /\ UNCHANGED <<cluster, spaceRows, spaceVars, listing, saved, todo, failed, alone,
                     faults>>

(* A wrong relinking: the links of before stay.                            *)
StillLinked(ids) == podRows
Unlinked(ids) ==
  [k \in DOMAIN podRows |->
     IF k \in ids THEN [podRows[k] EXCEPT !.links = {}] ELSE podRows[k]]

Unlink(p) ==
  /\ At(p, "unlink") /\ Goes(p, "link")
  /\ podRows' = Unlinked(rows[p])
  /\ UNCHANGED <<cluster, spaceRows, spaceVars, podVars, failed, alone, faults>>

NextPod(p) ==
  LET rest == todo[p] \ {Pod(p)}
  IN  /\ todo' = [todo EXCEPT ![p] = rest]
      /\ rows' = [rows EXCEPT ![p] = {}]
      /\ Goes(p, IF rest = {} THEN "dead" ELSE "pod")

(* Images without an id are left out.                                      *)
NewLinks(p) == ImagesOf[Pod(p)] \cap saved[p]
Row(p) == CHOOSE k \in rows[p] : TRUE
Fits(p) ==
  \/ NewLinks(p) = {}
  \/ Row(p) \in DOMAIN podRows /\ podRows[Row(p)].links \cap NewLinks(p) = {}
WithLinks(p) ==
  [k \in DOMAIN podRows |->
     IF k = Row(p) THEN [podRows[k] EXCEPT !.links = @ \cup NewLinks(p)]
     ELSE podRows[k]]

Link(p) ==
  /\ At(p, "link") /\ NextPod(p)
  /\ podRows' = IF Fits(p) THEN WithLinks(p) ELSE podRows
  /\ failed' = [failed EXCEPT ![p] = @ \/ ~Fits(p)]
  /\ UNCHANGED <<cluster, spaceRows, spaceVars, listing, saved, alone, faults>>

(* The next pod is taken; an event tells of it, the result does not.  An   *)
(* error of the commit comes when the links are there.                     *)
PodFails(p) ==
  /\ pc[p] \in {"pod", "unlink", "link"} /\ NextPod(p)
  /\ Fault /\ Fails(p)
  /\ \/ podRows' = podRows
     \/ At(p, "link") /\ Fits(p) /\ podRows' = WithLinks(p)
  /\ UNCHANGED <<cluster, spaceRows, spaceVars, listing, saved, alone>>

-----------------------------------------------------------------------------
(* Dead pods *)

(* A wrong list of names: that of the pods still to save.                  *)
UnsavedNames(p) == {NameOf[q] : q \in todo[p]}
Names(p) == {NameOf[q] : q \in listing[p]}

FindDeadPods(p) ==
  LET dead == {id \in DOMAIN podRows : podRows[id].name \notin Names(p)}
  IN  /\ At(p, "dead") /\ Goes(p, IF dead = {} THEN "end" ELSE "unlinkDead")
      /\ rows' = [rows EXCEPT ![p] = dead]
      /\ UNCHANGED <<cluster, podTables, spaceVars, listing, saved, todo, failed, alone,
                     faults>>

UnlinkDead(p) ==
  /\ At(p, "unlinkDead") /\ Goes(p, "dropDead")
  /\ podRows' = Unlinked(rows[p])
  /\ UNCHANGED <<cluster, spaceRows, spaceVars, podVars, failed, alone, faults>>

(* No row goes when one of them is linked again.                           *)
DropDead(p) ==
  LET held == \E id \in rows[p] \cap DOMAIN podRows : podRows[id].links # {}
  IN  /\ At(p, "dropDead") /\ Goes(p, "end")
      /\ rows' = [rows EXCEPT ![p] = {}]
      /\ failed' = [failed EXCEPT ![p] = @ \/ held]
      /\ podRows' = IF held THEN podRows
                    ELSE [k \in DOMAIN podRows \ rows[p] |-> podRows[k]]
      /\ UNCHANGED <<cluster, spaceRows, spaceVars, listing, saved, todo, alone, faults>>

DeadFails(p) ==
  /\ pc[p] \in {"dead", "unlinkDead", "dropDead"} /\ Goes(p, "end")
  /\ Fault /\ Fails(p)
  /\ rows' = [rows EXCEPT ![p] = {}]
  /\ UNCHANGED <<cluster, podTables, spaceVars, listing, saved, todo, alone>>

-----------------------------------------------------------------------------
(* The end *)

ForgottenPods(ps) ==
  /\ pc' = Reset(pc, ps, "idle")
  /\ spaces' = Reset(spaces, ps, {}) /\ doomed' = Reset(doomed, ps, {})
  /\ listing' = Reset(listing, ps, {}) /\ saved' = Reset(saved, ps, {})
  /\ todo' = Reset(todo, ps, {}) /\ rows' = Reset(rows, ps, {})
  /\ failed' = Reset(failed, ps, FALSE) /\ alone' = Reset(alone, ps, TRUE)

PodsDone(p) ==
  /\ At(p, "end") /\ ForgottenPods({p})
  /\ UNCHANGED <<cluster, podTables, saves, faults>>

(* The process ends, also when a pod cannot be inserted or a namespace     *)
(* looked up: promises that nobody handles reject.                         *)
PodCrash ==
  /\ saves # {} \/ \E p \in Syncs : pc[p] # "idle"
  /\ Fault /\ ForgottenPods(Syncs) /\ saves' = {}
  /\ UNCHANGED <<cluster, podTables>>

PodStep(p) ==
  \/ FindDeadSpaces(p) \/ DropSpaces(p)
  \/ ListPods(p) \/ FindPod(p) \/ CreatePod(p) \/ Unlink(p) \/ Link(p)
  \/ FindDeadPods(p) \/ UnlinkDead(p) \/ DropDead(p)
  \/ PodsDone(p)
Saving(p, n, step) ==
  \E s \in saves : /\ s.sync = p /\ s.row[1] = n /\ s.step = step
                   /\ SaveChecks(s) \/ SaveInserts(s)

PodNext ==
  \/ \E n \in Spaces : SpaceStarts(n) \/ SpaceStops(n)
  \/ \E q \in Pods : PodStarts(q) \/ PodStops(q)
  \/ \E s \in saves : SaveChecks(s) \/ SaveInserts(s) \/ SaveFails(s)
  \/ \E p \in Syncs : ListSpaces(p) \/ PodStep(p) \/ SpacesFail(p) \/ ListFails(p)
                        \/ PodFails(p) \/ DeadFails(p)
  \/ PodCrash

PodSpec == PodInit /\ [][PodNext]_podSyncVars

(* Queries answer, and the cron job starts a sync again and again.         *)
PodFairness ==
  /\ \A p \in Syncs : WF_podSyncVars(ListSpaces(p) \/ PodStep(p))
  /\ \A p \in Syncs, n \in Spaces, step \in {"check", "insert"} :
       WF_podSyncVars(Saving(p, n, step))

FairPodSpec == PodSpec /\ PodFairness

-----------------------------------------------------------------------------
(* Properties *)

(* A sync that ran alone without an error has left a row for every pod it  *)
(* saw, linked to the pod's images, and no row of a name it did not see.   *)
(* It need not have met clean tables: failed, overlapping and killed syncs *)
(* came before it (saveK8sPods, savePod, deleteDeadPods).                  *)
MirrorsPods(p) ==
  /\ \A q \in listing[p] :
       \E k \in PodRowsOf(q) : podRows[k].links = ImagesOf[q]
  /\ \A k \in DOMAIN podRows : podRows[k].name \in Names(p)
SuccessMirrorsThePods ==
  \A p \in Syncs : At(p, "end") /\ alone[p] /\ ~failed[p] => MirrorsPods(p)

(* Once the cluster is quiet and nothing fails, every running pod has a    *)
(* row and every row the name of a running pod, for good: whatever syncs   *)
(* with older lists were still going, and however they overlap.            *)
PodsConverge ==
  <>[](/\ \A q \in running : PodRowsOf(q) # {}
       /\ \A k \in DOMAIN podRows : \E q \in running : NameOf[q] = podRows[k].name)

(* And the namespaces of the table are those of the cluster, for good,     *)
(* although inserts of older lists may come after later deletions.         *)
SpacesConverge ==
  <>[]({r[1] : r \in spaceRows} = {n \in Spaces : uid[n] # 0})
=============================================================================
