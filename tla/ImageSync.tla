----------------------------- MODULE ImageSync ------------------------------
(***************************************************************************)
(* The images of one cluster, as the synchronisation of the cluster saves  *)
(* them: the running pods are listed, every image they run gets a row and  *)
(* a request to scan it, every namespace that runs it a row of its own,    *)
(* and at the end the rows are told which of them run.                     *)
(*                                                                         *)
(* Pods are modelled by what they run and where, their rows by PodSync.  A *)
(* row's id only matters for being the same or another one: a new row      *)
(* takes an id that no row has and no sync remembers.  Every sync goes     *)
(* through the images in one order, that of the list it is answered.       *)
(***************************************************************************)
EXTENDS ClusterSync

CONSTANTS
  HashOf,     \* an image is a name in a container's spec, with its hash
  Up          \* whether its container still runs: those of init end

ASSUME ImageSyncAssumption == Up \in [Images -> BOOLEAN]

VARIABLES
  images,     \* rows of images: [id -> [image, on]], on is running_in_cluster
  k8sImages,  \* rows of kubernetes_images: [id -> [space, hash]]
  idOf,       \* per sync: imageIdMapRunningInCluster, 0 for no id
  k8sIds,     \* per sync: kubernetesImageIds
  marks,      \* per sync: statements of updateRunningImages to run
  allSaved    \* per sync: allImagesSavedSuccessfully, and no error

imageTables == <<images, k8sImages>>
imageLocals == <<pc, listing, todo, idOf, k8sIds, marks, allSaved, alone>>
imageVars == <<running, imageTables, imageLocals, changes, faults>>

Statements == {"off", "on", "clear"}
Instances == Images \X Spaces
IsTable(t, S) == DOMAIN t \subseteq Ids /\ t \in [DOMAIN t -> S]

ImageTypeOK ==
  /\ running \subseteq Instances
  /\ IsTable(images, [image : Images, on : BOOLEAN])
  /\ IsTable(k8sImages, [space : Spaces, hash : {HashOf[i] : i \in Images}])
  /\ pc \in [Syncs -> {"idle", "find", "check", "create", "findK8s", "createK8s",
                       "mark", "end"}]
  /\ listing \in [Syncs -> SUBSET Instances]
  /\ todo \in [Syncs -> SUBSET Instances]
  /\ idOf \in [Syncs -> [Images -> Ids \cup {0}]]
  /\ k8sIds \in [Syncs -> SUBSET Ids]
  /\ marks \in [Syncs -> SUBSET (Statements \cup {"threw"})]
  /\ allSaved \in [Syncs -> BOOLEAN]
  /\ alone \in [Syncs -> BOOLEAN]
  /\ changes \in 0 .. MaxChanges /\ faults \in 0 .. MaxFaults

Empty == [id \in {} |-> {}]
NoIds == [i \in Images |-> 0]

ImageInit ==
  /\ running \in SUBSET Instances
  /\ images = Empty /\ k8sImages = Empty
  /\ pc = [p \in Syncs |-> "idle"]
  /\ listing = [p \in Syncs |-> {}]
  /\ todo = [p \in Syncs |-> {}]
  /\ idOf = [p \in Syncs |-> NoIds]
  /\ k8sIds = [p \in Syncs |-> {}]
  /\ marks = [p \in Syncs |-> {}]
  /\ allSaved = [p \in Syncs |-> TRUE]
  /\ alone = [p \in Syncs |-> TRUE]
  /\ changes = 0 /\ faults = 0

-----------------------------------------------------------------------------
(* The cluster *)

Starts(w) ==
  /\ changes < MaxChanges /\ w \notin running
  /\ running' = running \cup {w} /\ changes' = changes + 1
  /\ UNCHANGED <<imageTables, imageLocals, faults>>

Stops(w) ==
  /\ changes < MaxChanges /\ w \in running
  /\ running' = running \ {w} /\ changes' = changes + 1
  /\ UNCHANGED <<imageTables, imageLocals, faults>>

-----------------------------------------------------------------------------
(* Rows and loops *)

With(table, id, row) ==
  [k \in DOMAIN table \cup {id} |-> IF k = id THEN row ELSE table[k]]

ImageIds(p) == {idOf[p][i] : i \in Images} \ {0}
FreeIds(table, remembered) ==
  (Ids \ DOMAIN table) \ UNION {remembered[p] : p \in Syncs}

(* The first image still to do, and the first pod that runs it.            *)
Instance(p) ==
  LET i == CHOOSE i \in Images : \E n \in Spaces : <<i, n>> \in todo[p]
  IN  <<i, CHOOSE n \in Spaces : <<i, n>> \in todo[p]>>
Image(p) == Instance(p)[1]
Space(p) == Instance(p)[2]

(* A wrong search: rows that are not marked running are not found.         *)
RunningRows(i) == {id \in DOMAIN images : images[id] = [image |-> i, on |-> TRUE]}
ImageRows(i) == {id \in DOMAIN images : images[id].image = i}
K8sRows(space, hash) ==
  {id \in DOMAIN k8sImages : k8sImages[id] = [space |-> space, hash |-> hash]}

(* A wrong list: the answer's first index is kept for the row's id.        *)
KeepsIndex(p, id) == k8sIds' = [k8sIds EXCEPT ![p] = @ \cup {0}]
Keeps(p, id) == k8sIds' = [k8sIds EXCEPT ![p] = @ \cup {id}]

(* After the last instance the tables are told which images run.           *)
NextInstance(p) ==
  LET rest == todo[p] \ {Instance(p)}
  IN  /\ todo' = [todo EXCEPT ![p] = rest]
      /\ Goes(p, IF rest = {} THEN "mark" ELSE "find")
      /\ marks' = [marks EXCEPT ![p] = IF rest = {} THEN Statements ELSE {}]

-----------------------------------------------------------------------------
(* Images *)

(* The pods are listed, and what could not be listed writes nothing.           *)
Start(p) ==
  /\ At(p, "idle")
  /\ listing' = [listing EXCEPT ![p] = running]
  /\ todo' = [todo EXCEPT ![p] = running]
  /\ Goes(p, IF running = {} THEN "mark" ELSE "find")
  /\ marks' = [marks EXCEPT ![p] = IF running = {} THEN Statements ELSE {}]
  /\ Meets(p)
  /\ UNCHANGED <<running, imageTables, idOf, k8sIds, allSaved, changes, faults>>

(* Rows of the same name and hash are looked for.                          *)
FindImage(p) ==
  /\ At(p, "find")
  /\ IF ImageRows(Image(p)) = {} THEN Goes(p, "check") /\ UNCHANGED idOf
     ELSE \E id \in ImageRows(Image(p)) :
            /\ idOf' = [idOf EXCEPT ![p][Image(p)] = id]
            /\ Goes(p, "findK8s")
  /\ UNCHANGED <<running, imageTables, listing, todo, k8sIds, marks, allSaved,
                 alone, changes, faults>>

(* A wrong sync: what failed is logged only.                               *)
FailedSilently(p) == UNCHANGED allSaved
Failed(p) == allSaved' = [allSaved EXCEPT ![p] = FALSE]

(* createImage looks once more and throws when the row is there by now.    *)
CheckImage(p) ==
  /\ At(p, "check")
  /\ IF ImageRows(Image(p)) = {}
     THEN Goes(p, "create") /\ UNCHANGED <<todo, marks, allSaved>>
     ELSE NextInstance(p) /\ Failed(p)
  /\ UNCHANGED <<running, imageTables, listing, idOf, k8sIds, alone,
                 changes, faults>>

(* A scan is requested of the new row, which throws without a policy: the  *)
(* row stays and its id is not kept.                                       *)
CreateImage(p) ==
  LET free == FreeIds(images, [q \in Syncs |-> ImageIds(q)])
      id == CHOOSE k \in free : TRUE
  IN  /\ At(p, "create") /\ free # {}
      /\ images' = With(images, id, [image |-> Image(p), on |-> Up[Image(p)]])
      /\ \/ /\ idOf' = [idOf EXCEPT ![p][Image(p)] = id]
            /\ Goes(p, "findK8s")
            /\ UNCHANGED <<todo, marks, allSaved>>
         \/ NextInstance(p) /\ Failed(p) /\ UNCHANGED idOf
      /\ UNCHANGED <<running, k8sImages, listing, k8sIds, 
                     alone, changes, faults>>

(* One row per namespace and hash.                                         *)
FindK8sImage(p) ==
  LET found == K8sRows(Space(p), HashOf[Image(p)])
  IN  /\ At(p, "findK8s")
      /\ IF found = {} THEN Goes(p, "createK8s") /\ UNCHANGED <<todo, marks, k8sIds>>
         ELSE NextInstance(p) /\ \E id \in found : Keeps(p, id)
      /\ UNCHANGED <<running, imageTables, listing, idOf, allSaved, alone, changes,
                     faults>>

(* The row stays when its event cannot be stored, but the sync has failed. *)
CreateK8sImage(p) ==
  LET free == FreeIds(k8sImages, k8sIds)
      id == CHOOSE k \in free : TRUE
  IN  /\ At(p, "createK8s") /\ free # {}
      /\ k8sImages' = With(k8sImages, id,
                           [space |-> Space(p), hash |-> HashOf[Image(p)]])
      /\ NextInstance(p) /\ Keeps(p, id)
      /\ \/ UNCHANGED <<allSaved, faults>>
         \/ Fault /\ Failed(p)
      /\ UNCHANGED <<running, images, listing, idOf, alone, changes>>

(* Each of these queries may fail: the next image is taken.                *)
ImageFails(p) ==
  /\ pc[p] \in {"find", "check", "create", "findK8s", "createK8s"}
  /\ Fault /\ NextInstance(p) /\ Failed(p)
  /\ UNCHANGED <<running, imageTables, listing, idOf, k8sIds, alone, changes>>

(* A container that has no status yet ends syncPods.                       *)
NoStatus(p) ==
  /\ At(p, "find") /\ Fault /\ Goes(p, "end") /\ Failed(p)
  /\ todo' = [todo EXCEPT ![p] = {}]
  /\ UNCHANGED <<running, imageTables, listing, idOf, k8sIds, marks, alone, changes>>

-----------------------------------------------------------------------------
(* Which images run *)

(* A wrong update: rows are never told that they do not run.               *)
MarkedOnly(p, on) ==
  [k \in DOMAIN images |->
     IF on /\ k \in ImageIds(p) THEN [images[k] EXCEPT !.on = on] ELSE images[k]]

Marked(p, on) ==
  [k \in DOMAIN images |->
     IF (k \in ImageIds(p) <=> on) THEN [images[k] EXCEPT !.on = on] ELSE images[k]]

(* The three statements are sent at once; when the last has answered the   *)
(* pods are saved, unless one of them failed.                              *)
Answered(p, statement, answer) ==
  LET left == (marks[p] \ {statement}) \cup answer
      over == left \cap Statements = {}
  IN  /\ marks' = [marks EXCEPT ![p] = IF over THEN {} ELSE left]
      /\ IF ~over THEN UNCHANGED <<pc, allSaved>>
         ELSE IF "threw" \in left THEN Goes(p, "end") /\ Failed(p)
         ELSE Goes(p, "end") /\ UNCHANGED allSaved
      /\ UNCHANGED <<running, listing, todo, idOf, alone, changes>>

MarkOff(p) ==
  /\ "off" \in marks[p] /\ images' = Marked(p, FALSE)
  /\ Answered(p, "off", {}) /\ UNCHANGED <<k8sImages, k8sIds, faults>>

MarkOn(p) ==
  /\ "on" \in marks[p] /\ images' = Marked(p, TRUE)
  /\ Answered(p, "on", {}) /\ UNCHANGED <<k8sImages, k8sIds, faults>>

ClearK8sImages(p) ==
  /\ "clear" \in marks[p]
  /\ k8sImages' = [k \in DOMAIN k8sImages \cap k8sIds[p] |-> k8sImages[k]]
  /\ k8sIds' = [k8sIds EXCEPT ![p] = {}]
  /\ Answered(p, "clear", {}) /\ UNCHANGED <<images, faults>>

MarkFails(p) ==
  /\ \E statement \in marks[p] \cap Statements : Answered(p, statement, {"threw"})
  /\ Fault /\ UNCHANGED <<images, k8sImages, k8sIds>>

-----------------------------------------------------------------------------
(* The end *)

ForgottenImages(ps) ==
  /\ pc' = Reset(pc, ps, "idle")
  /\ listing' = Reset(listing, ps, {}) /\ todo' = Reset(todo, ps, {})
  /\ idOf' = Reset(idOf, ps, NoIds) /\ k8sIds' = Reset(k8sIds, ps, {})
  /\ marks' = Reset(marks, ps, {})
  /\ allSaved' = Reset(allSaved, ps, TRUE) /\ alone' = Reset(alone, ps, TRUE)

ImagesDone(p) ==
  /\ At(p, "end") /\ ForgottenImages({p})
  /\ UNCHANGED <<running, imageTables, changes, faults>>

(* The process ends with all its syncs.                                    *)
ImageCrash ==
  /\ \E p \in Syncs : pc[p] # "idle"
  /\ Fault /\ ForgottenImages(Syncs)
  /\ UNCHANGED <<running, imageTables, changes>>

ImageStep(p) ==
  \/ FindImage(p) \/ CheckImage(p) \/ CreateImage(p)
  \/ FindK8sImage(p) \/ CreateK8sImage(p)
  \/ MarkOff(p) \/ MarkOn(p) \/ ClearK8sImages(p)
  \/ ImagesDone(p)

ImageNext ==
  \/ \E w \in Instances : Starts(w) \/ Stops(w)
  \/ \E p \in Syncs : Start(p) \/ ImageStep(p) \/ ImageFails(p) \/ NoStatus(p) \/ MarkFails(p)
  \/ ImageCrash

ImageSpec == ImageInit /\ [][ImageNext]_imageVars

(* Queries answer, and the cron job starts a sync again and again.         *)
FairImageSpec ==
  ImageSpec /\ \A p \in Syncs : WF_imageVars(ImageStep(p)) /\ WF_imageVars(Start(p))

-----------------------------------------------------------------------------
(* Properties *)

(* A sync that ran alone and saved everything has left exactly its images   *)
(* running, and one row for every namespace and hash it saw, none else.    *)
(* It need not have met clean tables: failed, overlapping and killed syncs *)
(* came before it (saveK8sImages, updateRunningImages).                    *)
MirrorsImages(seen) ==
  /\ {images[k].image : k \in {l \in DOMAIN images : images[l].on}}
       = {w[1] : w \in seen}
  /\ {k8sImages[k] : k \in DOMAIN k8sImages}
       = {[space |-> w[2], hash |-> HashOf[w[1]]] : w \in seen}
SuccessMirrorsTheCluster ==
  \A p \in Syncs : At(p, "end") /\ alone[p] /\ allSaved[p] => MirrorsImages(listing[p])

(* However syncs overlap, an image gets no more rows than there are syncs  *)
(* (createImage looks for the row before it inserts one).                  *)
FewRowsPerImage ==
  \A i \in Images :
    Cardinality({k \in DOMAIN images : images[k].image = i}) <= Cardinality(Syncs)

(* Whatever overlapping, failed and killed syncs have left behind: once    *)
(* the cluster is quiet, nothing fails and no two syncs are in progress at *)
(* a time, the tables show between the syncs what runs.  During a sync     *)
(* they may not, when an image has two rows and the sync takes the other.  *)
OneAtATime == \A p, q \in Syncs : At(p, "idle") \/ At(q, "idle") \/ p = q
TablesAreMended == <>[]OneAtATime => <>[](Quiet => MirrorsImages(running))
=============================================================================
