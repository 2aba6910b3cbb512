------------------------------ MODULE Nightly ------------------------------
(***************************************************************************)
(* The nightly job.  It copies the namespaces and pods of yesterday into   *)
(* the history, judges the copied pods, asks for a new scan of the running *)
(* images that have become due, and judges the copied namespaces by their  *)
(* pods.  Meanwhile cluster syncs change what is running, policies are     *)
(* edited, and scans end, those that others have asked for too.            *)
(*                                                                         *)
(* Age of a scan is the number of midnights since; MaxGrace of them are as *)
(* good as no scan at all.  Whether a pod complies is chosen (the rules    *)
(* are those of ImageCompliance).  History tables of clusters, deployments *)
(* and images are copied in the same way and read by nobody here.          *)
(***************************************************************************)
EXTENDS Naturals, FiniteSets

CONSTANTS
  Clusters,
  Images,
  Home,        \* the cluster of an image
  Policies,    \* enabled, and relevant for every cluster
  MaxGrace,    \* bound: longest rescan_grace_period, in days
  Pods,
  Spaces,
  Space,       \* the namespace of a pod
  MaxChanges,  \* bound: changes by syncs, administrators and other requests
  MaxFaults    \* bound: queries that fail, crashes

ASSUME NightlyAssumption ==
  /\ Home \in [Images -> Clusters] /\ Space \in [Pods -> Spaces]
  /\ MaxGrace \in Nat \ {0} /\ {MaxChanges, MaxFaults} \subseteq Nat
  /\ Images # {}

VARIABLES
  grace,      \* rescan_grace_period
  age,        \* of the last scan of an image
  pending,    \* images with scans requested and not ended
  marked,     \* images with running_in_cluster
  pods,       \* rows of kubernetes_pods with their verdicts
  spaces,     \* rows of kubernetes_namespaces with theirs
  podRows,    \* rows of yesterday in history_kubernetes_pods
  spaceRows,  \* and in history_kubernetes_namespaces
  step,       \* what the job does next
  left,       \* clusters not yet looked at
  list,       \* running images not yet looked at, with lastScanned as read
  terms,      \* periods of the policies as read
  image,      \* the image it is at, with the age on the list
  rest,       \* policies it has not been compared with
  changes,
  faults,
  clean       \* whether the job has met no error

live == <<grace, marked, pods, spaces, changes>>
scans == <<age, pending>>
rows == <<podRows, spaceRows>>
loop == <<left, list, terms, image, rest>>
vars == <<live, scans, rows, step, loop, faults, clean>>

Ages == 0 .. MaxGrace
NoTerms == [p \in Policies |-> 0]
NoImage == [id |-> CHOOSE i \in Images : TRUE, age |-> 0]
Verdicts(S) == UNION {[T -> BOOLEAN] : T \in SUBSET S}
Lists == UNION {[T -> Ages] : T \in SUBSET Images}
Nobody == [x \in {} |-> TRUE]

TypeOK ==
  /\ grace \in [Policies -> Ages]
  /\ age \in [Images -> Ages]
  /\ pending \subseteq Images /\ marked \subseteq Images
  /\ pods \in Verdicts(Pods) /\ podRows \in Verdicts(Pods)
  /\ spaces \in Verdicts(Spaces) /\ spaceRows \in Verdicts(Spaces)
  /\ step \in {"idle", "spaces", "pods", "judgePods", "cluster", "image",
               "policy", "judgeSpaces"}
  /\ left \subseteq Clusters
  /\ list \in Lists
  /\ terms \in [Policies -> Ages]
  /\ image \in [id : Images, age : Ages]
  /\ rest \subseteq Policies
  /\ changes \in 0 .. MaxChanges /\ faults \in 0 .. MaxFaults
  /\ clean \in BOOLEAN

Init ==
  /\ grace \in [Policies -> Ages]
  /\ age = [i \in Images |-> MaxGrace] /\ pending = {}
  /\ marked = Images
  /\ pods = [p \in Pods |-> TRUE] /\ spaces = [s \in Spaces |-> TRUE]
  /\ podRows = Nobody /\ spaceRows = Nobody
  /\ step = "idle"
  /\ left = {} /\ list = Nobody /\ terms = NoTerms
  /\ image = NoImage /\ rest = {}
  /\ changes = 0 /\ faults = 0 /\ clean = TRUE

Fault == faults < MaxFaults /\ faults' = faults + 1
Goes(from, to) == step = from /\ step' = to

-----------------------------------------------------------------------------
(* The history *)

Older(a) == IF a < MaxGrace THEN a + 1 ELSE MaxGrace

(* One minute after midnight, once yesterday's job is over; a new day has  *)
(* no rows, which makes deleting them first a precaution for reruns.       *)
Midnight ==
  /\ Goes("idle", "spaces")
  /\ age' = [i \in Images |-> Older(age[i])]
  /\ podRows' = Nobody /\ spaceRows' = Nobody
  /\ clean' = TRUE
  /\ UNCHANGED <<live, pending, loop, faults>>

(* One by one; what cannot be saved is logged and left out.                *)
CopySpaces(saved) ==
  /\ Goes("spaces", "pods")
  /\ saved \subseteq DOMAIN spaces
  /\ spaceRows' = [s \in saved |-> spaces[s]]
  /\ IF saved = DOMAIN spaces THEN UNCHANGED faults ELSE Fault
  /\ UNCHANGED <<live, scans, podRows, loop, clean>>

CopyPods(saved) ==
  /\ Goes("pods", "judgePods")
  /\ saved \subseteq DOMAIN pods
  /\ podRows' = [p \in saved |-> pods[p]]
  /\ IF saved = DOMAIN pods THEN UNCHANGED faults ELSE Fault
  /\ UNCHANGED <<live, scans, spaceRows, loop, clean>>

(* calculateHistoricalPodNamespaceCompliance: pods that are running and    *)
(* have a running image are judged, the others keep what was copied.       *)
JudgePods(judged, compliant) ==
  /\ Goes("judgePods", "cluster")
  /\ judged \subseteq DOMAIN podRows /\ compliant \subseteq judged
  /\ podRows' = [p \in DOMAIN podRows |->
                   IF p \in judged THEN p \in compliant ELSE podRows[p]]
  /\ left' = Clusters
  /\ UNCHANGED <<live, scans, spaceRows, list, terms, image, rest, faults, clean>>

(* A wrong verdict: that of the pods as they are now.                      *)
AllComplyNow(s) == \A p \in DOMAIN pods : Space[p] = s => pods[p]
AllComply(s) == \A p \in DOMAIN podRows : Space[p] = s => podRows[p]

(* Only namespaces with pods of that day are read, for the join has the    *)
(* day of the pods in its WHERE.                                           *)
JudgeSpaces ==
  /\ Goes("judgeSpaces", "idle")
  /\ spaceRows' = [s \in DOMAIN spaceRows |->
       IF \E p \in DOMAIN podRows : Space[p] = s THEN AllComply(s) ELSE spaceRows[s]]
  /\ UNCHANGED <<live, scans, podRows, loop, faults, clean>>

(* An error that nothing catches, or a crash.                              *)
RunFails ==
  /\ step # "idle" /\ Fault
  /\ step' = "idle" /\ clean' = FALSE
  /\ left' = {} /\ list' = Nobody /\ terms' = NoTerms /\ image' = NoImage /\ rest' = {}
  /\ UNCHANGED <<live, scans, rows>>

-----------------------------------------------------------------------------
(* rescanIfNeeded *)

(* The images and then the policies; an error of the latter ends the       *)
(* cluster.                                                                *)
ReadCluster(c) ==
  /\ step = "cluster" /\ c \in left
  /\ left' = left \ {c}
  /\ \/ /\ list' = [i \in {j \in marked : Home[j] = c} |-> age[i]]
        /\ terms' = grace
        /\ step' = "image" /\ UNCHANGED faults
     \/ Fault /\ UNCHANGED <<list, terms, step>>
  /\ UNCHANGED <<live, scans, rows, image, rest, clean>>

ClustersDone ==
  /\ Goes("cluster", "judgeSpaces") /\ left = {}
  /\ UNCHANGED <<live, scans, rows, loop, faults, clean>>

NextImage(i) ==
  /\ Goes("image", "policy")
  /\ i \in DOMAIN list
  /\ image' = [id |-> i, age |-> list[i]] /\ rest' = Policies
  /\ list' = [j \in DOMAIN list \ {i} |-> list[j]]
  /\ UNCHANGED <<live, scans, rows, left, terms, faults, clean>>

ImagesDone ==
  /\ Goes("image", "cluster") /\ list = Nobody
  /\ terms' = NoTerms
  /\ UNCHANGED <<live, scans, rows, left, list, image, rest, faults, clean>>

(* Due one day before the period is over.  At what time of the day a scan  *)
(* ended decides when that is tonight.                                     *)
MayBeDue(a, g) == a + 1 >= g
(* A wrong comparison: rescans only on the very day.                       *)
DueToday(a, g) == a = g /\ g < MaxGrace
MustBeDue(a, g) == a >= g

Skip(p) ==
  /\ step = "policy" /\ p \in rest
  /\ ~MustBeDue(image.age, terms[p])
  /\ rest' = rest \ {p}
  /\ UNCHANGED <<live, scans, rows, step, left, list, terms, image, faults, clean>>

(* createImageScanByImageId; a message that is not taken is no error.      *)
Request(p) ==
  /\ step = "policy" /\ p \in rest
  /\ MayBeDue(image.age, terms[p])
  /\ rest' = rest \ {p}
  /\ \/ pending' = pending \cup {image.id} /\ UNCHANGED faults
     \/ Fault /\ UNCHANGED pending
  /\ UNCHANGED <<live, age, rows, step, left, list, terms, image, clean>>

PoliciesDone ==
  /\ Goes("policy", "image") /\ rest = {}
  /\ image' = NoImage
  /\ UNCHANGED <<live, scans, rows, left, list, terms, rest, faults, clean>>

(* A request that throws: the cluster's other images get no turn.          *)
RequestThrows ==
  /\ Goes("policy", "cluster") /\ rest # {} /\ Fault
  /\ list' = Nobody /\ terms' = NoTerms /\ image' = NoImage /\ rest' = {}
  /\ UNCHANGED <<live, scans, rows, left, clean>>

-----------------------------------------------------------------------------
(* Everybody else *)

ScanEnds(i) ==
  /\ i \in pending
  /\ pending' = pending \ {i}
  /\ \/ age' = [age EXCEPT ![i] = 0] /\ UNCHANGED faults
     \/ Fault /\ UNCHANGED age
  /\ UNCHANGED <<live, rows, step, loop, clean>>

Change == changes < MaxChanges /\ changes' = changes + 1
others == <<rows, step, loop, faults, clean>>

SetGrace(p, g) ==
  /\ Change /\ grace' = [grace EXCEPT ![p] = g]
  /\ UNCHANGED <<scans, marked, pods, spaces, others>>

(* A cluster sync.                                                         *)
Mark(i) ==
  /\ Change
  /\ marked' = IF i \in marked THEN marked \ {i} ELSE marked \cup {i}
  /\ UNCHANGED <<scans, grace, pods, spaces, others>>

ChangePods(p, verdicts) ==
  /\ Change
  /\ pods' = [q \in (DOMAIN pods \ {p}) \cup DOMAIN verdicts |->
                IF q = p THEN verdicts[p] ELSE pods[q]]
  /\ UNCHANGED <<scans, grace, marked, spaces, others>>

ChangeSpaces(s, verdicts) ==
  /\ Change
  /\ spaces' = [q \in (DOMAIN spaces \ {s}) \cup DOMAIN verdicts |->
                  IF q = s THEN verdicts[s] ELSE spaces[q]]
  /\ UNCHANGED <<scans, grace, marked, pods, others>>

RequestElsewhere(i) ==
  /\ Change /\ pending' = pending \cup {i}
  /\ UNCHANGED <<age, grace, marked, pods, spaces, others>>

-----------------------------------------------------------------------------
Job ==
  \/ CopySpaces(DOMAIN spaces) \/ CopyPods(DOMAIN pods) \/ JudgeSpaces
  \/ \E T \in SUBSET Pods : \E U \in SUBSET T : JudgePods(T, U)
  \/ \E c \in Clusters : ReadCluster(c)
  \/ ClustersDone \/ ImagesDone \/ PoliciesDone
  \/ \E i \in Images : NextImage(i)
  \/ \E p \in Policies : Skip(p) \/ Request(p)

Next ==
  \/ Midnight \/ Job \/ RunFails \/ RequestThrows
  \/ \E T \in SUBSET Pods : CopyPods(T)
  \/ \E S \in SUBSET Spaces : CopySpaces(S)
  \/ \E i \in Images : ScanEnds(i) \/ Mark(i) \/ RequestElsewhere(i)
  \/ \E p \in Policies, g \in Ages : SetGrace(p, g)
  \/ \E p \in Pods : \E v \in Verdicts({p}) : ChangePods(p, v)
  \/ \E s \in Spaces : \E v \in Verdicts({s}) : ChangeSpaces(s, v)

Spec == Init /\ [][Next]_vars

(* Days pass, the job is not stuck for ever, and requested scans end.      *)
FairSpec ==
  /\ Spec
  /\ WF_vars(Midnight) /\ WF_vars(Job)
  /\ \A i \in Images : WF_vars(ScanEnds(i))

-----------------------------------------------------------------------------
(* Properties *)

(* An image that stays in its cluster is scanned again and again, although *)
(* requests throw for other images, jobs break off, the list is older than *)
(* the scans that end meanwhile, and policies are edited.                  *)
RescansGoOn ==
  \A i \in Images : <>[](i \in marked) => []<>(age[i] = 0)

(* A job that met no error leaves namespaces whose verdicts are those of   *)
(* the pods beside them in the history, whatever syncs do meanwhile.       *)
VerdictsAgree ==
  step = "idle" /\ clean =>
    \A s \in DOMAIN spaceRows :
      (\E p \in DOMAIN podRows : Space[p] = s) => (spaceRows[s] <=> AllComply(s))

=============================================================================
