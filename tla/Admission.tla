----------------------------- MODULE Admission ------------------------------
(***************************************************************************)
(* The admission webhook of one cluster.  A request looks up the images of *)
(* a pod's containers by name and tag, creates and queues the unknown ones *)
(* for a scan, holds the pod back while one is unscanned and not excepted, *)
(* and otherwise asks pod compliance about each image.  Meanwhile scans    *)
(* end, other requests run, the cluster sync and the API register images,  *)
(* tags move and administrators change settings.  Every awaited call after *)
(* which another handler can be seen is a step of its own.                 *)
(*                                                                         *)
(* ScanPipeline models in detail what is one step here (Scan), and         *)
(* ImageCompliance what is one predicate (Complies).                       *)
(***************************************************************************)
EXTENDS Naturals, Sequences, FiniteSets

CONSTANTS
  Refs,         \* image references, host/name:tag
  Digests,      \* contents that a reference can resolve to
  NoHash,       \* docker_image_id '' of images that the webhook creates
  TmpHash,      \* docker_image_id 'TMP_...' of images that the API creates
  Requests,     \* webhook requests that may be handled at once
  PodSpecs,     \* pods: the references of their containers
  DefaultAllow, \* ADMISSION_CONTROLLER_DEFAULT_ACTION is allow
  Changes,      \* what may change under the requests
  MaxAdded,     \* bound: rows of images up to which API and sync add more
  Faults        \* awaited calls may fail, scans may be lost or fail

ASSUME AdmissionAssumption ==
  /\ NoHash \notin Digests /\ TmpHash \notin Digests /\ NoHash # TmpHash
  /\ PodSpecs \subseteq SUBSET Refs
  /\ Changes \subseteq {"enforcement", "policies", "exceptions", "verdicts",
                        "tags", "api", "sync"}
  /\ Refs # {} /\ MaxAdded \in Nat
  /\ {DefaultAllow, Faults} \subseteq BOOLEAN

VARIABLES
  enforcement, \* clusters.is_enforcement_enabled
  policies,    \* an enabled policy applies to the cluster
  excepted,    \* references with an exception for every scanner and issue
  compliant,   \* contents whose scan results comply with the policies
  tag,         \* per reference: the content in the registry
  image,       \* the rows of images
  queue,       \* rows with a scan job under way
  phase,       \* per request: the call it waits for
  pod,         \* per request: the pod
  todo,        \* per request: containers not yet looked at
  ref,         \* per request: the container looked at
  row,         \* per request: the row it has created, 0 before
  waived,      \* per request: containers let through by an exception
  check,       \* per request: imagesToCheckCompliance
  held,        \* per request: something speaks against the pod
  answer       \* per request: the last answer

settingVars == <<enforcement, policies, excepted, compliant, tag>>
imageVars == <<image, queue>>
requestVars == <<phase, pod, todo, ref, row, waived, check, held, answer>>
vars == <<settingVars, imageVars, requestVars>>

Images == [ref : Refs, hash : Digests \cup {NoHash, TmpHash},
           scan : {"none", "found", "error"}]
Phases == {"idle", "next", "create", "insert", "request", "exceptions",
           "evaluate"}
Answers == {"none", "skipped", "admitted", "held", "error"}

TypeOK ==
  /\ enforcement \in BOOLEAN /\ policies \in BOOLEAN
  /\ excepted \in SUBSET Refs /\ compliant \in SUBSET Digests
  /\ tag \in [Refs -> Digests]
  /\ image \in Seq(Images) /\ queue \in SUBSET (1 .. Len(image))
  /\ phase \in [Requests -> Phases]
  /\ pod \in [Requests -> PodSpecs]
  /\ todo \in [Requests -> SUBSET Refs]
  /\ ref \in [Requests -> Refs]
  /\ row \in [Requests -> 0 .. Len(image)]
  /\ \A e \in Requests : phase[e] = "request" => row[e] # 0
  /\ waived \in [Requests -> SUBSET Refs]
  /\ check \in [Requests -> SUBSET (1 .. Len(image))]
  /\ held \in [Requests -> BOOLEAN]
  /\ answer \in [Requests -> Answers]

Init ==
  /\ enforcement = TRUE /\ policies = TRUE
  /\ excepted = {}
  /\ compliant \in SUBSET Digests
  /\ tag \in [Refs -> Digests]
  /\ image = <<>> /\ queue = {}
  /\ phase = [e \in Requests |-> "idle"]
  /\ pod \in [Requests -> PodSpecs]
  /\ todo = [e \in Requests |-> {}]
  /\ ref = [e \in Requests |-> CHOOSE r \in Refs : TRUE]
  /\ row = [e \in Requests |-> 0]
  /\ waived = [e \in Requests |-> {}]
  /\ check = [e \in Requests |-> {}]
  /\ held = [e \in Requests |-> FALSE]
  /\ answer = [e \in Requests |-> "none"]

(* Each request creates at most one row per reference.                     *)
Ids == 1 .. MaxAdded + Cardinality(Requests) * Cardinality(Refs)

Rows(r) == {i \in 1 .. Len(image) : image[i].ref = r}

(* A wrong order: the oldest row first.                                    *)
Oldest(r) == {i \in Rows(r) : \A k \in Rows(r) : i <= k}

(* getImageByClusterHostNameTag: ordered by id, newest first.              *)
Newest(r) == {i \in Rows(r) : \A k \in Rows(r) : k <= i}

(* Pod compliance of one image: an error or a missing result fails it.     *)
Complies(i) ==
  /\ image[i].scan = "found"
  /\ image[i].hash \in compliant \/ image[i].ref \in excepted

Move(e, from, to) ==
  /\ phase[e] = from
  /\ phase' = [phase EXCEPT ![e] = to]

(* A request is answered; what it knew is gone with it.                    *)
Answer(e, from, given) ==
  /\ Move(e, from, "idle")
  /\ answer' = [answer EXCEPT ![e] = given]
  /\ todo' = [todo EXCEPT ![e] = {}]
  /\ row' = [row EXCEPT ![e] = 0]
  /\ check' = [check EXCEPT ![e] = {}]
  /\ held' = [held EXCEPT ![e] = FALSE]

-----------------------------------------------------------------------------
(* One request: validateRequest *)

(* A request comes in and the cluster is read.                             *)
Submit(e, p) ==
  /\ pod' = [pod EXCEPT ![e] = p]
  /\ waived' = [waived EXCEPT ![e] = {}]
  /\ \/ /\ enforcement
        /\ Move(e, "idle", "next")
        /\ answer' = [answer EXCEPT ![e] = "none"]
        /\ todo' = [todo EXCEPT ![e] = p]
        /\ UNCHANGED <<row, check, held>>
     \/ ~enforcement /\ Answer(e, "idle", "skipped")
  /\ UNCHANGED <<settingVars, imageVars, ref>>

(* A wrong Lookup: a row is enough, scanned or not.                        *)
LookupAnyRow(e, r) ==
  /\ r \in todo[e]
  /\ ref' = [ref EXCEPT ![e] = r]
  /\ IF Rows(r) = {}
       THEN Move(e, "next", "create") /\ UNCHANGED <<todo, check>>
       ELSE /\ Move(e, "next", "next")
            /\ check' = [check EXCEPT ![e] = @ \cup Newest(r)]
            /\ todo' = [todo EXCEPT ![e] = @ \ {r}]
  /\ UNCHANGED <<settingVars, imageVars, pod, row, waived, held, answer>>

(* The image of the next container: unknown, unscanned or scanned.         *)
Lookup(e, r) ==
  /\ r \in todo[e]
  /\ \/ /\ Rows(r) = {}
        /\ Move(e, "next", "create")
        /\ ref' = [ref EXCEPT ![e] = r]
        /\ UNCHANGED <<todo, check>>
     \/ \E i \in Newest(r) :
          /\ image[i].scan = "none"
          /\ Move(e, "next", "exceptions")
          /\ ref' = [ref EXCEPT ![e] = r]
          /\ UNCHANGED <<todo, check>>
     \/ \E i \in Newest(r) :
          /\ image[i].scan # "none"
          /\ Move(e, "next", "next")
          /\ check' = [check EXCEPT ![e] = @ \cup {i}]
          /\ todo' = [todo EXCEPT ![e] = @ \ {r}]
          /\ UNCHANGED ref
  /\ UNCHANGED <<settingVars, imageVars, pod, row, waived, held, answer>>

(* checkIfImageAlreadyExists: another request was faster.                  *)
CheckImage(e) ==
  /\ IF \E i \in Rows(ref[e]) : image[i].hash = NoHash
       THEN Answer(e, "create", "error")
       ELSE /\ Move(e, "create", "insert")
            /\ UNCHANGED <<todo, row, check, held, answer>>
  /\ UNCHANGED <<settingVars, imageVars, pod, ref, waived>>

(* createImage: the row and its id, with an empty hash.                    *)
InsertImage(e) ==
  /\ Move(e, "insert", "request")
  /\ image' = Append(image, [ref |-> ref[e], hash |-> NoHash, scan |-> "none"])
  /\ row' = [row EXCEPT ![e] = Len(image) + 1]
  /\ UNCHANGED <<settingVars, queue, pod, todo, ref, waived, check, held,
                 answer>>

(* A wrong createImage: the scan is skipped.                               *)
InsertOnly(e) ==
  /\ Move(e, "request", "exceptions")
  /\ row' = [row EXCEPT ![e] = 0]
  /\ UNCHANGED <<settingVars, imageVars, pod, todo, ref, waived, check, held,
                 answer>>

(* createImageScanByImageId: without a policy it throws although the row   *)
(* is stored; a message that is not sent goes unnoticed.                   *)
RequestScan(e) ==
  /\ \/ /\ policies
        /\ Move(e, "request", "exceptions")
        /\ row' = [row EXCEPT ![e] = 0]
        /\ \/ queue' = queue \cup {row[e]}
           \/ Faults /\ UNCHANGED queue
        /\ UNCHANGED <<todo, check, held, answer>>
     \/ /\ ~policies
        /\ Answer(e, "request", "error")
        /\ UNCHANGED queue
  /\ UNCHANGED <<settingVars, image, pod, ref, waived>>

(* Wrong bookkeeping: the last new or unscanned container decides.         *)
ReadLastExceptions(e) ==
  /\ Move(e, "exceptions", "next")
  /\ todo' = [todo EXCEPT ![e] = @ \ {ref[e]}]
  /\ held' = [held EXCEPT ![e] = ref[e] \notin excepted]
  /\ waived' = IF ref[e] \in excepted
                  THEN [waived EXCEPT ![e] = @ \cup {ref[e]}] ELSE waived
  /\ UNCHANGED <<settingVars, imageVars, pod, ref, row, check, answer>>

(* A new or unscanned image needs an exception that names no policy,       *)
(* scanner or issue.                                                       *)
ReadExceptions(e) ==
  /\ Move(e, "exceptions", "next")
  /\ todo' = [todo EXCEPT ![e] = @ \ {ref[e]}]
  /\ IF ref[e] \in excepted
       THEN waived' = [waived EXCEPT ![e] = @ \cup {ref[e]}] /\ UNCHANGED held
       ELSE held' = [held EXCEPT ![e] = TRUE] /\ UNCHANGED waived
  /\ UNCHANGED <<settingVars, imageVars, pod, ref, row, check, answer>>

(* All containers are looked up: unscanned images fail the pod at once.    *)
LookedUp(e) ==
  /\ todo[e] = {}
  /\ IF held[e]
       THEN Answer(e, "next", "held")
       ELSE /\ Move(e, "next", "evaluate")
            /\ UNCHANGED <<todo, row, check, held, answer>>
  /\ UNCHANGED <<settingVars, imageVars, pod, ref, waived>>

(* calculatePodCompliance, one image after the other.                      *)
EvaluateImage(e, i) ==
  /\ Move(e, "evaluate", "evaluate")
  /\ i \in check[e]
  /\ check' = [check EXCEPT ![e] = @ \ {i}]
  /\ held' = [held EXCEPT ![e] = @ \/ ~Complies(i)]
  /\ UNCHANGED <<settingVars, imageVars, pod, todo, ref, row, waived, answer>>

Decide(e) ==
  /\ check[e] = {}
  /\ Answer(e, "evaluate", IF held[e] THEN "held" ELSE "admitted")
  /\ UNCHANGED <<settingVars, imageVars, pod, ref, waived>>

(* The controller catches whatever is thrown and gives the default answer. *)
Fail(e) ==
  /\ Faults
  /\ phase[e] # "idle"
  /\ Answer(e, phase[e], "error")
  /\ UNCHANGED <<settingVars, imageVars, pod, ref, waived>>

-----------------------------------------------------------------------------
(* Around the requests *)

(* A scan ends and its results are filed.  The image is scanned by digest, *)
(* by name and tag when the hash is temporary, and not at all when it is   *)
(* empty.                                                                  *)
Scan(i) ==
  /\ i \in queue
  /\ queue' = queue \ {i}
  /\ \/ /\ image[i].hash # NoHash
        /\ image' = [image EXCEPT ![i].scan = "found",
             ![i].hash = IF @ = TmpHash THEN tag[image[i].ref] ELSE @]
     \/ /\ Faults \/ image[i].hash = NoHash
        /\ image' = [image EXCEPT ![i].scan = "error"]
  /\ UNCHANGED <<settingVars, requestVars>>

LoseScan(i) ==
  /\ Faults
  /\ i \in queue
  /\ queue' = queue \ {i}
  /\ UNCHANGED <<settingVars, image, requestVars>>

AddImage(r, h) ==
  /\ Len(image) < MaxAdded
  /\ image' = Append(image, [ref |-> r, hash |-> h, scan |-> "none"])
  /\ queue' = IF policies THEN queue \cup {Len(image) + 1} ELSE queue
  /\ UNCHANGED <<settingVars, requestVars>>

(* An image is registered through the API, by a person or a CI pipeline.   *)
ApiCreates(r) == "api" \in Changes /\ AddImage(r, TmpHash)

(* The cluster sync sees a container run a content it has no row for.      *)
SyncCreates(r) ==
  /\ "sync" \in Changes
  /\ \A i \in Rows(r) : image[i].hash # tag[r]
  /\ AddImage(r, tag[r])

Change ==
  /\ \/ /\ "enforcement" \in Changes
        /\ enforcement' = ~enforcement
        /\ UNCHANGED <<policies, excepted, compliant, tag>>
     \/ /\ "policies" \in Changes
        /\ policies' = ~policies
        /\ UNCHANGED <<enforcement, excepted, compliant, tag>>
     \/ /\ "exceptions" \in Changes
        /\ excepted' \in SUBSET Refs
        /\ UNCHANGED <<enforcement, policies, compliant, tag>>
     \/ /\ "verdicts" \in Changes
        /\ compliant' \in SUBSET Digests
        /\ UNCHANGED <<enforcement, policies, excepted, tag>>
     \/ /\ "tags" \in Changes
        /\ tag' \in [Refs -> Digests]
        /\ UNCHANGED <<enforcement, policies, excepted, compliant>>
  /\ UNCHANGED <<imageVars, requestVars>>

-----------------------------------------------------------------------------
Handle(e) ==
  \/ \E r \in Refs : Lookup(e, r)
  \/ CheckImage(e) \/ InsertImage(e) \/ RequestScan(e) \/ ReadExceptions(e)
  \/ LookedUp(e) \/ Decide(e)
  \/ \E i \in 1 .. Len(image) : EvaluateImage(e, i)

Next ==
  \/ \E e \in Requests :
       (\E p \in PodSpecs : Submit(e, p)) \/ Handle(e) \/ Fail(e)
  \/ \E i \in 1 .. Len(image) : Scan(i) \/ LoseScan(i)
  \/ \E r \in Refs : ApiCreates(r) \/ SyncCreates(r)
  \/ Change

Spec == Init /\ [][Next]_vars

(* Kubernetes submits a pod that was held back again, the backend handles  *)
(* what it is asked, and scans come to an end.                             *)
FairSpec ==
  /\ Spec
  /\ \A e \in Requests : /\ WF_vars(\E p \in PodSpecs : Submit(e, p))
                         /\ WF_vars(Handle(e))
  /\ \A i \in Ids : WF_vars(i \in 1 .. Len(image) /\ Scan(i))

-----------------------------------------------------------------------------
(* Properties *)

Allowed(e) ==
  answer[e] \in {"skipped", "admitted"} \/ (DefaultAllow /\ answer[e] = "error")

Scanned(r) == \E i \in Rows(r) : image[i].scan # "none"

(* A pod that passed the checks has no container whose image was never     *)
(* scanned, other than those let through by an exception - whatever else   *)
(* is looked up, created, scanned or changed while the request is handled. *)
AdmittedIsScanned ==
  \A e \in Requests : answer[e] = "admitted" =>
    \A r \in pod[e] : r \in waived[e] \/ Scanned(r)

(* The same while the request is handled: what is no longer to be looked   *)
(* at is scanned, let through or has marked the pod as held.               *)
LookedAtIsScanned ==
  \A e \in Requests : ~held[e] /\ (phase[e] # "idle" \/ answer[e] = "admitted") =>
    \A r \in pod[e] : r \in todo[e] \cup waived[e] \/ Scanned(r)

NothingIsLeft ==
  \A e \in Requests :
    /\ phase[e] = "evaluate" => todo[e] = {}
    /\ phase[e] # "idle" => answer[e] = "none"
    /\ answer[e] = "admitted" => ~held[e] /\ todo[e] = {}

(* What every step preserves: no container of a pod gets lost between the  *)
(* lookups and the answer.                                                 *)
NoContainerIsLost == LookedAtIsScanned /\ NothingIsLeft

(* A stored image does not stay unscanned: each gets its first result.     *)
FirstScanComes ==
  \A i \in Ids :
    (i \in 1 .. Len(image) /\ image[i].scan = "none")
      ~> (i \in 1 .. Len(image) /\ image[i].scan # "none")

Ready(r) == \E i \in Rows(r) : Rows(r) \subseteq 1 .. i /\ Complies(i)

(* While the newest row of every reference is scanned and complies, a pod  *)
(* that is submitted again is admitted: older rows, and scans of theirs    *)
(* that failed, do not stand in its way.  (A request that saw no row       *)
(* before may still add a newer one.)                                      *)
ReadyPodsGetIn ==
  LET AllReady == \A r \in Refs : Ready(r)
  IN  \A e \in Requests : AllReady ~> (Allowed(e) \/ ~AllReady)

=============================================================================
