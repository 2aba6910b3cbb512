---------------------------- MODULE ScanPipeline ----------------------------
(***************************************************************************)
(* The life of an image scan job in one cluster: the backend publishes a   *)
(* job on RabbitMQ and marks the image as queued, a trawler consumes the   *)
(* job, runs the scanners of every policy and posts one result per policy, *)
(* and the backend picks the image the results belong to, stores them in   *)
(* one transaction per policy and updates the image.                       *)
(*                                                                         *)
(* A job is identified by the request that created it.  Every await of the *)
(* handlers after which another handler can be seen is a step boundary.    *)
(***************************************************************************)
EXTENDS Naturals, Sequences, Functions

CONSTANTS
  Policies,       \* policies mapped to the cluster in policy_cluster
  Trawlers,       \* trawler processes consuming the queue
  Hashes,         \* content digests the image's tag can resolve to
  NoHash,         \* docker_image_id ''
  TmpHash,        \* docker_image_id 'TMP_...'
  Absent,         \* no row in images with this id
  Idle,           \* a trawler that runs no scan
  MaxImages,      \* bound: rows of images
  MaxJobs,        \* bound: scan jobs requested
  PolicyChanges,  \* an admin may enable and disable policies
  SlowClient,     \* a trawler's HTTP call may time out before the answer
  Faults          \* sends, database calls and processes may fail

ASSUME PipelineAssumption ==
  /\ MaxImages \in Nat \ {0} /\ MaxJobs \in Nat
  /\ {PolicyChanges, SlowClient, Faults} \subseteq BOOLEAN
  /\ NoHash \notin Hashes /\ TmpHash \notin Hashes /\ Absent \notin Hashes
  /\ NoHash # TmpHash /\ NoHash # Absent /\ TmpHash # Absent

ImageIds == 1 .. MaxImages
Jobs == 1 .. MaxJobs
Rows == Jobs \X Policies           \* a job writes one result row per policy

ASSUME IdleAssumption == Idle \notin Jobs

VARIABLES
  enabled,      \* policies.enabled
  hash,         \* images.docker_image_id
  scanQueued,   \* images.scan_queued
  scanResults,  \* images.scan_results; set together with last_scanned
  latest,       \* rows of image_scan_results with is_latest
  request,      \* per job: progress of createImageScanByImageId
  jobImage,     \* per job: the image id in the message
  broker,       \* RabbitMQ: the queue of scan jobs
  inbox,        \* per trawler: deliveries the client library has taken
  scanning,     \* per trawler: the job in its delivery callback
  policies,     \* per job: the policies that the trawler scanned for
  newHash,      \* per job: the image hash posted with the results
  save,         \* per job: progress of saveImageScanResults
  target,       \* per job: targetImage.id, 0 before it is chosen
  passed,       \* per job: policies whose policyStatus is true
  tx,           \* per row: the transaction that stores it
  snapshot,     \* per row: the rows its UPDATE matches
  flagLeft      \* history: jobs whose flag the end of their save did not clear

imageVars == <<hash, scanQueued, scanResults, flagLeft>>
requestVars == <<request, jobImage>>
trawlerVars == <<inbox, scanning, policies, newHash>>
txVars == <<tx, snapshot>>
vars == <<enabled, hash, scanQueued, scanResults, latest, request, jobImage,
          broker, inbox, scanning, policies, newHash, save, target, passed,
          tx, snapshot, flagLeft>>

RequestStates == {"idle", "sending", "flagging", "done", "refused"}
SaveStates == {"none", "lookup", "byHash", "check", "insert", "evaluate",
               "writing", "summary", "unflag", "done", "failed"}
TxStates == {"none", "pending", "open", "done", "failed"}
ScanResults == {"Unscanned", "Compliant", "Non-compliant"}

TypeOK ==
  /\ enabled \in SUBSET Policies
  /\ hash \in [ImageIds -> Hashes \cup {NoHash, TmpHash, Absent}]
  /\ scanQueued \in [ImageIds -> BOOLEAN]
  /\ scanResults \in [ImageIds -> ScanResults]
  /\ latest \in SUBSET Rows
  /\ request \in [Jobs -> RequestStates]
  /\ jobImage \in [Jobs -> ImageIds \cup {0}]
  /\ broker \in Seq(Jobs)
  /\ inbox \in [Trawlers -> Seq(Jobs)]
  /\ scanning \in [Trawlers -> Jobs \cup {Idle}]
  /\ policies \in [Jobs -> SUBSET Policies]
  /\ newHash \in [Jobs -> Hashes \cup {NoHash}]
  /\ save \in [Jobs -> SaveStates]
  /\ target \in [Jobs -> ImageIds \cup {0}]
  /\ passed \in [Jobs -> SUBSET Policies]
  /\ tx \in [Rows -> TxStates]
  /\ snapshot \in [Rows -> SUBSET Rows]
  /\ flagLeft \in SUBSET Jobs

(* The image exists once: created by the API (TMP_ hash), by the admission *)
(* webhook (empty hash) or by the cluster sync (the digest it saw).        *)
Init ==
  /\ enabled = Policies
  /\ \E h \in Hashes \cup {NoHash, TmpHash} :
       hash = [i \in ImageIds |-> IF i = 1 THEN h ELSE Absent]
  /\ scanQueued = [i \in ImageIds |-> FALSE]
  /\ scanResults = [i \in ImageIds |-> "Unscanned"]
  /\ latest = {}
  /\ request = [j \in Jobs |-> "idle"]
  /\ jobImage = [j \in Jobs |-> 0]
  /\ broker = <<>>
  /\ inbox = [w \in Trawlers |-> <<>>]
  /\ scanning = [w \in Trawlers |-> Idle]
  /\ policies = [j \in Jobs |-> {}]
  /\ newHash = [j \in Jobs |-> NoHash]
  /\ save = [j \in Jobs |-> "none"]
  /\ target = [j \in Jobs |-> 0]
  /\ passed = [j \in Jobs |-> {}]
  /\ tx = [r \in Rows |-> "none"]
  /\ snapshot = [r \in Rows |-> {}]
  /\ flagLeft = {}

SaveStep(j, from, to) ==
  /\ save[j] = from
  /\ save' = [save EXCEPT ![j] = to]

WithHash(h) == {i \in ImageIds : hash[i] = h}

(* The committed result rows of an image.                                  *)
RowsOf(i) == {r \in Rows : tx[r] = "done" /\ target[r[1]] = i}

-----------------------------------------------------------------------------
(* Seeded bugs: each is a plausible mistake in the action it is named      *)
(* after, and replaces that action to show that a property notices it.     *)

(* The flag is not cleared when the scan has been saved.                   *)
ClearQueuedForgotten(j) ==
  /\ SaveStep(j, "unflag", "done")
  /\ UNCHANGED <<enabled, imageVars, latest, requestVars, broker, trawlerVars,
                 target, passed, txVars>>

(* The delivery is not acknowledged: the broker keeps the message.         *)
DeliverWithoutAck(w) ==
  /\ broker # <<>>
  /\ inbox' = [inbox EXCEPT ![w] = Append(@, Head(broker))]
  /\ UNCHANGED <<enabled, imageVars, latest, requestVars, broker, scanning,
                 policies, newHash, save, target, passed, txVars>>

(* The callback does not return when the backend answers with an error.    *)
FinishDeliveryOnSuccess(w) ==
  /\ scanning[w] # Idle
  /\ save[scanning[w]] = "done"
  /\ scanning' = [scanning EXCEPT ![w] = Idle]
  /\ UNCHANGED <<enabled, imageVars, latest, requestVars, broker, inbox,
                 policies, newHash, save, target, passed, txVars>>

(* The jobs of a crashed trawler return to the queue.                      *)
TrawlerCrashRequeues(w) ==
  /\ Faults
  /\ broker' = IF scanning[w] = Idle THEN inbox[w] \o broker
                                     ELSE <<scanning[w]>> \o inbox[w] \o broker
  /\ inbox' = [inbox EXCEPT ![w] = <<>>]
  /\ scanning' = [scanning EXCEPT ![w] = Idle]
  /\ UNCHANGED <<enabled, imageVars, latest, requestVars, policies, newHash,
                 save, target, passed, txVars>>

(* The hash posted is not compared with the image's own.                   *)
TargetIsAlwaysJobImage(j) ==
  /\ SaveStep(j, "lookup", "evaluate")
  /\ target' = [target EXCEPT ![j] = jobImage[j]]
  /\ UNCHANGED <<enabled, imageVars, latest, requestVars, broker, trawlerVars,
                 passed, txVars>>

(* The image with the posted hash is not looked up.                        *)
FindByHashSkipped(j) ==
  /\ SaveStep(j, "byHash", "check")
  /\ UNCHANGED <<enabled, imageVars, latest, requestVars, broker, trawlerVars,
                 target, passed, txVars>>

(* The UPDATE that clears is_latest is forgotten.                          *)
ClearNothing(r) ==
  /\ tx[r] = "pending"
  /\ tx' = [tx EXCEPT ![r] = "open"]
  /\ UNCHANGED <<enabled, imageVars, latest, requestVars, broker, trawlerVars,
                 save, target, passed, snapshot>>

(* The row is inserted without is_latest, or the UPDATE follows the INSERT.*)
CommitRowUnmarked(r) ==
  /\ tx[r] = "open"
  /\ tx' = [tx EXCEPT ![r] = "done"]
  /\ latest' = latest \ snapshot[r]
  /\ UNCHANGED <<enabled, imageVars, requestVars, broker, trawlerVars, save,
                 target, passed, snapshot>>

(* The saves are started and not awaited.                                  *)
AllSavedNotAwaited(j) ==
  /\ SaveStep(j, "writing", "summary")
  /\ UNCHANGED <<enabled, imageVars, latest, requestVars, broker, trawlerVars,
                 target, passed, txVars>>

-----------------------------------------------------------------------------
(* Policies *)

SetPolicyEnabled(p) ==
  /\ PolicyChanges
  /\ enabled' = IF p \in enabled THEN enabled \ {p} ELSE enabled \cup {p}
  /\ UNCHANGED <<imageVars, latest, requestVars, broker, trawlerVars, save,
                 target, passed, txVars>>

-----------------------------------------------------------------------------
(* createImageScanByImageId, one image id of the request *)

(* The image is found and some enabled policy applies to the cluster.      *)
RequestScan(j, i) ==
  /\ request[j] = "idle"
  /\ \A k \in 1 .. (j - 1) : request[k] # "idle"
  /\ hash[i] # Absent
  /\ enabled # {}
  /\ request' = [request EXCEPT ![j] = "sending"]
  /\ jobImage' = [jobImage EXCEPT ![j] = i]
  /\ UNCHANGED <<enabled, imageVars, latest, broker, trawlerVars, save,
                 target, passed, txVars>>

(* The broker accepts the message; only then does send return a value.     *)
Publish(j) ==
  /\ request[j] = "sending"
  /\ broker' = Append(broker, j)
  /\ request' = [request EXCEPT ![j] = "flagging"]
  /\ UNCHANGED <<enabled, imageVars, latest, jobImage, trawlerVars, save,
                 target, passed, txVars>>

(* send catches the error of the channel and returns null.                 *)
PublishFails(j) ==
  /\ Faults
  /\ request[j] = "sending"
  /\ request' = [request EXCEPT ![j] = "refused"]
  /\ UNCHANGED <<enabled, imageVars, latest, jobImage, broker, trawlerVars,
                 save, target, passed, txVars>>

(* setImageScanQueueStatus(id, true) is not awaited: it reaches the        *)
(* database at any time after the message was accepted, even when the scan *)
(* has been saved and the flag cleared.                                    *)
SetQueued(j) ==
  /\ request[j] = "flagging"
  /\ scanQueued' = [scanQueued EXCEPT ![jobImage[j]] = TRUE]
  /\ request' = [request EXCEPT ![j] = "done"]
  /\ flagLeft' = IF save[j] = "done" THEN flagLeft \cup {j} ELSE flagLeft
  /\ UNCHANGED <<enabled, hash, scanResults, latest, jobImage, broker,
                 trawlerVars, save, target, passed, txVars>>

-----------------------------------------------------------------------------
(* A trawler *)

(* basicConsume with autoAck: the broker forgets a message as soon as the  *)
(* client library has it.                                                  *)
Deliver(w) ==
  /\ broker # <<>>
  /\ inbox' = [inbox EXCEPT ![w] = Append(@, Head(broker))]
  /\ broker' = Tail(broker)
  /\ UNCHANGED <<enabled, imageVars, latest, requestVars, scanning, policies,
                 newHash, save, target, passed, txVars>>

(* The callback reads the policies of the cluster and starts the scan.     *)
StartScan(w) ==
  /\ scanning[w] = Idle
  /\ inbox[w] # <<>>
  /\ enabled # {}
  /\ scanning' = [scanning EXCEPT ![w] = Head(inbox[w])]
  /\ policies' = [policies EXCEPT ![Head(inbox[w])] = enabled]
  /\ inbox' = [inbox EXCEPT ![w] = Tail(@)]
  /\ UNCHANGED <<enabled, imageVars, latest, requestVars, broker, newHash,
                 save, target, passed, txVars>>

(* No policy is left, or a call to the backend fails: the exception is     *)
(* printed and the job, already acknowledged, is gone.                     *)
DropJob(w) ==
  /\ scanning[w] = Idle
  /\ inbox[w] # <<>>
  /\ Faults \/ enabled = {}
  /\ inbox' = [inbox EXCEPT ![w] = Tail(@)]
  /\ UNCHANGED <<enabled, imageVars, latest, requestVars, broker, scanning,
                 policies, newHash, save, target, passed, txVars>>

(* ScanRunner.scan ends with one POST holding every policy's result.  The  *)
(* hash is the digest found, or empty when no scanner reported one.  Trivy *)
(* is given name:tag@sha256:hash, or only name:tag for a temporary hash:   *)
(* what it reports for a digest may be another one (an image index), and   *)
(* it cannot find an image with an empty hash.                             *)
PostResults(w, h) ==
  /\ scanning[w] # Idle
  /\ save[scanning[w]] = "none"
  /\ hash[jobImage[scanning[w]]] = NoHash => h = NoHash
  /\ newHash' = [newHash EXCEPT ![scanning[w]] = h]
  /\ save' = [save EXCEPT ![scanning[w]] = "lookup"]
  /\ UNCHANGED <<enabled, imageVars, latest, requestVars, broker, inbox,
                 scanning, policies, target, passed, txVars>>

(* The callback returns when the answer comes, or when the call times out. *)
FinishDelivery(w) ==
  /\ scanning[w] # Idle
  /\ \/ save[scanning[w]] \in {"done", "failed"}
     \/ SlowClient /\ save[scanning[w]] # "none"
  /\ scanning' = [scanning EXCEPT ![w] = Idle]
  /\ UNCHANGED <<enabled, imageVars, latest, requestVars, broker, inbox,
                 policies, newHash, save, target, passed, txVars>>

(* The process dies and is restarted with an empty client buffer.          *)
TrawlerCrash(w) ==
  /\ Faults
  /\ inbox' = [inbox EXCEPT ![w] = <<>>]
  /\ scanning' = [scanning EXCEPT ![w] = Idle]
  /\ UNCHANGED <<enabled, imageVars, latest, requestVars, broker, policies,
                 newHash, save, target, passed, txVars>>

-----------------------------------------------------------------------------
(* saveImageScanResults *)

(* getImageById: no hash was sent, the hash is the image's own, or the     *)
(* image has a temporary one.                                              *)
TargetIsJobImage(j) ==
  /\ SaveStep(j, "lookup", "evaluate")
  /\ \/ newHash[j] = NoHash
     \/ newHash[j] = hash[jobImage[j]]
     \/ hash[jobImage[j]] = TmpHash
  /\ target' = [target EXCEPT ![j] = jobImage[j]]
  /\ UNCHANGED <<enabled, imageVars, latest, requestVars, broker, trawlerVars,
                 passed, txVars>>

TargetByHash(j) ==
  /\ SaveStep(j, "lookup", "byHash")
  /\ newHash[j] \notin {NoHash, hash[jobImage[j]]}
  /\ hash[jobImage[j]] # TmpHash
  /\ UNCHANGED <<enabled, imageVars, latest, requestVars, broker, trawlerVars,
                 target, passed, txVars>>

(* getImageByImageHash: loadImage orders by id, newest first, and the      *)
(* first row is taken.                                                     *)
FindByHash(j) ==
  /\ \/ \E i \in WithHash(newHash[j]) :
          /\ \A k \in WithHash(newHash[j]) : k <= i
          /\ SaveStep(j, "byHash", "evaluate")
          /\ target' = [target EXCEPT ![j] = i]
     \/ /\ WithHash(newHash[j]) = {}
        /\ SaveStep(j, "byHash", "check")
        /\ UNCHANGED target
  /\ UNCHANGED <<enabled, imageVars, latest, requestVars, broker, trawlerVars,
                 passed, txVars>>

(* createImage: checkIfImageAlreadyExists throws when the row is there ... *)
CheckNewImage(j) ==
  /\ SaveStep(j, "check", IF WithHash(newHash[j]) # {} THEN "failed"
                                                       ELSE "insert")
  /\ UNCHANGED <<enabled, imageVars, latest, requestVars, broker, trawlerVars,
                 target, passed, txVars>>

(* ... and the insert is a later call; no unique index guards it.          *)
InsertNewImage(j) ==
  /\ SaveStep(j, "insert", "evaluate")
  /\ \E i \in WithHash(Absent) :
       /\ \A k \in WithHash(Absent) : i <= k
       /\ hash' = [hash EXCEPT ![i] = newHash[j]]
       /\ target' = [target EXCEPT ![j] = i]
  /\ UNCHANGED <<enabled, scanQueued, scanResults, flagLeft, latest,
                 requestVars, broker, trawlerVars, passed, txVars>>

(* The compliance facade judges each policy; then every result is handed   *)
(* to saveImageScanDataByImageId at once.                                  *)
Evaluate(j, ok) ==
  /\ SaveStep(j, "evaluate", "writing")
  /\ ok \subseteq policies[j]
  /\ passed' = [passed EXCEPT ![j] = ok]
  /\ tx' = [r \in Rows |-> IF r[1] = j /\ r[2] \in policies[j]
                             THEN "pending" ELSE tx[r]]
  /\ UNCHANGED <<enabled, imageVars, latest, requestVars, broker, trawlerVars,
                 target, snapshot>>

(* The transaction's UPDATE: under READ COMMITTED it can only match the    *)
(* rows of the image that were committed when the statement began.         *)
ClearLatest(r) ==
  /\ tx[r] = "pending"
  /\ tx' = [tx EXCEPT ![r] = "open"]
  /\ snapshot' = [snapshot EXCEPT ![r] = RowsOf(target[r[1]])]
  /\ UNCHANGED <<enabled, imageVars, latest, requestVars, broker, trawlerVars,
                 save, target, passed>>

(* The INSERT with is_latest and the commit.                               *)
CommitRow(r) ==
  /\ tx[r] = "open"
  /\ tx' = [tx EXCEPT ![r] = "done"]
  /\ latest' = (latest \ snapshot[r]) \cup {r}
  /\ UNCHANGED <<enabled, imageVars, requestVars, broker, trawlerVars, save,
                 target, passed, snapshot>>

(* One transaction fails, or the row is stored and an event about it is    *)
(* not: Promise.all rejects and the handler throws, while the other        *)
(* transactions of the same request go on.                                 *)
FailRow(r) ==
  /\ Faults
  /\ \/ tx[r] \in {"pending", "open"} /\ tx' = [tx EXCEPT ![r] = "failed"]
     \/ tx[r] = "done" /\ save[r[1]] = "writing" /\ UNCHANGED tx
  /\ save' = [save EXCEPT ![r[1]] = "failed"]
  /\ UNCHANGED <<enabled, imageVars, latest, requestVars, broker, trawlerVars,
                 target, passed, snapshot>>

AllSaved(j) ==
  /\ \A p \in policies[j] : tx[<<j, p>>] = "done"
  /\ SaveStep(j, "writing", "summary")
  /\ UNCHANGED <<enabled, imageVars, latest, requestVars, broker, trawlerVars,
                 target, passed, txVars>>

UpdateImage(j) ==
  /\ SaveStep(j, "summary", "unflag")
  /\ scanResults' = [scanResults EXCEPT ![target[j]] =
                       IF passed[j] = policies[j] THEN "Compliant"
                                                  ELSE "Non-compliant"]
  /\ hash' = [hash EXCEPT ![target[j]] =
                IF newHash[j] = NoHash THEN @ ELSE newHash[j]]
  /\ UNCHANGED <<enabled, scanQueued, flagLeft, latest, requestVars, broker,
                 trawlerVars, target, passed, txVars>>

ClearQueued(j) ==
  /\ SaveStep(j, "unflag", "done")
  /\ scanQueued' = [scanQueued EXCEPT ![target[j]] = FALSE]
  /\ UNCHANGED <<enabled, hash, scanResults, flagLeft, latest, requestVars,
                 broker, trawlerVars, target, passed, txVars>>

(* Any awaited call of the handler may reject; once the image is updated   *)
(* only the flag remains to be lost.                                       *)
SaveFails(j) ==
  /\ Faults
  /\ save[j] \in {"lookup", "byHash", "check", "insert", "evaluate",
                  "summary", "unflag"}
  /\ save' = [save EXCEPT ![j] = IF @ = "unflag" THEN "done" ELSE "failed"]
  /\ flagLeft' = IF save[j] = "unflag" THEN flagLeft \cup {j} ELSE flagLeft
  /\ UNCHANGED <<enabled, hash, scanQueued, scanResults, latest, requestVars,
                 broker, trawlerVars, target, passed, txVars>>

(* The backend process dies: requests and saves in progress disappear, and *)
(* open transactions are rolled back.                                      *)
BackendCrash ==
  /\ Faults
  /\ request' = [j \in Jobs |-> IF request[j] = "sending" THEN "refused"
                               ELSE IF request[j] = "flagging" THEN "done"
                               ELSE request[j]]
  /\ save' = [j \in Jobs |-> IF save[j] = "none" THEN "none"
                             ELSE IF save[j] \in {"unflag", "done"}
                               THEN "done" ELSE "failed"]
  /\ tx' = [r \in Rows |-> IF tx[r] \in {"pending", "open"}
                             THEN "failed" ELSE tx[r]]
  /\ flagLeft' = flagLeft \cup {j \in Jobs : save[j] = "unflag"}
  /\ UNCHANGED <<enabled, hash, scanQueued, scanResults, latest, jobImage,
                 broker, trawlerVars, target, passed, snapshot>>

-----------------------------------------------------------------------------
HandleRequest(j) == Publish(j) \/ PublishFails(j) \/ SetQueued(j)

HandleSave(j) ==
  \/ TargetIsJobImage(j) \/ TargetByHash(j) \/ FindByHash(j)
  \/ CheckNewImage(j) \/ InsertNewImage(j)
  \/ \E ok \in SUBSET Policies : Evaluate(j, ok)
  \/ AllSaved(j) \/ UpdateImage(j) \/ ClearQueued(j) \/ SaveFails(j)

HandleRow(r) == ClearLatest(r) \/ CommitRow(r) \/ FailRow(r)

HandleDelivery(w) ==
  \/ StartScan(w) \/ DropJob(w) \/ FinishDelivery(w)
  \/ \E h \in Hashes \cup {NoHash} : PostResults(w, h)

Next ==
  \/ \E p \in Policies : SetPolicyEnabled(p)
  \/ \E j \in Jobs : \E i \in ImageIds : RequestScan(j, i)
  \/ \E j \in Jobs : HandleRequest(j) \/ HandleSave(j)
  \/ \E r \in Rows : HandleRow(r)
  \/ \E w \in Trawlers : Deliver(w) \/ HandleDelivery(w) \/ TrawlerCrash(w)
  \/ BackendCrash

(* The event loop of the backend and the consumer loop of a trawler run    *)
(* what is ready; the broker delivers what it holds.  Requests, policy     *)
(* changes and crashes are not owed to anyone.                             *)
Fairness ==
  /\ \A j \in Jobs : WF_vars(HandleRequest(j)) /\ WF_vars(HandleSave(j))
  /\ \A r \in Rows : WF_vars(HandleRow(r))
  /\ \A w \in Trawlers : WF_vars(HandleDelivery(w))
  /\ WF_vars(\E w \in Trawlers : Deliver(w))

Spec == Init /\ [][Next]_vars
FairSpec == Spec /\ Fairness

-----------------------------------------------------------------------------
(* Properties *)

Waiting == Range(broker) \cup UNION {Range(inbox[w]) : w \in Trawlers}

(* A job is handled at most once: no job is held twice by the broker and   *)
(* the trawlers together, and a job that still waits has been accepted by  *)
(* the broker and has not been posted.  autoAck promises this and nothing  *)
(* more: a job can be lost, it cannot be delivered again.                  *)
OneDelivery ==
  /\ IsInjective(broker)
  /\ \A w \in Trawlers :
       IsInjective(inbox[w]) /\ Range(inbox[w]) \cap Range(broker) = {}
  /\ \A w, v \in Trawlers :
       w # v => Range(inbox[w]) \cap Range(inbox[v]) = {}
  /\ \A w, v \in Trawlers : scanning[w] = scanning[v] =>
       w = v \/ scanning[w] = Idle
  /\ \A w \in Trawlers : scanning[w] \notin Waiting
  /\ \A j \in Waiting : request[j] \in {"flagging", "done"} /\ save[j] = "none"

(* An image that shows a verdict has a scan behind it: some job chose this *)
(* image, committed a row for every policy it was scanned for, and the     *)
(* verdict is that job's.  The admission webhook takes "has been scanned"  *)
(* to mean that rows can be read.                                          *)
VerdictHasRows ==
  \A i \in ImageIds : scanResults[i] # "Unscanned" =>
    \E j \in Jobs :
      /\ target[j] = i
      /\ policies[j] # {}
      /\ \A p \in policies[j] : tx[<<j, p>>] = "done"
      /\ (scanResults[i] = "Compliant") = (passed[j] = policies[j])

(* Whatever transactions overlap, an image with stored results always has  *)
(* one that is marked latest.                                              *)
SomeRowIsLatest ==
  \A i \in ImageIds : RowsOf(i) # {} => RowsOf(i) \cap latest # {}

(* An image that is shown as queued is owed a scan: the job that set the   *)
(* flag last still waits or runs, or it was lost or failed on the way, or  *)
(* its results were filed under another row (saveImageScanResults clears   *)
(* the flag of the row that it chose), or the flag was left on by a write  *)
(* that came after the save (nobody awaits setImageScanQueueStatus) or by  *)
(* a save that broke off before the last call.                             *)
QueuedIsOwed ==
  \A i \in ImageIds : scanQueued[i] =>
    \E j \in Jobs :
      /\ jobImage[j] = i /\ request[j] = "done"
      /\ save[j] = "done" => target[j] # i \/ j \in flagLeft

(* The rows marked latest hold at most one row per image and policy:       *)
(* getLatestImageScanDataByPolicy takes the first row the query returns.   *)
(* The comments of saveImageScanByImageId say that the earlier scans lose  *)
(* the mark; with overlapping saves they do not.                           *)
LatestIsUnique ==
  \A r, s \in latest :
    r[2] = s[2] /\ target[r[1]] = target[s[1]] => r = s

(* An image that carries a real digest keeps it: results of one content    *)
(* are never filed under the row of another.  Only a temporary hash may be *)
(* overwritten.                                                            *)
HashIsKept ==
  [][\A i \in ImageIds : hash[i] \in Hashes => hash'[i] = hash[i]]_vars

InFlight(j) ==
  \/ j \in Waiting
  \/ \E w \in Trawlers : scanning[w] = j
  \/ save[j] \notin {"none", "done", "failed"}

(* A published job comes to an end: it is saved, it fails or it is lost,   *)
(* and no trawler stays busy with it.                                      *)
JobsEnd == \A j \in Jobs : InFlight(j) ~> ~InFlight(j)

(* Without faults and policy changes every accepted job is saved, so the   *)
(* image it was for, or the row with the posted digest, is scanned.        *)
JobsAreSaved ==
  \A j \in Jobs : request[j] = "flagging" ~> save[j] = "done"

-----------------------------------------------------------------------------
(* The strengthenings that make the safety properties inductive *)

(* A job that a trawler has or has posted was accepted by the broker, and  *)
(* only a posted job writes.                                               *)
DeliveryInv ==
  /\ OneDelivery
  /\ \A w \in Trawlers : scanning[w] # Idle =>
       request[scanning[w]] \in {"flagging", "done"}
  /\ \A j \in Jobs : save[j] # "none" => request[j] \in {"flagging", "done"}
  /\ \A r \in Rows : tx[r] # "none" => save[r[1]] # "none"

(* The job behind a verdict has passed the writing phase for good.         *)
VerdictHasJob ==
  \A i \in ImageIds : scanResults[i] # "Unscanned" =>
    \E j \in Jobs :
      /\ target[j] = i
      /\ save[j] \in {"unflag", "done"}
      /\ (scanResults[i] = "Compliant") = (passed[j] = policies[j])

(* A job is scanned for some policy, writes rows for its policies only and *)
(* has written all of them once it passed the writing phase.               *)
RowsFollowSave ==
  /\ \A w \in Trawlers : scanning[w] # Idle => policies[scanning[w]] # {}
  /\ \A j \in Jobs : save[j] # "none" => policies[j] # {}
  /\ \A r \in Rows : tx[r] # "none" => r[2] \in policies[r[1]]
  /\ \A j \in Jobs : save[j] \in {"summary", "unflag", "done"} =>
       \A p \in policies[j] : tx[<<j, p>>] = "done"

VerdictInv == RowsFollowSave /\ VerdictHasJob

-----------------------------------------------------------------------------
(* Refinement *)

JobState ==
  [j \in Jobs |->
    IF request[j] \in {"idle", "sending", "refused"} THEN "unsent"
    ELSE IF j \in Waiting THEN "waiting"
    ELSE IF save[j] \in {"unflag", "done"} THEN "recorded"
    ELSE IF save[j] \notin {"none", "failed"} THEN "saving"
    ELSE IF save[j] = "none" /\ \E w \in Trawlers : scanning[w] = j
      THEN "scanning"
    ELSE "lost"]

Scanned == {i \in ImageIds : scanResults[i] # "Unscanned"}

AbstractJobs == INSTANCE ScanJobs
  WITH Images <- ImageIds, job <- JobState, scanned <- Scanned

(* The pipeline implements the at-most-once queue of scan jobs: nothing it *)
(* does, and no crash, timeout or failed call, handles a job twice, brings *)
(* one back, or marks an image as scanned without recording a job.         *)
ImplementsScanJobs == AbstractJobs!JobSpec
=============================================================================
