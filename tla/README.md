# A TLA+ model of m9sweeper

m9sweeper scans the container images of Kubernetes clusters, decides whether
they comply with policies, and keeps pods with non-compliant images out. This
directory holds specifications of the parts of that decision, TLC
configurations that check them on small instances, and TLAPS proofs of the
properties that matter most for every instance. Paths below are relative to
`src/`; `D/` stands for `dash/backend/src/modules/`.

## 1. The system

| Part | State | Operations | Talks to |
|---|---|---|---|
| Image scans (`D/image`, `D/shared`) | `images` (digest, `scan_queued`, `scan_results`, `last_scanned`), `image_scan_results` (`is_latest`), `image_scan_results_issues` | request a scan, save results, create, look up, delete images | publishes to RabbitMQ; called by UI, webhook, sync, rescan, trawler |
| Trawler (`trawler`, Java) | RabbitMQ client buffer, the job at hand | consume, read the policies, run Trivy, post results | RabbitMQ, backend API |
| Compliance (`D/policy`, `D/scanner`) | policies, scanners, vulnerability settings, `ComplianceResultMap` | verdict of an image from results, settings and exceptions | called by scan saves, webhook and sync |
| Exceptions (`D/exceptions`) | exceptions with dates, status and links to policies, clusters, namespaces | CRUD, temporary exceptions, the status job | read by compliance and webhook |
| Admission (`D/cluster-validation`, `D/pod`) | none of its own: reads clusters, images, exceptions | answer one admission review | image service, pod compliance |
| Cluster sync (`D/command-line`, `D/k8s-image`, `D/namespace`, `D/pod`) | `kubernetes_images`, `kubernetes_pods`, `pod_images`, `kubernetes_namespaces`, `images.running_in_cluster` | mirror a cluster | Kubernetes API, image service |
| Nightly job (`D/command-line`) | history tables | copy the day, judge it, rescan what is due | image service, compliance |
| Clusters (`D/cluster`) | `clusters` rows | create, edit, switch enforcement and scanning, delete | Kubernetes API (webhook) |
| Gatekeeper (`D/gatekeeper`, exception blocks) | template files; templates and constraints in clusters | deploy, edit, delete, write exceptions into templates | Kubernetes API; called by exceptions and cron |
| Falco (`D/falco`) | `project_falco_logs`, `falco_email`, rules, the cache of rules | judge, store and report an event | agents in clusters, SMTP |
| kube-bench, kube-hunter, kubesec | stored reports | insert | agents in clusters |
| Users, auth, registries, settings, reports, metrics, audit log, front end | rows | CRUD and queries | |

The backend is one Node process: handlers interleave at every `await` and
nowhere else. PostgreSQL runs with READ COMMITTED and the tables involved have
no unique keys except ids. Trawlers are separate processes, any number of them.

### Behaviours that are hard

* *Two saves of one image.* A second trawler, or the same one after its HTTP
  client gave up, posts results while an earlier save is still writing rows
  (`image.dao.ts:408-438`).
* *Policies of one scan in parallel.* `Promise.all` over transactions that each
  clear the marks of the whole image (`image.controller.ts:350`).
* *At-most-once delivery.* `autoAck` (`Trawler.java:153`): crashes lose jobs.
* *Check, then insert.* `createImage` and `applyTemporaryExceptions` look first
  and insert after other awaits, without a key to stop a second one.
* *Two verdicts from one rule.* The Boolean of `image-compliance-service.ts` and
  the map it fills use different comparisons; the facade answers with the map.
* *A request in many steps.* The webhook creates and queues images, container
  by container, while the same images are created elsewhere and scans end.
* *Jobs that select and then update*, such as the exception status job.
* *Jobs that overlap themselves.* Cron starts a cluster sync or a Gatekeeper
  sync whether or not the last one has ended (`cron-jobs.controller.ts:35`).
* *Promises nobody awaits.* Namespaces (`kubernetes-cluster.service.ts:87`),
  Gatekeeper patches (`exception-block.service.ts:46`), the queue flag.
* *Whole rows written back.* A switch of a cluster reads the row, calls
  Kubernetes and writes every column (`cluster.service.ts:178`).
* *Edits that move what others rely on.* An edit of a cluster writes any column
  its body names, the kube config and the switches among them
  (`cluster.service.ts:143`): where the webhook was installed and where the row
  points to are then two places.
* *Caches.* Falco rules live a minute in the process (`falco.service.ts:278`).

`hazards` in `PROJECT.json` lists these with their lines and the properties for
them; the few without a property say why.

### What makes each part correct

* Scans: a job is handled once at most, verdicts are backed by stored rows,
  digests are not overwritten, one row per policy is the latest, jobs end.
* Compliance: exceptions and looser policies never hurt, and the map is never
  more lenient than the rule.
* Grace periods: one per issue, it ends, and it is stored when it is granted.
* Admission: no unscanned image without an exception is let in, however
  requests overlap; every new image is scanned; a good image gets in.
* Cluster sync: a sync that reports success has recorded what it saw; whatever
  overlaps, fails or dies, the tables come to show the cluster again.
* Clusters: enforcement has its webhook, edits are not lost, deleted is deleted.
* Gatekeeper: templates follow the exceptions, constraints go before templates.
* Falco: the first rule decides, edits take effect, every recipient hears.
* Nightly job: what runs is scanned again and again; the history is consistent.

## 2. Modules

| Module | Models | Built on |
|---|---|---|
| `ScanPipeline` | scan requests, RabbitMQ, trawlers, `saveImageScanResults`, row transactions | |
| `ScanJobs` | what the queue promises: the abstract at-most-once job | implemented by `ScanPipeline` (`ImplementsScanJobs`) |
| `ImageCompliance` | the compliance service, result map and facade, before temporary exceptions | |
| `TempExceptions` | temporary exceptions, exceptions in force, the status job | |
| `Admission` | the webhook's `validateRequest` among scans, other requests, API and sync | one action stands for `ScanPipeline`, one predicate for `ImageCompliance` |
| `ClusterSync` | what both halves of a sync share: positions, faults, who is alone | extended by the next two |
| `ImageSync` | the images a cluster runs: `saveK8sImages`, `updateRunningImages` | `ClusterSync` |
| `PodSync` | namespaces, pods and their links to images | `ClusterSync`; takes from `ImageSync` the set of images that could be saved |
| `Clusters` | cluster rows, the switches, the webhook | |
| `Gatekeeper` | exception lists in templates, deployment and deletion of templates | exceptions of type gatekeeper only |
| `FalcoAlerts` | an event from rules to mails | |
| `Nightly` | history of a day, rescans | one action stands for `ScanPipeline`, verdicts are chosen |
| `*_proofs` | theorems of the module named; `Exceptions_proofs` is about `ImageCompliance` and `TempExceptions`, `Sync_proofs` about `ImageSync` and `PodSync` | extend it |
| `MC*` | instances for TLC | |

### ScanPipeline and ScanJobs

A job is named by the request that created it. Its progress is in three
variables: `request[j]` (`createImageScanByImageId`: reading, sending,
flagging), the place of the job (`broker`, `inbox`, `scanning`) and `save[j]`
(`saveImageScanResults`: look up the image, find it by digest or create it,
evaluate, write rows, update the image, clear the flag). `tx[r]` and
`snapshot[r]` are the transaction of one row: an UPDATE that matches the rows
committed when it runs, then an INSERT and commit. A step ends at every await
after which another handler can be seen. The webhook, the API and the sync
create the first row of an image with an empty hash, a temporary hash or a
digest: the three initial states. `TrawlerCrash` loses buffer and job,
`BackendCrash` stops all requests and saves and rolls open transactions back,
`SlowClient` lets a trawler go on before the save ends. A row fails with its
transaction, or after its commit, when the event that reports it cannot be stored
(`FailRow`). `SetQueued` is the call that nobody awaits: it may come after the save
that clears the flag. The history variable `flagLeft` holds the jobs whose flag stays
on for that reason, or because their save broke off before `ClearQueued`;
`QueuedIsOwed` says that no other flag outlives its job.

Left out: which issues a scan finds (a policy passes or not), Trivy's
errors as a kind of their own, deletion of images.

### ImageCompliance

State: settings of policies and scanners, the kind of the latest result per
policy, its issues, the exceptions in force. `Rule` is the Boolean of
`isImageCompliant`; `Compliant` is what the map answers; both are operators
over the same helpers (`Considered`, `Remaining`, `Group`, `Failed`), one per
function of the service. The actions are the changes of settings, scans and
exceptions between two evaluations.

### TempExceptions

One policy and one cluster. An evaluation reads the exceptions in force, asks
per issue whether a temporary exception exists, inserts the missing ones and
links them, one await after the other; days pass, administrators move end dates
and delete, and the daily job selects expired rows and updates them one by one.

### Admission

`phase[e]` is the await at which request `e` waits: the lookup of the next
container, the check and the insert of `createImage`, its scan request, the
read of the exceptions, the evaluation of one image. `todo`, `check`,
`waived` and `held` are the loop's remaining containers,
`imagesToCheckCompliance`, the containers with an exception and the Boolean
"some container speaks against the pod". Containers are looked up in any order,
which covers every order in the pod. `Scan`, `ApiCreates`, `SyncCreates` and `Change` are the
rest of the system: each is one step here. A row keeps its first result;
results that turn a verdict round are changes of `compliant`. An exception here
means one for every policy, scanner and issue of the image, the only kind that
counts for an image that has not been scanned. Two simplifications: an
image counts as scanned from its first result on (`Lookup`; the webhook reads
`images.updated_at`, `image.dao.ts:200`, which other writes of the row set as well),
and the compliance of an image does not depend on which policies the cluster has
(`Complies` reads `compliant`, which `Change` turns round at any time).

### ImageSync and PodSync

Two modules for the two halves of `KubernetesClusterService.sync`, over the
common `ClusterSync` (where a sync stands, failures, crashes of the process).
Names that both would use carry `Image` or `Pod` in front, so that one module can
hold the proofs of both. In both, a
sync is a process whose steps are the queries of the code in their order, and
any number of syncs may be at different steps. `ImageSync` goes through the
listed images (`FindImage`, `CheckImage`, `CreateImage` for `images`;
`FindK8sImage`, `CreateK8sImage` for `kubernetes_images`) and ends with the
three statements of `updateRunningImages`, which run in parallel. `PodSync`
starts with the namespaces: `saves` holds the promises that go on after
`syncNamespaces` has moved to the dead ones. Then pods are found or created,
unlinked and linked again, and rows of names that were not listed are deleted.
`saved` is what `ImageSync` hands over: the images with an id. `alone` is a
history variable: no other sync was in progress since this one began.
An image has one row in `PodSync`, equal namespace rows count once. A call may
fail after what it did was stored: the event after the insert of a row of
`kubernetes_images` (`CreateK8sImage`), the commit of the links of a pod
(`PodFails`); a list of namespaces that cannot be read ends with nothing saved
(`ListSpaces`).

### Clusters

A request waits at `pc[r]` for a query or a call: `insert`, `hook` (is there a
webhook?), `install`, `write`, `drop`. A row is its name, the Kubernetes that
its kube config and context point to, and the two switches; the other columns are
written like the name. An edit writes the columns that its body names, whichever they are
(`Changes`, `Asked`), and may install the webhook afterwards; a switch writes all of
`copy[r]`, the row it has read. `Bodies` is the set of bodies that are sent. They name
the cluster (without a name the search for it throws) and documented columns: the edit dialog sends name, group
and tags, the wizard that is run again a kube config and a context, and only
a direct call of the API the switches; a `deletedAt` in a body is not considered.
`webhook` holds pairs of a Kubernetes and a cluster, since calls go to where
the row points at that moment (`HookOf`).

History variables: `asked` (the value last asked for, per column), `raced`
(clusters of which two requests overlapped), `met` (requests that overlapped with
another of their cluster), `former` (where an edit has pointed a row away from) and
`doubt` (clusters whose webhook may be missing: created or edited with the switch on,
pointed elsewhere, not installed because of an error, or being deleted; until
a request that met no other has found or installed the webhook).

### Gatekeeper

A sync goes cluster by cluster and template by template (`ListDeployed`,
`ReadCommon`, `ReadIssue`, `WriteTemplate`) and sends patches into `patches`,
from where they arrive in any order or are lost. A template is a pair of lists
of entries, one by namespace, one by namespace and image, and whether its rules
are the library's or an editor's. The editor loads a template and puts it back
later; a deletion lists the constraints, deletes them in parallel
(`SettleConstraints`), and goes on only if all calls succeeded.

An exception whose `image_match` is null (`NoPattern`) makes the code throw as soon as
one of its namespaces counts (`Throws`). A common one throws before the loop over the
templates and ends the sync for every cluster (`ReadCommonThrows`); one of a template
skips that template (`TemplateThrows`). The forms of the front end send a pattern, `%`
for any image, so only a direct call of the API stores such a row; an update
without the field leaves the stored pattern (`UpdateException`). `Written` bounds what
administrators write. An exception is created in one step, the code inserts the row
and its links one after the other (`exceptions.dao.ts:35`): in between it looks like
an exception without clusters or namespaces, which is also a row of its own here,
and the sync that follows the creation reads it whole.

### FalcoAlerts

Requests step through `query` and `fill` (the cache), `insert`, `settings`,
`last` (the last mail), `mail` and `record`. Events are anomaly signatures;
`Frequency` and `CacheTTL` are counted in ticks of ages that stop at the bound,
so the system runs for ever in finitely many states.

### Nightly

`step` is the position in `KubernetesHistoryCommand.get`; `left`, `list`,
`terms` are the loops of `rescanIfNeeded` over clusters, images and policies,
with what they read. Syncs, administrators and other requests change rows
between any two steps. A failure ends the job where it is, but for the copy of a
single namespace or pod, which is logged and skipped.

## 3. Runs

Every run ends within five minutes on two workers. Deadlock is not checked:
with bounded jobs, rows and days the systems may stop, and a quiet
system is a good state of each of them.

| Run | Instance | Shows |
|---|---|---|
| `pipeline_serial` | 1 trawler, 2 policies, 2 digests, 2 jobs; no faults; fairness | accepted jobs are saved; without overlapping saves one row per policy stays latest and no digest is rewritten |
| `pipeline_faults` | 1 trawler whose calls time out, 1 policy, all faults, policy changes; fairness | at-most-once delivery, queue flags that are owed a scan, verdicts backed by rows, some row stays latest; refinement of `ScanJobs`; no job is in flight for ever |
| `compliance_answers` | 2 policies, 3 scanners, 4 issues, 2 exceptions | the map is never more lenient than the rule; exceptions and looser settings never hurt |
| `grace` | 2 issues, a namespace and the cluster, 3 days, failures, moved end dates, deletions; fairness | one grace period per issue, which ends; excuses are stored; the status job turns off what has expired and nothing else |
| `admission_pods` | 2 containers, every change and fault, 2 rows from API and sync | no container gets lost in the loop; no unscanned image is admitted |
| `admission_requests` | 2 requests, moving tags, API and sync; fairness | every stored image is scanned; the newest row decides, and a good one lets the pod in |
| `falco` | 2 clusters, 2 events at once, 2 recipients, 2 edits, a failure; fairness | the first rule holds; edits take effect although listings are cached; every recipient hears |
| `gatekeeper` | 1 template, 2 namespaces, exceptions with and without `image_match`, 2 overlapping syncs, 3 edits, a failure; fairness | no template goes before its constraints; templates come to carry the lists of the exceptions wherever no exception makes the sync throw |
| `sync_images` | 1 image, 2 overlapping syncs, 2 changes, a failure; fairness | typing; success means recorded; few duplicates; the tables are mended |
| `sync_pods` | 2 pods of one name, of which at most the first runs initially, 2 overlapping syncs, a change, a failure; fairness | typing; success means linked; rows of dead pods and namespaces go, those of live ones stay |
| `clusters` | 2 clusters, 2 Kubernetes, 4 bodies, 4 requests, 2 at a time, a failure or crash | enforcement has its webhook where the row points to, unless an edit has put that in doubt; only races lose changes; deletion is final and takes the webhook of the row along |
| `nightly` | 2 images, 2 pods, a change, 2 failures; fairness | rescans go on; the verdicts of the history agree |

The bounds. Two jobs and three rows of images are what it takes for two
saves to overlap and to create an image each besides the first; two policies
for the rows of one scan to interfere; two digests for a tag to move. A third
job adds no new kind of overlap: a save touches other saves only through
the rows of its image. One trawler that gives up waiting (`SlowClient`) makes
saves overlap just as two trawlers do. Two issues fill the loop of
`applyTemporaryExceptions`. The days exceed the grace period, so that
a second one could be granted and end. Two containers, with rows that API and
sync add in between, are what the loop of the webhook needs to lose one; two
requests are what a lookup and a creation need to meet. The
issues in `ImageCompliance` are a group above its limit that reaches the limit
when one issue is excepted, and one alone above or at its limit. Two syncs are
what overlapping takes; images meet in a sync only through the three statements
at its end, and one image that starts and stops twice is marked and cleared by
each of them. Two pods with one name are one that replaces another; `FromA` starts
`sync_pods` with the first of them or none, which loses nothing: exchanging the two
pods and their images maps the behaviours that start with the second to those that
start with the first, and each property to itself. Two clusters let a
name be asked for twice, and four requests let two overlap before and after a
deletion; the bodies (`MCBodies`) create two clusters in two Kubernetes, edit the name
only, point a row elsewhere and switch enforcement on. In `gatekeeper` two syncs and
a patch of each are in flight at once, and three edits create an exception, change it
and touch the template; `MCWritten` holds exceptions for all namespaces or
for one that the cluster does not know, with and without pattern, so that one
throws everywhere, one for its template only, and one nowhere.

Every type invariant is proved (section 5), which covers every instance of it;
the runs of `ImageSync` and `PodSync` also check theirs.

Symmetry is used only in runs without liveness properties, over values that
Init and every action treat alike.

## 4. Fairness

* `ScanPipeline`: weak fairness of each request's, save's and row's next step
  (the Node event loop and PostgreSQL run what is ready), of each trawler's
  loop, and of delivery by the broker. Requests, crashes, faults and policy
  changes are owed to nobody.
* `TempExceptions`: weak fairness of the scheduled status job and of each of its
  updates. Evaluations and administrators have none.
* `Admission`: weak fairness of each request's handler and of the end of each
  queued scan (justified by `JobsEnd` and `JobsAreSaved` when nothing fails), and
  of the submission of pods: the controller of a workload creates a pod that was
  refused again. Nothing is assumed of administrators, API and sync. The
  liveness runs have no faults.
* `ImageSync`, `PodSync`: weak fairness of every sync's next query and of
  starting a sync (cron), and of the next step of the namespace save of each sync,
  namespace and position. Pods, failures and crashes
  are bounded, so the cluster becomes quiet in the end; `TablesAreMended` assumes
  in its statement that at some time syncs stop overlapping.
* `FalcoAlerts`: time passes, requests in progress go on (weak), and an anomaly
  that goes on is posted again (strong, since the process may be busy): Falco
  itself repeats alerts. `EveryRecipientHears` is about such an anomaly.
* `Gatekeeper`: weak fairness of the cron job's start, of each sync's steps, of
  answers to administrators' requests, and of the arrival of the patches of one
  sync for one template.
* `Nightly`: midnight comes, the job's next step is taken, requested scans end
  (all weak).
* `ImageCompliance` and `Clusters` have no liveness property and no fairness.

## 5. Proofs

All theorems hold for any constants that meet the named assumptions; the bounds
of the runs (jobs, rows, images) are arbitrary numbers there.

| Theorem | Says |
|---|---|
| `ScanPipeline_proofs!TypeCorrect` | typing |
| `ScanPipeline_proofs!JobsAreDeliveredOnce` | `[]OneDelivery` |
| `ScanPipeline_proofs!VerdictsAreBacked` | `[]VerdictHasRows` |
| `ScanPipeline_proofs!QueuedHasReason` | `[]QueuedIsOwed` |
| `ScanPipeline_proofs!ALatestRowRemains` | `[]SomeRowIsLatest` |
| `ScanPipeline_proofs!PipelineImplementsJobs` | `ImplementsScanJobs`: `ScanPipeline` implements `ScanJobs` |
| `ScanPipeline_proofs!OnlyOverlapDuplicates`, `OnlyOverlapChangesDigests` | `[]LatestIsUnique` and `HashIsKept`, if no two scans store results of one image at a time |
| `ScanPipeline_proofs!SerialScansAreUnique`, `SerialScansKeepDigests` | the same for one trawler that waits for its answers, without failures |
| `ScanPipeline_proofs!OnlyInsertRacesLoseJobs` | `[]NoJobIsLost`, without failures, while a policy is enabled and no other save creates the image a save is about to create |
| `ScanPipeline_proofs!SerialJobsAreNotLost` | the same for one trawler that waits for its answers |
| `Exceptions_proofs!RulesTypeCorrect` | typing of `ImageCompliance` |
| `Exceptions_proofs!ExceptionsAreMonotone` | `ExceptionsNeverHurt` |
| `Exceptions_proofs!MapIsStricter` | `[]MapNeverMoreLenient` |
| `Exceptions_proofs!LooseningIsSafe` | `LooseningNeverBlocks` |
| `Exceptions_proofs!VerdictsPartOnlyThere` | `[]VerdictsPartThere`: where the result map and the rule differ, and that they differ nowhere else |
| `Admission_proofs!TypeCorrect` | typing; a queued id is a stored row |
| `Admission_proofs!ContainersAreTracked` | `[]NoContainerIsLost` |
| `Admission_proofs!UnscannedIsNotAdmitted` | `[]AdmittedIsScanned` |
| `Admission_proofs!NoImageIsForgotten` | `[]Unforgotten`, without failures and while a policy applies to the cluster |
| `Exceptions_proofs!TypeCorrect` | typing of `TempExceptions` |
| `Exceptions_proofs!ExcusesAreStored` | `[]ExcusedIsStored` |
| `Exceptions_proofs!OnlyExpiredAreTurnedOff` | `OnlyExpiredGoInactive` |
| `Exceptions_proofs!OnlyRacesGrantAgain`, `OnlyRacesExcuseAgain` | `[]GraceOnce`, `[]GraceEnds`, if no two evaluations of related scopes are about to create an exception for one issue |
| `Exceptions_proofs!OneGracePeriod`, `GracePeriodsEnd` | `[]GraceOnce`, `[]GraceEnds`, for one evaluator |
| `Sync_proofs!ImagesTypeCorrect`, `PodsTypeCorrect` | `[]ImageTypeOK`, `[]PodTypeOK` |
| `Sync_proofs!SuccessfulSyncMirrorsTheCluster` | `[]SuccessMirrorsTheCluster` |
| `Sync_proofs!RowsPerImageAreFew` | `[]FewRowsPerImage` |
| `Sync_proofs!SuccessfulSyncMirrorsThePods` | `[]SuccessMirrorsThePods` |
| `Sync_proofs!RowsPerPodAreFew` | `[]FewRowsPerPod`: a pod has at most as many rows as there are syncs |
| `FalcoAlerts_proofs!TypeCorrect` | typing |
| `FalcoAlerts_proofs!FirstRuleAlwaysHolds` | `[]FirstRuleHolds` |
| `FalcoAlerts_proofs!OnlyEditsMakeStale` | from a state in which all listings are those of the rules, they stay so until a rule is edited |
| `FalcoAlerts_proofs!NobodyIsLeftOut` | `[]RecordedIsMailed`: before the first failure, an anomaly on record as mailed has reached every recipient or is being mailed |
| `Gatekeeper_proofs!TypeCorrect` | typing; no template and no patch has an empty list |
| `Gatekeeper_proofs!ConstraintsFirst` | `ConstraintsGoFirst` |
| `Gatekeeper_proofs!SettledSyncsDeliver` | once nobody edits, nothing fails and no common exception throws, a sync that begins ends with every template as the exceptions say, but for those whose own exceptions throw, and it stays so |
| `Clusters_proofs!TypeCorrect` | typing |
| `Clusters_proofs!DeletionIsFinal` | `DeletedStaysDeleted` |
| `Clusters_proofs!EnforcementIsInstalled` | `[]EnforcedHasWebhook` |
| `Clusters_proofs!OnlyRacesLoseChanges`, `DeletionTakesWebhook` | `[]ChangesAreKept`, `[]DeletedHasNoWebhook` |
| `Clusters_proofs!OnlyRacesShareNames` | `[]NamesDiffer`, if no two requests are about to write one name |
| `Nightly_proofs!TypeCorrect` | typing |
| `Nightly_proofs!HistoryAgrees` | `[]VerdictsAgree` |

*Delivery.* `OneDelivery` says where jobs are but not that a job's request has
been accepted once it is scanned or saved, so a publication could meet a
job that is already handled. `DeliveryInv` adds that: whatever is scanned, saved
or written was accepted before, so `Publish` adds a job that is nowhere yet. Steps are grouped
by what they move; a lemma for steps elsewhere covers the rest. The
queue lemmas (`AppendHolds`, `TailHolds`) say what ranges and injectivity do.

*Verdicts.* `VerdictHasRows` is not inductive: its witness could be a job that
is still writing. `VerdictInv` ties rows to the progress of a save
(`RowsFollowSave`: past the writing phase all rows are stored) and takes as
witness a job that is past it (`VerdictHasJob`).

*Latest rows.* A transaction that commits takes the mark only from the rows in its
snapshot and gives it to its own row, so some row stays marked if the snapshot
holds rows of that one image only. `LatestInv` says so: the target of a job that
writes is fixed, and an open transaction has seen committed rows of its target.

*Queue flags.* `QueuedIsOwed` is inductive next to typing. The image of a job and its
acceptance never change, so a job that owes a scan (`Owed`) goes on to until its own save
ends (`OwedStays`), and an end either clears the flag of the image it wrote or is one
that leaves it (`SaveOwes`); a flag set later than that is one of `flagLeft`.

*Overlapping saves.* `LatestIsUnique` and `HashIsKept` are false when saves
overlap (section 8). `OneAtATime` says what has to be excluded: two jobs that have
chosen the same image and are both still storing results, the transactions that a
failed save has left behind included. It is a hypothesis of the first pair of
theorems, which allow any number of trawlers, timeouts, failures and crashes.
`UniqueInv` adds that an open transaction has matched every stored row of its
image and policy; a row committed after its UPDATE would be of a second job that
stores. `HashInv` adds that from the choice of an image to its update the image has
the posted digest, unless none was posted or its own is temporary, and that a row
inserted meanwhile takes an id that no job refers to. The second pair drops the
hypothesis: with one trawler that waits, `SerialInv` shows that only the job in the
trawler's callback has a save in progress and only its rows are open. Its
hypotheses are those of the run `pipeline_serial` (policies may change as well).

*Refinement.* `State` is what `ScanJobs` knows of a job: not sent, waiting, being
scanned, saved, recorded or lost. A publication, the start of a scan, the POST and
the update of the image are one abstract step each (`AdvanceIs`), which
`DeliveryInv` shows to start where the abstract job is. Everything else, a crash
included, may only turn jobs into lost ones (`OnlyLoses`), several at a time.
`TargetInv` gives the image that is recorded: a job past the lookup has one, and
`VerdictInv` rules out that a transaction fails for a job already recorded.

*Compliance.* Exceptions and looser settings can only take issues out of a
group; lemmas about groups that shrink, and the cardinality of subsets, carry
the comparisons with the limits. `VerdictsPartThere` makes `MapNeverMoreLenient` exact:
the map turns down what the rule accepts where a group has exactly as many issues
as allowed, or where a policy that is not enforced passes by some of its scanners only.

*Admission.* `AdmittedIsScanned` speaks of answers only. `NoContainerIsLost`
adds the loop: as long as nothing holds the pod, a container is in `todo`,
waived or scanned, `evaluate` is reached with nothing left to do, and an answer
belongs to an idle request. The rest is that rows only grow and a scanned
reference stays scanned (`StepsLetRowsGrow`).

*Grace periods.* `ExcuseInv` adds to `ExcusedIsStored` where the exception of
an excused issue stands while it is being inserted and linked; it holds for any
number of evaluators. `GraceOnce` and `GraceEnds` are false when evaluations
overlap (section 8); `NoRace` says which overlap is to blame: two evaluations, of one
scope or one of them cluster-wide, that are both between the end of their lookups
and their answer and want an exception for the same issue. With that excluded
`GraceInv` is inductive: what an evaluation is about to create is covered by no
stored row (`NotCovered`), the row it has inserted and not linked is the last that
covers its issue (`PendingIsLast`), and what it excuses by a row of its own scope, now or
once that row is linked, outlives its day. One evaluator cannot race with itself,
which gives the theorems for `Evaluators = {e}`.

*Cluster sync.* `ImageTypeInv` and `PodTypeInv` add to typing what keeps the loops
going: there is an instance left exactly while the sync is in the loop over
instances, so every `CHOOSE` of the models has something to choose. `Alone` says
that a sync which is still alone is the only one in progress, so that nothing but
its own steps touches the tables. What a lone sync has done is then told in
the order of its queries. For images (`ImageSyncInv`): the ids it keeps are those of
rows of listed images, one for each image that is done; likewise for the rows of
`kubernetes_images`; and each of the final statements that has been answered has
left the tables as it should (`RowsMarked`), in any order of the three. For pods
(`PodSyncInv`): pods that are done have a row with exactly their images, the pod at
hand has a row and, once unlinked, no links, no two listed pods share namespace
and name (`Distinct`), and after the dead rows have gone only listed names are left.
The tables the sync met are arbitrary, so it covers what failed, overlapping and
killed syncs leave. `FewRowsPerImage` is about overlapping syncs: `Few` counts with
the rows of an image the syncs that have found none and are about to insert one.
The first insert can only follow checks made while there was no row, one per sync;
later checks find a row and add nothing to the sum. Pods are counted in the same way
(`Room` and its lemmas serve both), although their rows are deleted meanwhile: that
only makes room.

*Falco.* `FirstRuleInv` follows the first rule from the table into listings, the
cache and the decision: each of them `Begins` with it. `UpToDate` adds to the caches the
requests that are about to fill them; nothing but an edit breaks it. `MailInv` says
that a request which is mailing has everyone left before it who has had no mail.

*Gatekeeper.* That no list is empty is part of typing: `CompletedType` says that
a list completed by `Everyone` is full whatever the exceptions are.
`ConstraintsGoFirst` rests on a request that may drop its template having no
constraint left. `SettledSyncsDeliver` begins where edits and failures have ended and
no older patch is under way: `Fresh` says that all that is read or sent from then
on is what the exceptions say, so the order in which patches land is of no
matter, and `Covered` that a template which does not follow yet has a patch under way, is
still to be reached by the sync, or has an exception that throws. The theorem assumes
`~SyncsThrow`: with a common exception without `image_match` that applies in some
cluster no sync comes to its end, and nothing of the kind could be shown
(`ThrowsStay`, `NoneRejects`).

*Clusters.* `EnforcedInv` adds what requests carry (`ReadsFit`): unless the cluster is
in doubt, a switch in progress has read the Kubernetes the row still points to,
and a copy with enforcement, or a write that switches it on, is of a cluster whose
webhook is there. Doubt ends only with a request that met no other, since only then
no stale copy is about to be written. `AloneInv` says what a request that runs
alone has read: its copy is the row. `HooksInv` is for deletions: a webhook is where
its row points to or where an edit pointed it away from (`Known`), and one that
is dropped without errors or overlaps has none where it points to (`Gone`, `Dropped`).
`NameInv` says that the name a request is going to write is free but for its own row;
`NoNameRace` excludes that two requests are about to write the same one, as
`createCluster` and `updateCluster` check before calls to Kubernetes. A switch
counts: it writes back the name it has read.

*Nightly.* `VerdictsAgree` is inductive next to typing, since the
namespaces are judged last, by the pods as they stand.

*Nothing is lost.* Some liveness properties rest on a safety property: what
has to happen is always pending somewhere. That half can be proved.
`Unforgotten`: an image without a result is
queued, or the request that created it is about to queue it; a step that ends the
one begins the other. `KeptInv`: no save fails, and a job that was accepted
and is not being saved is waiting or with a trawler. `NoInsertRace` excludes the
one thing that makes a save fail without a failure: the posted digest was not found,
and another save gives it to an image before `createImage` looks again and throws.
Both need a policy that applies to the cluster: without one the request throws after
the image is stored, and trawler drops the job it has acknowledged. The other three are
`UpToDate`, `Fresh` with `Covered`, and `MailInv` above.

`OneAtATime`, `NoRace`, `NoInsertRace` and `NoNameRace` are hypotheses about states. The code
does not enforce them; the theorems say that nothing else than these overlaps does the
harm. Requests, evaluations and saves that come one after the other meet all four.

Model-checked only: liveness (`JobsEnd`, `JobsAreSaved`, `FirstScanComes`,
`ReadyPodsGetIn`, `ExpiredGoInactive`, `RulesTakeEffect`, `EveryRecipientHears`,
`TemplatesFollowExceptions`, `TablesAreMended`, `PodsConverge`,
`SpacesConverge`, `RescansGoOn`), which is out of the prover's reach, but for the
halves above: that the pending step is taken needs fairness. Every safety
property that a run checks, invariant or action property, is also proved.

## 6. What could follow

* Proofs: an abstract specification of the cluster's tables that both halves of a
  sync implement.
* Deleted images: the lookups by name, tag and digest disagree on whether they
  see them (section 8).
* `ScanRunner`: several scanners of a policy, and which of them decides
  `encounteredError`.
* Deployments, which a sync saves like pods.

## 7. Not modelled

* The front end, log-in and tokens, CRUD of rows that nothing else depends on,
  SQL reports and metrics, the parsing of image names and registry aliases, the
  text of Gatekeeper templates, report formats of the other scanners, migrations.
  They are most of the repository, which is why the models cover only a small share of
  its lines; `PROJECT.json` lists them as components with the reason.
* Deletion of images, single scanners of a scan, deployments: see section 6.
* Trivy, Kubernetes, SMTP and RabbitMQ are external; what they answer is chosen
  nondeterministically.

## 8. Where documents and code disagree

Places where the models, or widening a constant of a run, show that the program
does something else than its documentation, comments or names say. The
properties of the runs state what the code does keep.

1. *A readable non-compliant verdict without a failing row.* The save of each
   policy's row clears the latest mark of the whole image
   (`image/dao/image.dao.ts:413`), so that one policy's row hides another's:
   the image is non-compliant although its latest rows pass, against
   `docs/.../enabling-enforcement.md:14`. With overlapping saves (`SlowClient`, or
   two trawlers) two rows stay latest (`LatestIsUnique`); with two trawlers a
   digest is overwritten by a scan that began on a temporary hash (`HashIsKept`);
   with two evaluators a grace period is granted twice (`GraceOnce`).
2. *As many issues as allowed already fail.* `image-compliance-service.ts:301`
   against its comment at `:297`.
3. *A new image under default allow* is admitted on the second request
   although nothing was scanned: `cluster-validation.service.ts:179` against the
   comment at `:85`.
4. *An image the webhook creates* has an empty digest (`:176`), which the
   trawler turns into `name@sha256:` (`DockerImage.java:77`): that row's scan
   never succeeds, against the comment at `:30`.
5. *When a Falco mail was last sent.* `falco.dao.ts:302` finds "when the falco
   email was las sent", but the query has no order and takes the first row.
6. *Gatekeeper exceptions* "work just like" exceptions of images, says the manual
   (`reviewing-exceptions.md`), but `exception-block.service.ts:240` writes
   namespaces and images into two independent lists, and start and end dates
   are not looked at.
7. *A rescan period of 0* disables rescans, says the comment
   `image-rescanning.service.ts:18`; the code rescans every night.
8. *"Every 30 minutes"*, says `config/node-cron.ts`; `30 * * * *` is once an
   hour.
9. *A cluster-wide evaluation* does not see the temporary exception of a namespace
   and grants the issue a second grace period there (`GraceEnds` speaks of an
   issue within its scope).
10. *The status job* turns off an exception whose end has been moved after the
    job selected it (`exception.command.ts:19`).
11. *Dead pods* are found by their names without the namespace
    (`kubernetes-cluster.service.ts:178`): a pod stays in the database as long as
    a namesake runs elsewhere.
12. *A cluster that is pointed elsewhere.* "Don't change the kube config if it shouldn't
    be changed" (`cluster.service.ts:156`), but an edit whose body has one writes it and
    leaves the switches as they are: a cluster that enforced goes on saying so in a
    Kubernetes without the webhook, unless the same edit installs it. The webhook in the
    old one stays and its deletion is never tried again: `deleteClusterWebhook`
    knows the row's Kubernetes only. The API also takes the switches themselves
    in an edit or a creation, and then installs nothing. These are the clusters in
    `doubt` and `former` that `EnforcedHasWebhook` and `DeletedHasNoWebhook` set apart.
13. *An exception without `image_match`* is optional in the API
    (`exceptioncreateDto.ts`) and taken for any image where images are judged
    (`exceptions.service.ts:282`), but a common one of type gatekeeper with a
    namespace to apply to makes every sync throw (`exception-block.service.ts:248`,
    called at `:33` outside the `try`): no template of any cluster is brought up to date
    until it is gone. One with a cluster stops only the templates of its issue there.
14. *A queue flag that stays on.* The write of `image.service.ts:217` is not awaited
    and may come after the save that clears it; a save that breaks off does not clear it
    either, and results filed under another row clear that row's flag
    (`QueuedIsOwed`). The flag then says that a scan is queued until the next one ends.
15. *A deleted image* cannot be created again under its digest:
    `image.service.ts:63` finds the deleted row, which `:148` does not return.

Others can be read off the definitions: a deleted temporary exception is
forgotten (`TempExceptionCreated`); issues of a deleted scanner make every
evaluation throw (`Throws`); scanners that are not required decide unless the
policy is enforced (`Considered`); one passing scanner is not enough
although the Boolean says so (`Failed`, `PolicyPasses`); results of disabled
policies do not count (`Results`); the webhook reads neither init containers nor
the content a tag points to by now (`Submit`, `Complies`).
