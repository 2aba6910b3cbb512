------------------------------ MODULE Clusters ------------------------------
(***************************************************************************)
(* The clusters of the dashboard and the admission webhooks it installs in *)
(* them.  A cluster is created, edited and deleted by administrators, who  *)
(* also switch the enforcement of admission and of image scanning.  Every  *)
(* request is a chain of queries and calls to Kubernetes, requests overlap *)
(* and the two switches write back the whole row that they have read.      *)
(*                                                                         *)
(* A row stands for four columns: its name, the Kubernetes that its kube   *)
(* config and context point to, and the two switches.  An edit writes the  *)
(* columns that its body names, whichever they are.  Calls to Kubernetes   *)
(* whose errors are logged and forgotten may have no effect; others end    *)
(* the request.                                                            *)
(***************************************************************************)
EXTENDS Naturals, FiniteSets

CONSTANTS
  Clusters,     \* ids of rows ever inserted
  Names,
  Kubes,        \* the Kubernetes that a kube config and a context may point to
  Keep,         \* in a body: the column is not named
  Bodies,       \* what a creation or an edit may ask for
  Requests,     \* requests in progress at once
  MaxRequests,  \* bound: requests ever made
  MaxFaults     \* bound: calls that fail, crashes

Changes == [name : Names \cup {Keep}, kube : Kubes \cup {Keep},
            enforced : BOOLEAN \cup {Keep}, scanning : BOOLEAN \cup {Keep}]

ASSUME ClustersAssumption ==
  /\ {MaxRequests, MaxFaults} \subseteq Nat
  /\ Clusters # {} /\ Names # {} /\ Kubes # {}
  /\ Keep \notin Names /\ Keep \notin Kubes /\ Keep \notin BOOLEAN
  /\ Bodies \subseteq {b \in Changes : b.name # Keep}

VARIABLES
  row,       \* rows of clusters, with deleted_at as "deleted"
  webhook,   \* <<k, c>>: k has the ValidatingWebhookConfiguration named after c
  pc,        \* per request: what it does next
  request,   \* per request: what it was asked
  copy,      \* per request: the row that it has read
  requests,
  faults,
  asked,     \* per cluster: the columns as the last request to write them asked
  raced,     \* clusters of which two requests were in progress at once
  met,       \* requests that were in progress at once with another of their cluster
  former,    \* <<k, c>>: a write has pointed c from k to another Kubernetes
  doubt      \* clusters whose webhook may be missing, see EnforcedHasWebhook

history == <<asked, raced, met, former, doubt>>
vars == <<row, webhook, pc, request, copy, requests, faults, history>>

Columns == [name : Names, kube : Kubes, enforced : BOOLEAN, scanning : BOOLEAN]
RowStates == {"none", "live", "deleted"}
NoRow == [name |-> CHOOSE n \in Names : TRUE, kube |-> CHOOSE k \in Kubes : TRUE,
          enforced |-> FALSE, scanning |-> FALSE]
Kinds == {"create", "update", "enforced", "scanning", "delete"}
Asks == [kind : Kinds, cluster : Clusters, changes : Changes, install : BOOLEAN]
Nothing == [name |-> Keep, kube |-> Keep, enforced |-> Keep, scanning |-> Keep]
NoAsk == [kind |-> "create", cluster |-> CHOOSE c \in Clusters : TRUE,
          changes |-> Nothing, install |-> FALSE]

TypeOK ==
  /\ row \in [Clusters -> [state : RowStates, data : Columns]]
  /\ webhook \subseteq Kubes \X Clusters
  /\ pc \in [Requests -> {"idle", "insert", "write", "hook", "install", "drop"}]
  /\ request \in [Requests -> Asks]
  /\ copy \in [Requests -> Columns]
  /\ requests \in 0 .. MaxRequests /\ faults \in 0 .. MaxFaults
  /\ asked \in [Clusters -> Columns]
  /\ raced \subseteq Clusters /\ met \subseteq Requests
  /\ former \subseteq Kubes \X Clusters /\ doubt \subseteq Clusters

Init ==
  /\ row = [c \in Clusters |-> [state |-> "none", data |-> NoRow]]
  /\ webhook = {}
  /\ pc = [r \in Requests |-> "idle"]
  /\ request = [r \in Requests |-> NoAsk]
  /\ copy = [r \in Requests |-> NoRow]
  /\ requests = 0 /\ faults = 0
  /\ asked = [c \in Clusters |-> NoRow]
  /\ raced = {} /\ met = {} /\ former = {} /\ doubt = {}

-----------------------------------------------------------------------------

At(r, step) == pc[r] = step
Goes(r, step) == pc' = [pc EXCEPT ![r] = step]
Fault == faults < MaxFaults /\ faults' = faults + 1
Live == {c \in Clusters : row[c].state = "live"}
Cluster(r) == request[r].cluster

Begins(r) == At(r, "idle") /\ requests < MaxRequests /\ requests' = requests + 1

(* A request that has found its cluster; which of them met.                *)
Busy(r) == pc[r] \notin {"idle", "insert"}

Enters(r, ask) ==
  LET others == {q \in Requests \ {r} : Busy(q) /\ Cluster(q) = ask.cluster}
      meets  == IF ask.kind = "create" \/ others = {} THEN {} ELSE {r} \cup others
  IN  /\ request' = [request EXCEPT ![r] = ask]
      /\ met' = (met \ {r}) \cup meets
      /\ raced' = IF meets = {} THEN raced ELSE raced \cup {ask.cluster}

NameTaken(n, ids) == \E c \in ids \cap Live : row[c].data.name = n

(* What a row becomes: columns that are not named stay as they are.        *)
Or(value, old) == IF value = Keep THEN old ELSE value
Asked(r, data) ==
  LET b == request[r].changes
  IN  [name     |-> Or(b.name, data.name), kube |-> Or(b.kube, data.kube),
       enforced |-> Or(b.enforced, data.enforced),
       scanning |-> Or(b.scanning, data.scanning)]

(* Between the search for the name and the insert a service account is     *)
(* made in the cluster.                                                    *)
Create(r, body, install) ==
  /\ Begins(r) /\ body.kube # Keep /\ ~NameTaken(body.name, Clusters) /\ Goes(r, "insert")
  /\ Enters(r, [NoAsk EXCEPT !.changes = body, !.install = install])
  /\ UNCHANGED <<row, webhook, copy, faults, asked, former, doubt>>

Insert(r) ==
  LET data == Asked(r, NoRow)
  IN  /\ At(r, "insert") /\ Goes(r, IF request[r].install THEN "hook" ELSE "idle")
      /\ \E c \in Clusters :
           /\ row[c].state = "none"
           /\ row' = [row EXCEPT ![c] = [state |-> "live", data |-> data]]
           /\ asked' = [asked EXCEPT ![c] = data]
           /\ request' = [request EXCEPT ![r].cluster = c]
           /\ doubt' = IF data.enforced THEN doubt \cup {c} ELSE doubt
      /\ UNCHANGED <<webhook, copy, requests, faults, raced, met, former>>

Update(r, c, body, install) ==
  /\ Begins(r) /\ c \in Live /\ ~NameTaken(body.name, Clusters \ {c}) /\ Goes(r, "write")
  /\ Enters(r, [kind |-> "update", cluster |-> c, changes |-> body, install |-> install])
  /\ UNCHANGED <<row, webhook, copy, faults, asked, former, doubt>>

(* A wrong order: enforcement is switched on before there is a webhook.    *)
WritesFirst(kind, value) == "write"
FirstStep(kind, value) == IF kind = "enforced" /\ value THEN "hook" ELSE "write"

SwitchedTo(kind, value) ==
  IF kind = "enforced" THEN [Nothing EXCEPT !.enforced = value]
                       ELSE [Nothing EXCEPT !.scanning = value]

(* activateWebhook and activateImageScanningEnforcement.                   *)
Switch(r, c, kind, value) ==
  /\ Begins(r) /\ c \in Live /\ Goes(r, FirstStep(kind, value))
  /\ copy' = [copy EXCEPT ![r] = row[c].data]
  /\ Enters(r, [kind |-> kind, cluster |-> c, changes |-> SwitchedTo(kind, value),
                install |-> FALSE])
  /\ UNCHANGED <<row, webhook, faults, asked, former, doubt>>

(* An update sets the columns it names, a switch all that it has read.     *)
(* A wrong write: a switch leaves the other one off.                       *)
OnlyOneSwitch(r) ==
  Asked(r, IF request[r].kind = "update" THEN row[Cluster(r)].data
           ELSE [copy[r] EXCEPT !.enforced = FALSE, !.scanning = FALSE])
Written(r) ==
  Asked(r, IF request[r].kind = "update" THEN row[Cluster(r)].data ELSE copy[r])

(* A wrong row: what is written is live again.                             *)
RevivedWith(c, data) == [row EXCEPT ![c] = [state |-> "live", data |-> data]]
WithColumns(c, data) == [row EXCEPT ![c] = [state |-> @.state, data |-> data]]

(* An edit that points the row elsewhere, or switches enforcement on.      *)
Unsettles(r) ==
  LET old == row[Cluster(r)].data
      new == Written(r)
  IN  /\ request[r].kind = "update"
      /\ new.kube # old.kube \/ (new.enforced /\ ~old.enforced)

Write(r) ==
  LET c == Cluster(r)
      k == row[c].data.kube
  IN  /\ At(r, "write")
      /\ row' = WithColumns(c, Written(r))
      /\ asked' = [asked EXCEPT ![c] = Asked(r, @)]
      /\ former' = IF Written(r).kube = k THEN former ELSE former \cup {<<k, c>>}
      /\ doubt' = IF Unsettles(r) THEN doubt \cup {c} ELSE doubt
      /\ Goes(r, IF request[r].kind = "update" /\ request[r].install THEN "hook" ELSE "idle")
      /\ UNCHANGED <<webhook, request, copy, requests, faults, raced, met>>

-----------------------------------------------------------------------------
(* Webhooks.  Each call takes the kube config from the row as it then is.  *)

HookOf(c) == <<row[c].data.kube, c>>
Sure(r) == doubt' = IF r \in met THEN doubt ELSE doubt \ {Cluster(r)}

AfterHook(r) == IF request[r].kind = "enforced" THEN "write" ELSE "idle"

(* checkIfWebhookExists: an error means that there is none.                *)
LooksForWebhook(r) ==
  LET c == Cluster(r)
  IN  /\ At(r, "hook")
      /\ \/ c \notin Live /\ Goes(r, "idle") /\ UNCHANGED <<faults, doubt>>
         \/ c \in Live /\ HookOf(c) \in webhook /\ Goes(r, AfterHook(r)) /\ Sure(r)
            /\ UNCHANGED faults
         \/ c \in Live /\ HookOf(c) \notin webhook /\ Goes(r, "install")
            /\ UNCHANGED <<faults, doubt>>
         \/ c \in Live /\ Fault /\ Goes(r, "install") /\ UNCHANGED doubt
      /\ UNCHANGED <<row, webhook, request, copy, requests, asked, raced, met, former>>

(* createWebhookForCluster: its error is logged only.                      *)
InstallsWebhook(r) ==
  LET c == Cluster(r)
  IN  /\ At(r, "install")
      /\ \/ c \notin Live /\ Goes(r, "idle") /\ UNCHANGED <<webhook, faults, doubt>>
         \/ c \in Live /\ Goes(r, AfterHook(r)) /\ webhook' = webhook \cup {HookOf(c)}
            /\ Sure(r) /\ UNCHANGED faults
         \/ c \in Live /\ Goes(r, AfterHook(r)) /\ Fault /\ doubt' = doubt \cup {c}
            /\ UNCHANGED webhook
      /\ UNCHANGED <<row, request, copy, requests, asked, raced, met, former>>

(* A wrong deletion: the webhook is left to the administrators.            *)
WebhookLeft(c) == webhook' = webhook
WebhookRemoved(c) == webhook' = webhook \ {HookOf(c)}

(* The webhook first, then the templates and the row; an error of the      *)
(* first is logged only.                                                   *)
Delete(r, c) ==
  /\ Begins(r) /\ c \in Live /\ Goes(r, "drop")
  /\ Enters(r, [NoAsk EXCEPT !.kind = "delete", !.cluster = c])
  /\ \/ WebhookRemoved(c) /\ UNCHANGED faults
     \/ Fault /\ UNCHANGED webhook
  /\ doubt' = doubt \cup {c}
  /\ UNCHANGED <<row, copy, asked, former>>

Drop(r) ==
  /\ At(r, "drop") /\ Goes(r, "idle")
  /\ row' = [row EXCEPT ![Cluster(r)].state = "deleted"]
  /\ UNCHANGED <<webhook, request, copy, requests, faults, history>>

(* A query or a call whose error ends the request.                         *)
Fails(r) ==
  /\ ~At(r, "idle") /\ Fault /\ Goes(r, "idle")
  /\ UNCHANGED <<row, webhook, request, copy, requests, history>>

Crash ==
  /\ \E r \in Requests : ~At(r, "idle")
  /\ Fault /\ pc' = [r \in Requests |-> "idle"]
  /\ UNCHANGED <<row, webhook, request, copy, requests, history>>

Next ==
  \/ \E r \in Requests, c \in Clusters, b \in Bodies, v \in BOOLEAN :
       Create(r, b, v) \/ Update(r, c, b, v)
  \/ \E r \in Requests, c \in Clusters, v \in BOOLEAN, k \in {"enforced", "scanning"} :
       Switch(r, c, k, v)
  \/ \E r \in Requests, c \in Clusters : Delete(r, c)
  \/ \E r \in Requests : Insert(r) \/ Write(r) \/ LooksForWebhook(r)
                           \/ InstallsWebhook(r) \/ Drop(r) \/ Fails(r)
  \/ Crash

Spec == Init /\ [][Next]_vars

-----------------------------------------------------------------------------
(* Properties *)

(* A live cluster that enforces is asked about its pods: its webhook is    *)
(* installed where its row points to, whatever requests overlap.  A        *)
(* cluster is in doubt from a creation or an edit that writes the switch   *)
(* itself, an edit that points it to another Kubernetes, a failed          *)
(* installation or the begin of a deletion, and until a request that no    *)
(* other met has found or installed the webhook (activateWebhook installs  *)
(* before it writes, updateCluster after, and no stale row can switch on   *)
(* what was never installed, or point away from where it was).             *)
EnforcedHasWebhook ==
  \A c \in Live \ doubt : row[c].data.enforced => HookOf(c) \in webhook

(* A deleted cluster stays deleted, although requests that have read it    *)
(* before write its whole row afterwards.                                  *)
DeletedStaysDeleted ==
  [][\A c \in Clusters : row[c].state = "deleted" => row'[c].state = "deleted"]_vars

(* Only requests of one cluster that overlap lose a change: every column   *)
(* has the value that was asked for it last.                               *)
ChangesAreKept ==
  \A c \in Clusters \ raced : row[c].data = asked[c]

(* Only a request that overlaps the deletion, or an error, leaves a        *)
(* webhook behind where the row of a deleted cluster points to; elsewhere  *)
(* it is left only in a Kubernetes that the row was pointed away from      *)
(* (updateCluster never removes the old one, deleteClusterWebhook knows    *)
(* the new one only).                                                      *)
DeletedHasNoWebhook ==
  \A c \in Clusters, k \in Kubes :
    row[c].state = "deleted" /\ <<k, c>> \in webhook =>
      \/ k = row[c].data.kube /\ (faults > 0 \/ c \in raced)
      \/ k # row[c].data.kube /\ <<k, c>> \in former
=============================================================================
