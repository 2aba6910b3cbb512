----------------------------- MODULE Gatekeeper -----------------------------
(***************************************************************************)
(* Gatekeeper templates and the exceptions that the dashboard writes into  *)
(* them.  A sync reads the exceptions, builds two lists of conditions for  *)
(* every template of its library, and patches the templates that are       *)
(* deployed, without waiting for the patches.  Every change of a           *)
(* gatekeeper exception starts a sync, and so does a nightly job, so that  *)
(* syncs overlap with each other and with administrators who edit, deploy  *)
(* and delete templates and their constraints.                             *)
(*                                                                         *)
(* A template is its two lists and the rules of its own; the file that     *)
(* each sync rewrites is the library's with the same lists, and no sync    *)
(* uses what another has left there.                                       *)
(***************************************************************************)
EXTENDS Naturals, FiniteSets

CONSTANTS
  Clusters,
  Templates,    \* ConstraintTemplates of the library
  Namespaces,
  Known,        \* Known[c]: namespaces of cluster c in the database
  Patterns,     \* image_match of an exception, and these two:
  AnyImage,     \* empty, or wildcards only
  NoPattern,    \* null, as an exception created without one has it
  Everyone,     \* the entry of a list that holds for every pod
  Names,        \* constraints that a template may have
  Syncs,        \* syncs in progress at once
  Ids,          \* bound: exceptions ever created
  Written,      \* bound: what administrators may write into one
  MaxEdits,     \* bound: changes by administrators
  MaxFaults     \* bound: calls that fail

Bodies == [issue : Templates, spaces : SUBSET Namespaces, image : Patterns,
           clusters : SUBSET Clusters, active : BOOLEAN]

ASSUME GatekeeperAssumption ==
  /\ Known \in [Clusters -> SUBSET Namespaces]
  /\ Templates # {} /\ {AnyImage, NoPattern} \subseteq Patterns
  /\ Everyone \notin Namespaces /\ Everyone \notin Namespaces \X Patterns
  /\ Written \subseteq Bodies
  /\ {MaxEdits, MaxFaults} \subseteq Nat

VARIABLES
  exceptions,  \* rows of type gatekeeper that are not deleted
  created,     \* ids that were used
  deployed,    \* per cluster, the templates Gatekeeper has
  constraints, \* per cluster and template
  pc,          \* per sync: the call it waits for
  left,        \* per sync: clusters not yet begun
  now,         \* per sync: the cluster it is at
  listed,      \* per sync: deployedTemplateList
  common,      \* per sync: commonExceptionBlock
  files,       \* per sync: templates of the library not yet done
  draft,       \* per sync: the lists of the template it is at
  patches,     \* patches on their way to a cluster
  admin,       \* what the administrator's request waits for
  doomed,      \* constraints that a deletion has listed and not deleted
  edits,
  faults

syncVars == <<pc, left, now, listed, common, files, draft>>
adminVars == <<admin, doomed, edits>>
rowVars == <<exceptions, created>>
vars == <<rowVars, deployed, constraints, syncVars, patches, adminVars, faults>>

Lists == [pods : SUBSET (Namespaces \cup {Everyone}),
          images : SUBSET ((Namespaces \X Patterns) \cup {Everyone})]
(* No pod passes an empty list, so that no template may carry one.         *)
FullLists == {l \in Lists : l.pods # {} /\ l.images # {}}
Deployments == UNION {[ts -> [lists : FullLists, rules : {"library", "edited"}]] :
                        ts \in SUBSET Templates}
Patches == [sync : Syncs, cluster : Clusters, template : Templates,
            lists : FullLists]
Nothing == [pods |-> {}, images |-> {}]
NoLists == [pods |-> {Everyone}, images |-> {Everyone}]
Idle == [step |-> "idle"]
AdminStates ==
  {Idle}
    \cup [step : {"put"}, cluster : Clusters, template : Templates,
          lists : FullLists]
    \cup [step : {"settle", "drop"}, cluster : Clusters, template : Templates]

TypeOK ==
  /\ created \subseteq Ids
  /\ DOMAIN exceptions \subseteq created
  /\ exceptions \in [DOMAIN exceptions -> Bodies]
  /\ deployed \in [Clusters -> Deployments]
  /\ constraints \in [Clusters -> [Templates -> SUBSET Names]]
  /\ \A c \in Clusters, t \in Templates :
       constraints[c][t] # {} => t \in DOMAIN deployed[c]
  /\ pc \in [Syncs -> {"idle", "next", "common", "file", "issue"}]
  /\ left \in [Syncs -> SUBSET Clusters]
  /\ now \in [Syncs -> Clusters]
  /\ listed \in [Syncs -> SUBSET Templates]
  /\ common \in [Syncs -> Lists]
  /\ files \in [Syncs -> SUBSET Templates]
  /\ draft \in [Syncs -> [template : Templates, lists : Lists]]
  /\ patches \subseteq Patches
  /\ admin \in AdminStates
  /\ doomed \subseteq Names
  /\ edits \in 0 .. MaxEdits
  /\ faults \in 0 .. MaxFaults

NoDraft == [template |-> CHOOSE t \in Templates : TRUE, lists |-> Nothing]

Init ==
  /\ exceptions = [i \in {} |-> {}] /\ created = {}
  /\ deployed = [c \in Clusters |-> [t \in {} |-> {}]]
  /\ constraints = [c \in Clusters |-> [t \in Templates |-> {}]]
  /\ pc = [p \in Syncs |-> "idle"]
  /\ left = [p \in Syncs |-> {}]
  /\ now \in [Syncs -> Clusters]
  /\ listed = [p \in Syncs |-> {}]
  /\ common = [p \in Syncs |-> Nothing]
  /\ files = [p \in Syncs |-> {}]
  /\ draft = [p \in Syncs |-> NoDraft]
  /\ patches = {}
  /\ admin = Idle /\ doomed = {}
  /\ edits = 0 /\ faults = 0

-----------------------------------------------------------------------------
(* The lists *)

(* calculateExceptionBlock: one condition per namespace; the second list   *)
(* holds for everybody when the exception has no image pattern.            *)
Entries(body, spaces) ==
  IF spaces = {} THEN Nothing
  ELSE [pods   |-> spaces,
        images |-> IF body.image = AnyImage THEN {Everyone}
                   ELSE spaces \X {body.image}]

Joined(blocks) ==
  [pods   |-> UNION {b.pods : b \in blocks},
   images |-> UNION {b.images : b \in blocks}]

Active == {i \in DOMAIN exceptions : exceptions[i].active}

(* Common exceptions are those of every cluster: only namespaces that the  *)
(* cluster knows are taken from them.                                      *)
CommonSpaces(c, i) ==
  IF exceptions[i].spaces = {} THEN Known[c]
  ELSE exceptions[i].spaces \cap Known[c]

Common(c, ids) ==
  Joined({Entries(exceptions[i], CommonSpaces(c, i)) : i \in ids})

(* getExceptionsForIssueIdentifier: those of the cluster itself.           *)
OfIssue(t) == {i \in Active : exceptions[i].issue = t}
OwnOf(c, t) == {i \in OfIssue(t) : c \in exceptions[i].clusters}
OwnSpaces(c, i) ==
  IF exceptions[i].spaces = {} THEN Known[c] ELSE exceptions[i].spaces

Own(c, t) ==
  Joined({Entries(exceptions[i], OwnSpaces(c, i)) : i \in OwnOf(c, t)})

(* imageMatch.split throws where there is no image_match to split, once    *)
(* the exception is known to have a namespace.                             *)
Throws(i, spaces) == exceptions[i].image = NoPattern /\ spaces # {}
CommonThrows(c, ids) == \E i \in ids : Throws(i, CommonSpaces(c, i))
OwnThrows(c, t) == \E i \in OwnOf(c, t) : Throws(i, OwnSpaces(c, i))

(* Where nothing was collected the list holds for everybody.               *)
Completed(lists) ==
  [pods   |-> IF lists.pods = {} THEN {Everyone} ELSE lists.pods,
   images |-> IF lists.images = {} THEN {Everyone} ELSE lists.images]

(* The lists of a template in a cluster, from the exceptions of one moment *)
ListsOf(c, t) ==
  Completed(Joined({Common(c, Active), Common(c, OfIssue(t)), Own(c, t)}))

-----------------------------------------------------------------------------
(* syncGatekeeperExceptionBlocks *)

Fault == faults < MaxFaults /\ faults' = faults + 1

(* After a change of an exception, or at night.                            *)
StartSync(p) ==
  /\ pc[p] = "idle"
  /\ pc' = [pc EXCEPT ![p] = "next"]
  /\ left' = [left EXCEPT ![p] = Clusters]
  /\ UNCHANGED <<rowVars, deployed, constraints, now, listed, common, files,
                 draft, patches, adminVars, faults>>

(* getDeployedTemplateList: an error means that there are none.            *)
ListDeployed(p, c) ==
  /\ pc[p] = "next"
  /\ c \in left[p]
  /\ pc' = [pc EXCEPT ![p] = "common"]
  /\ left' = [left EXCEPT ![p] = @ \ {c}]
  /\ now' = [now EXCEPT ![p] = c]
  /\ \/ listed' = [listed EXCEPT ![p] = DOMAIN deployed[c]] /\ UNCHANGED faults
     \/ listed' = [listed EXCEPT ![p] = {}] /\ Fault
  /\ UNCHANGED <<rowVars, deployed, constraints, common, files, draft, patches,
                 adminVars>>

ReadCommon(p) ==
  /\ pc[p] = "common"
  /\ ~CommonThrows(now[p], Active)
  /\ pc' = [pc EXCEPT ![p] = "file"]
  /\ common' = [common EXCEPT ![p] = Common(now[p], Active)]
  /\ files' = [files EXCEPT ![p] = Templates]
  /\ UNCHANGED <<rowVars, deployed, constraints, left, now, listed, draft,
                 patches, adminVars, faults>>

ReadIssue(p, t) ==
  /\ pc[p] = "file"
  /\ t \in files[p]
  /\ ~CommonThrows(now[p], OfIssue(t))
  /\ pc' = [pc EXCEPT ![p] = "issue"]
  /\ draft' = [draft EXCEPT ![p] =
       [template |-> t,
        lists |-> Joined({common[p], Common(now[p], OfIssue(t))})]]
  /\ UNCHANGED <<rowVars, deployed, constraints, left, now, listed, common,
                 files, patches, adminVars, faults>>

(* A wrong sync, which has nothing to patch where no exception is left.    *)
WriteIfExcepted(p) ==
  LET t == draft[p].template
      lists == Joined({draft[p].lists, Own(now[p], t)})
  IN  /\ pc[p] = "issue" /\ ~OwnThrows(now[p], t)
      /\ pc' = [pc EXCEPT ![p] = "file"]
      /\ files' = [files EXCEPT ![p] = @ \ {t}]
      /\ draft' = [draft EXCEPT ![p] = NoDraft]
      /\ patches' = IF t \in listed[p] /\ lists # Nothing
           THEN patches \cup {[sync |-> p, cluster |-> now[p], template |-> t,
                               lists |-> Completed(lists)]}
           ELSE patches
      /\ UNCHANGED <<rowVars, deployed, constraints, left, now, listed, common,
                     adminVars, faults>>

(* templateSpecificExceptionBlock ends, the file is written, and the patch *)
(* goes off.                                                               *)
WriteTemplate(p) ==
  LET t == draft[p].template
      lists == Completed(Joined({draft[p].lists, Own(now[p], t)}))
  IN  /\ pc[p] = "issue" /\ ~OwnThrows(now[p], t)
      /\ pc' = [pc EXCEPT ![p] = "file"]
      /\ files' = [files EXCEPT ![p] = @ \ {t}]
      /\ draft' = [draft EXCEPT ![p] = NoDraft]
      /\ patches' = IF t \in listed[p]
           THEN patches \cup {[sync |-> p, cluster |-> now[p], template |-> t,
                               lists |-> lists]}
           ELSE patches
      /\ UNCHANGED <<rowVars, deployed, constraints, left, now, listed, common,
                     adminVars, faults>>

(* The catch of the loop: the other templates get their turn.              *)
SkipTemplate(p, t) ==
  /\ pc' = [pc EXCEPT ![p] = "file"]
  /\ files' = [files EXCEPT ![p] = @ \ {t}]
  /\ draft' = [draft EXCEPT ![p] = NoDraft]
  /\ UNCHANGED <<rowVars, deployed, constraints, left, now, listed, common,
                 patches, adminVars>>

TemplateThrows(p, t) ==
  /\ \/ /\ pc[p] = "file" /\ t \in files[p]
        /\ CommonThrows(now[p], OfIssue(t))
     \/ /\ pc[p] = "issue" /\ draft[p].template = t
        /\ OwnThrows(now[p], t)
  /\ SkipTemplate(p, t)
  /\ UNCHANGED faults

(* A query fails.                                                          *)
TemplateFails(p) ==
  /\ pc[p] = "issue"
  /\ Fault
  /\ SkipTemplate(p, draft[p].template)

NextCluster(p) ==
  /\ pc[p] = "file" /\ files[p] = {}
  /\ pc' = [pc EXCEPT ![p] = IF left[p] = {} THEN "idle" ELSE "next"]
  /\ listed' = [listed EXCEPT ![p] = {}]
  /\ common' = [common EXCEPT ![p] = Nothing]
  /\ UNCHANGED <<rowVars, deployed, constraints, left, now, files, draft,
                 patches, adminVars, faults>>

(* Nothing catches what is thrown outside of the loop over the templates:  *)
(* the sync is over for every cluster, but not the patches it has sent.    *)
SyncRejects(p) ==
  /\ pc' = [pc EXCEPT ![p] = "idle"]
  /\ left' = [left EXCEPT ![p] = {}]
  /\ listed' = [listed EXCEPT ![p] = {}]
  /\ UNCHANGED <<rowVars, deployed, constraints, now, common, files, draft,
                 patches, adminVars>>

ReadCommonThrows(p) ==
  /\ pc[p] = "common"
  /\ CommonThrows(now[p], Active)
  /\ SyncRejects(p)
  /\ UNCHANGED faults

SyncFails(p) ==
  /\ pc[p] \in {"next", "common"}
  /\ Fault
  /\ SyncRejects(p)

(* patchTemplateWithModifiedRego replaces the targets of the template by   *)
(* the library's; there is no template to patch once it is deleted.        *)
PatchArrives(patch) ==
  /\ patch \in patches
  /\ patches' = patches \ {patch}
  /\ deployed' = IF patch.template \in DOMAIN deployed[patch.cluster]
       THEN [deployed EXCEPT ![patch.cluster][patch.template] =
               [lists |-> patch.lists, rules |-> "library"]]
       ELSE deployed
  /\ UNCHANGED <<rowVars, constraints, syncVars, adminVars, faults>>

PatchFails(patch) ==
  /\ patch \in patches
  /\ Fault
  /\ patches' = patches \ {patch}
  /\ UNCHANGED <<rowVars, deployed, constraints, syncVars, adminVars>>

-----------------------------------------------------------------------------
(* Administrators *)

Edit == edits < MaxEdits /\ edits' = edits + 1
othersThanRows ==
  <<deployed, constraints, syncVars, patches, admin, doomed, faults>>

CreateException(i, body) ==
  /\ i \in Ids \ created
  /\ Edit
  /\ created' = created \cup {i}
  /\ exceptions' = [j \in DOMAIN exceptions \cup {i} |->
       IF j = i THEN body ELSE exceptions[j]]
  /\ UNCHANGED othersThanRows

(* By an administrator, or by the job that turns expired ones off.  An     *)
(* update without image_match leaves the stored one.                       *)
UpdateException(i, body) ==
  /\ i \in DOMAIN exceptions
  /\ body.image = NoPattern => exceptions[i].image = NoPattern
  /\ Edit
  /\ exceptions' = [exceptions EXCEPT ![i] = body]
  /\ UNCHANGED <<created, othersThanRows>>

DeleteException(i) ==
  /\ i \in DOMAIN exceptions
  /\ Edit
  /\ exceptions' = [j \in DOMAIN exceptions \ {i} |-> exceptions[j]]
  /\ UNCHANGED <<created, othersThanRows>>

(* createConstraintTemplates, with a template of the library; Kubernetes   *)
(* refuses one that exists.                                                *)
DeployTemplate(c, t) ==
  /\ t \notin DOMAIN deployed[c]
  /\ Edit
  /\ deployed' = [deployed EXCEPT ![c] =
       [u \in DOMAIN @ \cup {t} |->
          IF u = t THEN [lists |-> NoLists, rules |-> "library"] ELSE @[u]]]
  /\ UNCHANGED <<rowVars, constraints, syncVars, patches, admin, doomed, faults>>

(* The editor loads the whole template, lists included.                    *)
LoadTemplate(c, t) ==
  /\ admin = Idle /\ t \in DOMAIN deployed[c]
  /\ Edit
  /\ admin' = [step |-> "put", cluster |-> c, template |-> t,
               lists |-> deployed[c][t].lists]
  /\ UNCHANGED <<rowVars, deployed, constraints, syncVars, patches, doomed,
                 faults>>

(* updateConstraintTemplate                                                *)
PutTemplate ==
  /\ admin.step = "put"
  /\ admin' = Idle
  /\ deployed' = IF admin.template \in DOMAIN deployed[admin.cluster]
       THEN [deployed EXCEPT ![admin.cluster][admin.template] =
               [lists |-> admin.lists, rules |-> "edited"]]
       ELSE deployed
  /\ UNCHANGED <<rowVars, constraints, syncVars, patches, doomed, edits, faults>>

CreateConstraint(c, t, name) ==
  /\ t \in DOMAIN deployed[c]
  /\ Edit
  /\ constraints' = [constraints EXCEPT ![c][t] = @ \cup {name}]
  /\ UNCHANGED <<rowVars, deployed, syncVars, patches, admin, doomed, faults>>

(* deleteConstraintsForTemplate lists the constraints; an error means that *)
(* there are none.                                                         *)
BeginDeletion(c, t) ==
  /\ admin = Idle /\ t \in DOMAIN deployed[c]
  /\ Edit
  /\ \/ doomed' = constraints[c][t] /\ UNCHANGED faults
     \/ doomed' = {} /\ Fault
  /\ admin' = [step |-> "settle", cluster |-> c, template |-> t]
  /\ UNCHANGED <<rowVars, deployed, constraints, syncVars, patches>>

(* A wrong deletion, which goes on although a constraint is still there.   *)
SettleAnyhow(gone) ==
  /\ admin.step = "settle"
  /\ gone \subseteq doomed
  /\ doomed' = doomed \ gone
  /\ constraints' = [constraints EXCEPT ![admin.cluster][admin.template] =
                       @ \ gone]
  /\ IF doomed' = {} THEN UNCHANGED faults ELSE Fault
  /\ admin' = [admin EXCEPT !.step = "drop"]
  /\ UNCHANGED <<rowVars, deployed, syncVars, patches, edits>>

(* All deletions are tried; if one of them failed the template stays.      *)
SettleConstraints(gone) ==
  /\ admin.step = "settle"
  /\ gone \subseteq doomed
  /\ constraints' = [constraints EXCEPT ![admin.cluster][admin.template] =
                       @ \ gone]
  /\ \/ /\ gone = doomed /\ UNCHANGED faults
        /\ admin' = [admin EXCEPT !.step = "drop"]
     \/ /\ gone # doomed /\ Fault
        /\ admin' = Idle
  /\ doomed' = IF admin' = Idle THEN {} ELSE doomed \ gone
  /\ UNCHANGED <<rowVars, deployed, syncVars, patches, edits>>

(* Kubernetes removes the kind of the template, and with it constraints    *)
(* created since.                                                          *)
DropTemplate ==
  /\ admin.step = "drop"
  /\ deployed' = [deployed EXCEPT ![admin.cluster] =
       [u \in DOMAIN @ \ {admin.template} |-> @[u]]]
  /\ constraints' = [constraints EXCEPT ![admin.cluster][admin.template] = {}]
  /\ admin' = Idle /\ doomed' = {}
  /\ UNCHANGED <<rowVars, syncVars, patches, edits, faults>>

-----------------------------------------------------------------------------
Sync(p) ==
  \/ \E c \in Clusters : ListDeployed(p, c)
  \/ ReadCommon(p) \/ ReadCommonThrows(p) \/ WriteTemplate(p) \/ NextCluster(p)
  \/ \E t \in Templates : ReadIssue(p, t) \/ TemplateThrows(p, t)

Administer ==
  \/ \E i \in Ids, body \in Written :
       CreateException(i, body) \/ UpdateException(i, body)
  \/ \E i \in Ids : DeleteException(i)
  \/ \E c \in Clusters, t \in Templates :
       \/ DeployTemplate(c, t) \/ LoadTemplate(c, t) \/ BeginDeletion(c, t)
       \/ \E name \in Names : CreateConstraint(c, t, name)

FinishRequest ==
  \/ PutTemplate \/ DropTemplate
  \/ \E gone \in SUBSET doomed : SettleConstraints(gone)

Next ==
  \/ \E p \in Syncs : StartSync(p) \/ Sync(p) \/ TemplateFails(p) \/ SyncFails(p)
  \/ \E patch \in patches : PatchArrives(patch) \/ PatchFails(patch)
  \/ Administer
  \/ FinishRequest

Spec == Init /\ [][Next]_vars

(* The nightly job goes on for ever, requests and patches get an answer.   *)
FairSpec ==
  /\ Spec
  /\ \A p \in Syncs : WF_vars(StartSync(p)) /\ WF_vars(Sync(p))
  /\ \A p \in Syncs, c \in Clusters, t \in Templates :
       WF_vars(\E patch \in patches :
                 /\ <<patch.sync, patch.cluster, patch.template>> = <<p, c, t>>
                 /\ PatchArrives(patch))
  /\ WF_vars(FinishRequest)

-----------------------------------------------------------------------------
(* Properties *)

(* Once exceptions and templates stop changing, every deployed template    *)
(* comes to carry exactly the lists of the exceptions, for good, although  *)
(* nobody waits for the patches, those of an older sync may arrive after   *)
(* those of a newer one, and an editor may put old lists back.  With the   *)
(* lists the library's rules return: what an editor wrote does not last.   *)
(* An exception without image_match takes this from every template of      *)
(* every cluster when it is common, and no sync gets past it, and from the *)
(* templates of its own cluster and issue when it is not; what earlier     *)
(* syncs have skipped because of one is made good once it is gone.         *)
SyncsThrow == \E c \in Clusters : CommonThrows(c, Active)

Follows(c, t) ==
  deployed[c][t] = [lists |-> ListsOf(c, t), rules |-> "library"]

TemplatesFollowExceptions ==
  <>[]~SyncsThrow =>
    <>[](\A c \in Clusters : \A t \in DOMAIN deployed[c] :
           OwnThrows(c, t) \/ Follows(c, t))

(* "Constraint Template not deleted: failed to delete all Constraints":    *)
(* however constraints come and go meanwhile, no template is deleted while *)
(* one that the deletion has seen, and could not delete, is there.         *)
ConstraintsGoFirst ==
  [][\A c \in Clusters : \A t \in DOMAIN deployed[c] :
       t \notin DOMAIN deployed'[c] => doomed \cap constraints[c][t] = {}]_vars

=============================================================================
