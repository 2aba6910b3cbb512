------------------------- MODULE Gatekeeper_proofs -------------------------
(***************************************************************************)
(* What holds of Gatekeeper's templates for any number of clusters,        *)
(* templates, constraints, exceptions and overlapping syncs: the types,    *)
(* among them that no template ever carries an empty list, and that a      *)
(* template is deleted only after the constraints its deletion has seen.   *)
(***************************************************************************)
EXTENDS Gatekeeper, TLAPS

Deployed == [lists : FullLists, rules : {"library", "edited"}]

-----------------------------------------------------------------------------
(* Lists *)

LEMMA DeploymentsAre ==
  ASSUME NEW d
  PROVE  d \in Deployments <=> \E ts \in SUBSET Templates : d \in [ts -> Deployed]
  BY DEF Deployments, Deployed

LEMMA EntriesType ==
  ASSUME NEW body \in Bodies, NEW spaces \in SUBSET Namespaces
  PROVE  Entries(body, spaces) \in Lists
<1>1. body.image \in Patterns
  BY DEF Bodies
<1>. QED BY <1>1 DEF Entries, Nothing, Lists

LEMMA JoinedType ==
  ASSUME NEW blocks \in SUBSET Lists
  PROVE  Joined(blocks) \in Lists
  BY DEF Joined, Lists

LEMMA NothingType == Nothing \in Lists
  BY DEF Nothing, Lists

(* A completed pair of lists is never empty.                               *)
LEMMA CompletedType ==
  ASSUME NEW lists \in Lists
  PROVE  Completed(lists) \in FullLists
  BY DEF Completed, Lists, FullLists

LEMMA NoListsType == NoLists \in FullLists
  BY DEF NoLists, Lists, FullLists

LEMMA NoDraftType == NoDraft \in [template : Templates, lists : Lists]
  BY NothingType, GatekeeperAssumption DEF NoDraft

LEMMA CommonType ==
  ASSUME TypeOK, NEW c \in Clusters, NEW ids \in SUBSET DOMAIN exceptions
  PROVE  Common(c, ids) \in Lists
<1>1. \A i \in ids : exceptions[i] \in Bodies /\ exceptions[i].spaces \subseteq Namespaces
  BY DEF TypeOK, Bodies
<1>2. Known[c] \subseteq Namespaces
  BY GatekeeperAssumption
<1>3. ASSUME NEW i \in ids PROVE Entries(exceptions[i], CommonSpaces(c, i)) \in Lists
  <2>1. CommonSpaces(c, i) \in SUBSET Namespaces
    BY <1>1, <1>2 DEF CommonSpaces
  <2>. QED BY <1>1, <2>1, EntriesType
<1>. QED BY <1>3, JoinedType DEF Common

LEMMA OwnType ==
  ASSUME TypeOK, NEW c \in Clusters, NEW t \in Templates
  PROVE  Own(c, t) \in Lists
<1>1. \A i \in OfIssue(t) : exceptions[i] \in Bodies /\ exceptions[i].spaces \subseteq Namespaces
  BY DEF OfIssue, Active, TypeOK, Bodies
<1>2. Known[c] \subseteq Namespaces
  BY GatekeeperAssumption
<1>3. ASSUME NEW i \in OfIssue(t) PROVE Entries(exceptions[i], OwnSpaces(c, i)) \in Lists
  <2>1. OwnSpaces(c, i) \in SUBSET Namespaces
    BY <1>1, <1>2 DEF OwnSpaces
  <2>. QED BY <1>1, <2>1, EntriesType
<1>. QED BY <1>3, JoinedType DEF Own, OwnOf

-----------------------------------------------------------------------------
(* Templates *)

(* Replacing one deployed template keeps the others.                       *)
LEMMA Replaced ==
  ASSUME TypeOK, NEW c \in Clusters, NEW t \in DOMAIN deployed[c], NEW v \in Deployed,
         deployed' = [deployed EXCEPT ![c][t] = v]
  PROVE  /\ deployed' \in [Clusters -> Deployments]
         /\ \A x \in Clusters : DOMAIN deployed'[x] = DOMAIN deployed[x]
<1>1. deployed \in [Clusters -> Deployments]
  BY DEF TypeOK
<1>2. PICK ts \in SUBSET Templates : deployed[c] \in [ts -> Deployed]
  BY <1>1, DeploymentsAre
<1>3. [deployed[c] EXCEPT ![t] = v] \in [ts -> Deployed]
  BY <1>2
<1>4. /\ deployed'[c] = [deployed[c] EXCEPT ![t] = v]
      /\ \A x \in Clusters : x # c => deployed'[x] = deployed[x]
      /\ DOMAIN deployed' = Clusters
  BY <1>1
<1>5. \A x \in Clusters : deployed'[x] \in Deployments
  BY <1>1, <1>2, <1>3, <1>4, DeploymentsAre
<1>6. deployed' = [x \in Clusters |-> deployed'[x]]
  BY <1>1
<1>. QED BY <1>2, <1>4, <1>5, <1>6

(* What the administrator's request carries.                               *)
LEMMA AdminIs ==
  ASSUME TypeOK
  PROVE  /\ admin.step = "put" =>
              /\ admin.cluster \in Clusters /\ admin.template \in Templates
              /\ admin.lists \in FullLists
         /\ admin.step \in {"settle", "drop"} =>
              /\ admin.cluster \in Clusters /\ admin.template \in Templates
              /\ admin \in [step : {"settle", "drop"}, cluster : Clusters,
                            template : Templates]
<1>1. CASE admin = Idle
  BY <1>1 DEF Idle
<1>2. CASE admin \in [step : {"put"}, cluster : Clusters, template : Templates,
                      lists : FullLists]
  BY <1>2
<1>3. CASE admin \in [step : {"settle", "drop"}, cluster : Clusters, template : Templates]
  BY <1>3
<1>. QED BY <1>1, <1>2, <1>3 DEF TypeOK, AdminStates

(* The steps of a sync change nothing that an administrator sees.          *)
SyncType ==
  /\ pc \in [Syncs -> {"idle", "next", "common", "file", "issue"}]
  /\ left \in [Syncs -> SUBSET Clusters]
  /\ now \in [Syncs -> Clusters]
  /\ listed \in [Syncs -> SUBSET Templates]
  /\ common \in [Syncs -> Lists]
  /\ files \in [Syncs -> SUBSET Templates]
  /\ draft \in [Syncs -> [template : Templates, lists : Lists]]
  /\ patches \subseteq Patches
  /\ faults \in 0 .. MaxFaults

LEMMA FaultType ==
  ASSUME TypeOK, Fault \/ UNCHANGED faults
  PROVE  faults' \in 0 .. MaxFaults
  BY GatekeeperAssumption DEF TypeOK, Fault

LEMMA EditType ==
  ASSUME TypeOK, Edit
  PROVE  edits' \in 0 .. MaxEdits
  BY GatekeeperAssumption DEF TypeOK, Edit

LEMMA SyncsStayOut ==
  ASSUME NEW p \in Syncs, StartSync(p) \/ Sync(p) \/ TemplateFails(p) \/ SyncFails(p)
  PROVE  UNCHANGED <<rowVars, deployed, constraints, adminVars>>
<1>1. CASE StartSync(p) \/ TemplateFails(p) \/ SyncFails(p)
  BY <1>1 DEF StartSync, TemplateFails, SyncFails, SkipTemplate, SyncRejects
<1>2. CASE Sync(p)
  BY <1>2 DEF Sync, ListDeployed, ReadCommon, ReadCommonThrows, ReadIssue,
     WriteTemplate, TemplateThrows, NextCluster, SkipTemplate, SyncRejects
<1>. QED BY <1>1, <1>2

LEMMA SyncsKeepTypes ==
  ASSUME TypeOK, NEW p \in Syncs,
         StartSync(p) \/ Sync(p) \/ TemplateFails(p) \/ SyncFails(p)
  PROVE  TypeOK'
<1>0. /\ UNCHANGED <<rowVars, deployed, constraints, adminVars>>
      /\ SyncType
  BY SyncsStayOut DEF TypeOK, SyncType
<1>1. SUFFICES SyncType'
  BY <1>0 DEF TypeOK, SyncType, rowVars, adminVars
<1>2. CASE StartSync(p)
  BY <1>0, <1>2 DEF StartSync, SyncType
<1>3. ASSUME NEW c \in Clusters, ListDeployed(p, c) PROVE SyncType'
  <2>1. DOMAIN deployed[c] \subseteq Templates
    <3>1. deployed[c] \in Deployments
      BY DEF TypeOK
    <3>. QED BY <3>1, DeploymentsAre
  <2>2. listed' \in [Syncs -> SUBSET Templates]
    BY <1>0, <1>3, <2>1 DEF ListDeployed, SyncType
  <2>3. faults' \in 0 .. MaxFaults
    BY <1>3, FaultType DEF ListDeployed
  <2>. QED BY <1>0, <1>3, <2>2, <2>3 DEF ListDeployed, SyncType
<1>4. CASE ReadCommon(p)
  <2>1. Common(now[p], Active) \in Lists
    BY <1>0, CommonType DEF SyncType, Active
  <2>. QED BY <1>0, <1>4, <2>1 DEF ReadCommon, SyncType
<1>5. ASSUME NEW t \in Templates, ReadIssue(p, t) PROVE SyncType'
  <2>1. Common(now[p], OfIssue(t)) \in Lists
    BY <1>0, CommonType DEF SyncType, OfIssue, Active
  <2>2. Joined({common[p], Common(now[p], OfIssue(t))}) \in Lists
    BY <1>0, <2>1, JoinedType DEF SyncType
  <2>. QED BY <1>0, <1>5, <2>2 DEF ReadIssue, SyncType
<1>6. CASE WriteTemplate(p)
  <2>. DEFINE t == draft[p].template
              lists == Completed(Joined({draft[p].lists, Own(now[p], t)}))
  <2>1. t \in Templates /\ draft[p].lists \in Lists /\ now[p] \in Clusters
    BY <1>0 DEF SyncType
  <2>2. lists \in FullLists
    BY <2>1, OwnType, JoinedType, CompletedType
  <2>3. [sync |-> p, cluster |-> now[p], template |-> t, lists |-> lists] \in Patches
    BY <2>1, <2>2 DEF Patches
  <2>4. patches' \subseteq Patches
    BY <1>0, <1>6, <2>3 DEF WriteTemplate, SyncType
  <2>. HIDE DEF t, lists
  <2>. QED BY <1>0, <1>6, <2>4, NoDraftType DEF WriteTemplate, SyncType
<1>7. CASE NextCluster(p)
  BY <1>0, <1>7, NothingType DEF NextCluster, SyncType
<1>8. CASE TemplateFails(p) \/ \E t \in Templates : TemplateThrows(p, t)
  <2>1. PICK t \in Templates : SkipTemplate(p, t) /\ (Fault \/ UNCHANGED faults)
    BY <1>0, <1>8 DEF TemplateFails, TemplateThrows, SyncType
  <2>. QED BY <1>0, <2>1, FaultType, NoDraftType DEF SkipTemplate, SyncType
<1>9. CASE SyncFails(p) \/ ReadCommonThrows(p)
  <2>1. SyncRejects(p) /\ (Fault \/ UNCHANGED faults)
    BY <1>9 DEF SyncFails, ReadCommonThrows
  <2>. QED BY <1>0, <2>1, FaultType DEF SyncRejects, SyncType
<1>. QED BY <1>2, <1>3, <1>4, <1>5, <1>6, <1>7, <1>8, <1>9 DEF Sync

-----------------------------------------------------------------------------
(* Every step *)

LEMMA PatchesKeepTypes ==
  ASSUME TypeOK, NEW patch \in patches, PatchArrives(patch) \/ PatchFails(patch)
  PROVE  TypeOK'
<1>1. /\ patch.cluster \in Clusters /\ patch.template \in Templates
      /\ [lists |-> patch.lists, rules |-> "library"] \in Deployed
  BY DEF TypeOK, Patches, Deployed
<1>2. /\ deployed' \in [Clusters -> Deployments]
      /\ \A x \in Clusters : DOMAIN deployed'[x] = DOMAIN deployed[x]
  <2>1. CASE deployed' = deployed
    BY <2>1 DEF TypeOK
  <2>2. CASE deployed' # deployed
    <3>1. /\ patch.template \in DOMAIN deployed[patch.cluster]
          /\ deployed' = [deployed EXCEPT ![patch.cluster][patch.template] =
                            [lists |-> patch.lists, rules |-> "library"]]
      BY <2>2 DEF PatchArrives, PatchFails
    <3>. QED BY <1>1, <3>1, Replaced
  <2>. QED BY <2>1, <2>2
<1>3. /\ UNCHANGED <<rowVars, constraints, syncVars, adminVars>>
      /\ patches' \subseteq patches /\ (Fault \/ UNCHANGED faults)
  BY DEF PatchArrives, PatchFails
<1>4. faults' \in 0 .. MaxFaults
  BY <1>3, FaultType
<1>. QED BY <1>2, <1>3, <1>4 DEF TypeOK, rowVars, syncVars, adminVars

LEMMA RowsKeepTypes ==
  ASSUME TypeOK, NEW i \in Ids, NEW body \in Bodies,
         CreateException(i, body) \/ UpdateException(i, body) \/ DeleteException(i)
  PROVE  TypeOK'
<1>1. /\ created' \subseteq Ids /\ DOMAIN exceptions' \subseteq created'
      /\ exceptions' \in [DOMAIN exceptions' -> Bodies]
  <2>1. CASE CreateException(i, body)
    BY <2>1 DEF CreateException, TypeOK
  <2>2. CASE UpdateException(i, body)
    BY <2>2 DEF UpdateException, TypeOK
  <2>3. CASE DeleteException(i)
    BY <2>3 DEF DeleteException, TypeOK
  <2>. QED BY <2>1, <2>2, <2>3
<1>2. UNCHANGED othersThanRows /\ Edit
  BY DEF CreateException, UpdateException, DeleteException
<1>. QED BY <1>1, <1>2, EditType DEF TypeOK, othersThanRows, syncVars

(* A template that an administrator deploys carries lists for everybody.   *)
LEMMA DeployKeepsTypes ==
  ASSUME TypeOK, NEW c \in Clusters, NEW t \in Templates, DeployTemplate(c, t)
  PROVE  TypeOK'
<1>. DEFINE first == [lists |-> NoLists, rules |-> "library"]
            new == [u \in DOMAIN deployed[c] \cup {t} |-> IF u = t THEN first ELSE deployed[c][u]]
<1>1. first \in Deployed
  BY NoListsType DEF Deployed
<1>2. deployed \in [Clusters -> Deployments] /\ deployed' = [deployed EXCEPT ![c] = new]
  BY DEF DeployTemplate, TypeOK
<1>3. PICK ts \in SUBSET Templates : deployed[c] \in [ts -> Deployed]
  BY <1>2, DeploymentsAre
<1>. HIDE DEF first
<1>4. new \in [ts \cup {t} -> Deployed]
  BY <1>1, <1>3
<1>5. DOMAIN deployed[c] \subseteq DOMAIN new
  OBVIOUS
<1>6. new \in Deployments
  BY <1>4, DeploymentsAre
<1>. HIDE DEF new
<1>7. /\ deployed' \in [Clusters -> Deployments]
      /\ \A x \in Clusters : DOMAIN deployed[x] \subseteq DOMAIN deployed'[x]
  BY <1>2, <1>5, <1>6
<1>. QED BY <1>7, EditType DEF DeployTemplate, TypeOK, rowVars, syncVars

LEMMA RequestsKeepTypes ==
  ASSUME TypeOK, NEW c \in Clusters, NEW t \in Templates,
         \/ LoadTemplate(c, t) \/ BeginDeletion(c, t)
         \/ \E name \in Names : CreateConstraint(c, t, name)
  PROVE  TypeOK'
<1>1. CASE LoadTemplate(c, t)
  <2>1. deployed[c][t] \in Deployed
    <3>1. deployed[c] \in Deployments /\ t \in DOMAIN deployed[c]
      BY <1>1 DEF LoadTemplate, TypeOK
    <3>. QED BY <3>1, DeploymentsAre
  <2>2. admin' \in AdminStates
    BY <1>1, <2>1 DEF LoadTemplate, AdminStates, Deployed
  <2>. QED BY <1>1, <2>2, EditType DEF LoadTemplate, TypeOK, rowVars, syncVars
<1>2. CASE BeginDeletion(c, t)
  <2>1. admin' \in AdminStates
    BY <1>2 DEF BeginDeletion, AdminStates
  <2>2. doomed' \subseteq Names
    BY <1>2 DEF BeginDeletion, TypeOK
  <2>3. faults' \in 0 .. MaxFaults
    BY <1>2, FaultType DEF BeginDeletion
  <2>. QED BY <1>2, <2>1, <2>2, <2>3, EditType DEF BeginDeletion, TypeOK, rowVars, syncVars
<1>3. ASSUME NEW name \in Names, CreateConstraint(c, t, name) PROVE TypeOK'
  <2>1. /\ constraints' \in [Clusters -> [Templates -> SUBSET Names]]
        /\ \A d \in Clusters, u \in Templates :
             constraints'[d][u] = constraints[d][u] \/ (d = c /\ u = t)
    BY <1>3 DEF CreateConstraint, TypeOK
  <2>2. t \in DOMAIN deployed[c]
    BY <1>3 DEF CreateConstraint
  <2>. QED BY <1>3, <2>1, <2>2, EditType DEF CreateConstraint, TypeOK, rowVars, syncVars
<1>. QED BY <1>1, <1>2, <1>3

LEMMA AnswersKeepTypes ==
  ASSUME TypeOK, FinishRequest
  PROVE  TypeOK'
<1>1. CASE PutTemplate
  <2>1. /\ admin.cluster \in Clusters
        /\ [lists |-> admin.lists, rules |-> "edited"] \in Deployed
    BY <1>1, AdminIs DEF PutTemplate, Deployed
  <2>2. /\ deployed' \in [Clusters -> Deployments]
        /\ \A x \in Clusters : DOMAIN deployed'[x] = DOMAIN deployed[x]
    <3>1. CASE deployed' = deployed
      BY <3>1 DEF TypeOK
    <3>2. CASE deployed' # deployed
      <4>1. /\ admin.template \in DOMAIN deployed[admin.cluster]
            /\ deployed' = [deployed EXCEPT ![admin.cluster][admin.template] =
                              [lists |-> admin.lists, rules |-> "edited"]]
        BY <1>1, <3>2 DEF PutTemplate
      <4>. QED BY <2>1, <4>1, Replaced
    <3>. QED BY <3>1, <3>2
  <2>3. admin' \in AdminStates
    BY <1>1 DEF PutTemplate, AdminStates
  <2>. QED BY <1>1, <2>2, <2>3 DEF PutTemplate, TypeOK, rowVars, syncVars
<1>2. CASE DropTemplate
  <2>. DEFINE c == admin.cluster
              t == admin.template
              new == [u \in DOMAIN deployed[c] \ {t} |-> deployed[c][u]]
  <2>1. c \in Clusters /\ t \in Templates
    BY <1>2, AdminIs DEF DropTemplate
  <2>2. /\ deployed' = [deployed EXCEPT ![c] = new]
        /\ constraints' = [constraints EXCEPT ![c][t] = {}]
        /\ deployed \in [Clusters -> Deployments]
        /\ constraints \in [Clusters -> [Templates -> SUBSET Names]]
        /\ \A d \in Clusters, u \in Templates :
             constraints[d][u] # {} => u \in DOMAIN deployed[d]
    BY <1>2 DEF DropTemplate, TypeOK
  <2>. HIDE DEF c, t
  <2>3. PICK ts \in SUBSET Templates : deployed[c] \in [ts -> Deployed]
    BY <2>1, <2>2, DeploymentsAre
  <2>4. new \in [ts \ {t} -> Deployed] /\ DOMAIN new = DOMAIN deployed[c] \ {t}
    BY <2>3
  <2>5. new \in Deployments
    BY <2>4, DeploymentsAre
  <2>. HIDE DEF new
  <2>6. /\ deployed' \in [Clusters -> Deployments]
        /\ constraints' \in [Clusters -> [Templates -> SUBSET Names]]
    BY <2>1, <2>2, <2>5
  <2>7. \A d \in Clusters, u \in Templates :
          constraints'[d][u] # {} => u \in DOMAIN deployed'[d]
    BY <2>1, <2>2, <2>4
  <2>8. admin' \in AdminStates
    BY <1>2 DEF DropTemplate, AdminStates
  <2>. QED BY <1>2, <2>6, <2>7, <2>8 DEF DropTemplate, TypeOK, rowVars, syncVars
<1>3. ASSUME NEW gone \in SUBSET doomed, SettleConstraints(gone) PROVE TypeOK'
  <2>. DEFINE c == admin.cluster
              t == admin.template
  <2>1. c \in Clusters /\ t \in Templates
        /\ admin \in [step : {"settle", "drop"}, cluster : Clusters, template : Templates]
    BY <1>3, AdminIs DEF SettleConstraints
  <2>2. constraints' = [constraints EXCEPT ![c][t] = @ \ gone]
    BY <1>3 DEF SettleConstraints
  <2>3. admin' \in AdminStates
    <3>1. admin' = Idle \/ admin' = [admin EXCEPT !.step = "drop"]
      BY <1>3 DEF SettleConstraints
    <3>2. [admin EXCEPT !.step = "drop"]
            \in [step : {"settle", "drop"}, cluster : Clusters, template : Templates]
      BY <2>1
    <3>. QED BY <3>1, <3>2 DEF AdminStates
  <2>. HIDE DEF c, t
  <2>4. /\ constraints' \in [Clusters -> [Templates -> SUBSET Names]]
        /\ \A d \in Clusters, u \in Templates :
             constraints'[d][u] \subseteq constraints[d][u]
    BY <2>1, <2>2 DEF TypeOK
  <2>5. doomed' \subseteq Names
    BY <1>3 DEF SettleConstraints, TypeOK
  <2>6. faults' \in 0 .. MaxFaults
    BY <1>3, FaultType DEF SettleConstraints
  <2>. QED BY <1>3, <2>3, <2>4, <2>5, <2>6 DEF SettleConstraints, TypeOK, rowVars, syncVars
<1>. QED BY <1>1, <1>2, <1>3 DEF FinishRequest

LEMMA InitType == Init => TypeOK
<1>. SUFFICES ASSUME Init PROVE TypeOK
  OBVIOUS
<1>1. [t \in {} |-> {}] \in Deployments
  BY DeploymentsAre
<1>2. admin \in AdminStates
  BY DEF Init, AdminStates
<1>3. draft \in [Syncs -> [template : Templates, lists : Lists]]
  BY NoDraftType DEF Init
<1>4. common \in [Syncs -> Lists]
  BY NothingType DEF Init
<1>5. deployed \in [Clusters -> Deployments]
  BY <1>1 DEF Init
<1>. QED BY <1>2, <1>3, <1>4, <1>5, GatekeeperAssumption DEF Init, TypeOK

(* Every variable keeps its type; in particular no template in a cluster,  *)
(* and no patch on its way to one, has an empty list, which would exempt   *)
(* nobody and let the template deny every pod.                             *)
THEOREM TypeCorrect == Spec => []TypeOK
<1>1. TypeOK /\ [Next]_vars => TypeOK'
  <2>. SUFFICES ASSUME TypeOK, [Next]_vars PROVE TypeOK'
    OBVIOUS
  <2>1. CASE UNCHANGED vars
    BY <2>1 DEF vars, rowVars, syncVars, adminVars, TypeOK
  <2>2. CASE Administer
    <3>1. ASSUME NEW i \in Ids, DeleteException(i) PROVE TypeOK'
      <4>1. exceptions[i] \in Bodies
        BY <3>1 DEF DeleteException, TypeOK
      <4>. QED BY <3>1, <4>1, RowsKeepTypes
    <3>. QED BY <2>2, <3>1, RowsKeepTypes, DeployKeepsTypes, RequestsKeepTypes,
               GatekeeperAssumption DEF Administer
  <2>. QED BY <2>1, <2>2, SyncsKeepTypes, PatchesKeepTypes, AnswersKeepTypes DEF Next
<1>. QED BY <1>1, InitType, PTL DEF Spec

(* A template is deleted only once no constraint that its deletion has     *)
(* seen is left, whatever is created or fails meanwhile.                   *)
THEOREM ConstraintsFirst == Spec => ConstraintsGoFirst
<1>. DEFINE Inv == admin.step = "drop" => doomed = {}
<1>1. Init => Inv
  BY DEF Init, Idle
<1>2. TypeOK /\ Inv /\ [Next]_vars => Inv'
  <2>. SUFFICES ASSUME TypeOK, Inv, [Next]_vars PROVE Inv'
    OBVIOUS
  <2>1. CASE UNCHANGED <<admin, doomed>>
    BY <2>1
  <2>2. ASSUME NEW c \in Clusters, NEW t \in Templates,
               LoadTemplate(c, t) \/ BeginDeletion(c, t)
        PROVE  Inv'
    BY <2>2 DEF LoadTemplate, BeginDeletion
  <2>3. CASE PutTemplate \/ DropTemplate
    BY <2>3 DEF PutTemplate, DropTemplate, Idle
  <2>4. ASSUME NEW gone \in SUBSET doomed, SettleConstraints(gone) PROVE Inv'
    <3>1. CASE admin' = Idle
      BY <3>1 DEF Idle
    <3>2. CASE admin' # Idle
      BY <2>4, <3>2 DEF SettleConstraints
    <3>. QED BY <3>1, <3>2
  <2>5. CASE UNCHANGED vars
    BY <2>5 DEF vars, adminVars
  <2>6. ASSUME NEW p \in Syncs, StartSync(p) \/ Sync(p) \/ TemplateFails(p) \/ SyncFails(p)
        PROVE  UNCHANGED <<admin, doomed>>
    BY <2>6, SyncsStayOut DEF adminVars
  <2>7. ASSUME NEW patch \in patches, PatchArrives(patch) \/ PatchFails(patch)
        PROVE  UNCHANGED <<admin, doomed>>
    BY <2>7 DEF PatchArrives, PatchFails, adminVars
  <2>8. CASE Administer
    BY <2>1, <2>2, <2>8 DEF Administer, CreateException, UpdateException, DeleteException,
       DeployTemplate, CreateConstraint, othersThanRows
  <2>. QED BY <2>1, <2>3, <2>4, <2>5, <2>6, <2>7, <2>8 DEF Next, FinishRequest
<1>3. TypeOK /\ Inv /\ [Next]_vars =>
        [\A c \in Clusters : \A t \in DOMAIN deployed[c] :
           t \notin DOMAIN deployed'[c] => doomed \cap constraints[c][t] = {}]_vars
  <2>. SUFFICES ASSUME TypeOK, Inv, Next, NEW c \in Clusters, NEW t \in DOMAIN deployed[c],
                       t \notin DOMAIN deployed'[c]
                PROVE  doomed = {}
    BY DEF vars
  <2>1. deployed' # deployed
    OBVIOUS
  <2>2. ASSUME NEW d \in Clusters, NEW u \in Templates, DeployTemplate(d, u)
        PROVE  FALSE
    BY <2>2 DEF DeployTemplate, TypeOK
  <2>3. ASSUME NEW patch \in patches, PatchArrives(patch) PROVE FALSE
    <3>1. /\ patch.cluster \in Clusters /\ patch.template \in DOMAIN deployed[patch.cluster]
          /\ [lists |-> patch.lists, rules |-> "library"] \in Deployed
          /\ deployed' = [deployed EXCEPT ![patch.cluster][patch.template] =
                            [lists |-> patch.lists, rules |-> "library"]]
      BY <2>1, <2>3 DEF PatchArrives, TypeOK, Patches, Deployed
    <3>. QED BY <3>1, Replaced
  <2>4. CASE PutTemplate
    <3>1. /\ admin.cluster \in Clusters /\ admin.template \in DOMAIN deployed[admin.cluster]
          /\ [lists |-> admin.lists, rules |-> "edited"] \in Deployed
          /\ deployed' = [deployed EXCEPT ![admin.cluster][admin.template] =
                            [lists |-> admin.lists, rules |-> "edited"]]
      BY <2>1, <2>4, AdminIs DEF PutTemplate, Deployed
    <3>. QED BY <3>1, Replaced
  <2>5. CASE DropTemplate
    BY <2>5 DEF DropTemplate
  <2>6. \/ UNCHANGED deployed \/ PutTemplate \/ DropTemplate
        \/ \E patch \in patches : PatchArrives(patch)
        \/ \E d \in Clusters, u \in Templates : DeployTemplate(d, u)
    <3>1. Administer => UNCHANGED deployed
            \/ \E d \in Clusters, u \in Templates : DeployTemplate(d, u)
      BY DEF Administer, CreateException, UpdateException, DeleteException, LoadTemplate,
             BeginDeletion, CreateConstraint, othersThanRows
    <3>. QED BY <3>1, SyncsStayOut DEF Next, PatchFails, FinishRequest, SettleConstraints
  <2>. QED BY <2>1, <2>2, <2>3, <2>4, <2>5, <2>6
<1>. HIDE DEF Inv
<1>. QED BY <1>1, <1>2, <1>3, TypeCorrect, PTL DEF Spec, ConstraintsGoFirst

-----------------------------------------------------------------------------
(* The safety half of TemplatesFollowExceptions *)

(* Nobody edits and nothing fails.                                         *)
Settled == UNCHANGED <<edits, faults>>

TemplatesFollow ==
  \A c \in Clusters : \A t \in DOMAIN deployed[c] : OwnThrows(c, t) \/ Follows(c, t)

(* Sync p has started, every other sync has read nothing yet, no patch and *)
(* no request of an administrator is under way any more, and no exception  *)
(* makes the syncs throw.                                                  *)
Begins(p) ==
  /\ ~SyncsThrow
  /\ pc[p] = "next" /\ left[p] = Clusters
  /\ \A q \in Syncs : pc[q] \in {"idle", "next", "common"}
  /\ patches = {} /\ admin = Idle

(* What a sync has read is what the exceptions say.                        *)
ReadWell(q) ==
  \A c \in Clusters, t \in Templates :
    /\ pc[q] \in {"file", "issue"} /\ now[q] = c => common[q] = Common(c, Active)
    /\ pc[q] = "issue" /\ now[q] = c /\ draft[q].template = t =>
         draft[q].lists = Joined({common[q], Common(c, OfIssue(t))})

(* ... and so is what the syncs have sent.                                 *)
Fresh ==
  /\ admin = Idle /\ ~SyncsThrow
  /\ \A q \in Syncs : ReadWell(q)
  /\ \A patch \in patches : patch.lists = ListsOf(patch.cluster, patch.template)

(* Sync p has still to come to template t of cluster c.                    *)
Owed(p, c, t) ==
  /\ pc[p] # "idle"
  /\ \/ c \in left[p]
     \/ now[p] = c /\ pc[p] = "common"
     \/ now[p] = c /\ pc[p] \in {"file", "issue"} /\ t \in files[p]

UnderWay(c, t) == \E patch \in patches : patch.cluster = c /\ patch.template = t

(* Every deployed template that can follow the exceptions does, or its     *)
(* patch is under way, or sync p has still to send it.                     *)
Covered(p) ==
  /\ pc[p] \in {"common", "file", "issue"} => listed[p] = DOMAIN deployed[now[p]]
  /\ \A c \in Clusters : \A t \in DOMAIN deployed[c] :
       \/ OwnThrows(c, t)
       \/ Follows(c, t)
       \/ UnderWay(c, t)
       \/ Owed(p, c, t)

LEMMA JoinedInParts ==
  ASSUME NEW a, NEW b, NEW d
  PROVE  Joined({Joined({a, b}), d}) = Joined({a, b, d})
<1>1. UNION {x.pods : x \in {a, b}} = a.pods \cup b.pods
  OBVIOUS
<1>2. UNION {x.images : x \in {a, b}} = a.images \cup b.images
  OBVIOUS
<1>3. UNION {x.pods : x \in {a, b, d}} = a.pods \cup b.pods \cup d.pods
  OBVIOUS
<1>4. UNION {x.images : x \in {a, b, d}} = a.images \cup b.images \cup d.images
  OBVIOUS
<1>. DEFINE ab == Joined({a, b})
<1>5. ab.pods = a.pods \cup b.pods /\ ab.images = a.images \cup b.images
  BY <1>1, <1>2 DEF Joined
<1>. HIDE DEF ab
<1>6. UNION {x.pods : x \in {ab, d}} = ab.pods \cup d.pods
  OBVIOUS
<1>7. UNION {x.images : x \in {ab, d}} = ab.images \cup d.images
  OBVIOUS
<1>8. Joined({ab, d}) = Joined({a, b, d})
  BY <1>3, <1>4, <1>5, <1>6, <1>7 DEF Joined
<1>. QED BY <1>8 DEF ab

(* The lists depend on the exceptions only.                                *)
LEMMA ListsStay ==
  ASSUME UNCHANGED exceptions
  PROVE  \A c, t : /\ Common(c, Active)' = Common(c, Active)
                   /\ Common(c, OfIssue(t))' = Common(c, OfIssue(t))
                   /\ ListsOf(c, t)' = ListsOf(c, t)
BY DEF ListsOf, Common, CommonSpaces, Own, OwnOf, OwnSpaces, OfIssue, Active

(* ... and so does what throws.                                            *)
LEMMA ThrowsStay ==
  ASSUME UNCHANGED exceptions
  PROVE  /\ SyncsThrow' <=> SyncsThrow
         /\ \A c, t : OwnThrows(c, t)' <=> OwnThrows(c, t)
BY DEF SyncsThrow, CommonThrows, Throws, CommonSpaces, OwnThrows, OwnOf, OwnSpaces, OfIssue,
       Active

LEMMA ReadWellStays ==
  ASSUME UNCHANGED exceptions, NEW q \in Syncs, ReadWell(q), pc'[q] = pc[q],
         common'[q] = common[q], now'[q] = now[q], draft'[q] = draft[q]
  PROVE  ReadWell(q)'
BY ListsStay DEF ReadWell

(* Where nobody edits and nothing fails, syncs go on and patches arrive.   *)
LEMMA SettledSteps ==
  ASSUME TypeOK, admin = Idle, Next, Settled
  PROVE  /\ UNCHANGED <<exceptions, admin>>
         /\ \/ \E q \in Syncs : StartSync(q) \/ Sync(q)
            \/ \E patch \in patches : PatchArrives(patch)
<1>1. ~Edit /\ ~Fault
  BY DEF Edit, Fault, Settled, TypeOK
<1>2. ~FinishRequest
  BY DEF FinishRequest, PutTemplate, DropTemplate, SettleConstraints, Idle
<1>3. ~Administer
  BY <1>1 DEF Administer, CreateException, UpdateException, DeleteException,
     DeployTemplate, LoadTemplate, BeginDeletion, CreateConstraint
<1>4. \/ \E q \in Syncs : StartSync(q) \/ Sync(q)
      \/ \E patch \in patches : PatchArrives(patch)
  <2>1. \A q \in Syncs : ~TemplateFails(q) /\ ~SyncFails(q)
    BY <1>1 DEF TemplateFails, SyncFails
  <2>2. \A a \in patches : ~PatchFails(a)
    BY <1>1 DEF PatchFails
  <2>. QED BY <1>2, <1>3, <2>1, <2>2 DEF Next
<1>5. UNCHANGED <<exceptions, admin>>
  BY <1>4, SyncsStayOut DEF PatchArrives, rowVars, adminVars
<1>. QED BY <1>4, <1>5

(* No sync rejects, and a template is skipped only where its cluster's own *)
(* exceptions throw.                                                       *)
LEMMA NoneRejects ==
  ASSUME TypeOK, ~SyncsThrow, NEW q \in Syncs
  PROVE  /\ ~ReadCommonThrows(q)
         /\ \A t \in Templates :
              TemplateThrows(q, t) =>
                /\ pc[q] = "issue" /\ draft[q].template = t /\ OwnThrows(now[q], t)
<1>1. now[q] \in Clusters
  BY DEF TypeOK
<1>2. ~CommonThrows(now[q], Active)
  BY <1>1 DEF SyncsThrow
<1>3. \A t \in Templates : ~CommonThrows(now[q], OfIssue(t))
  BY <1>2 DEF CommonThrows, OfIssue
<1>. QED BY <1>2, <1>3 DEF ReadCommonThrows, TemplateThrows

(* A step of a sync leaves the other syncs alone.                          *)
LEMMA OthersStay ==
  ASSUME TypeOK, NEW q \in Syncs, StartSync(q) \/ Sync(q)
  PROVE  \A r \in Syncs \ {q} :
           /\ pc'[r] = pc[r] /\ common'[r] = common[r] /\ now'[r] = now[r]
           /\ draft'[r] = draft[r] /\ left'[r] = left[r] /\ listed'[r] = listed[r]
           /\ files'[r] = files[r]
<1>1. CASE StartSync(q)
  BY <1>1 DEF StartSync, TypeOK
<1>2. CASE \E c \in Clusters : ListDeployed(q, c)
  BY <1>2 DEF ListDeployed, TypeOK
<1>3. CASE ReadCommon(q)
  BY <1>3 DEF ReadCommon, TypeOK
<1>4. CASE \E t \in Templates : ReadIssue(q, t)
  BY <1>4 DEF ReadIssue, TypeOK
<1>5. CASE WriteTemplate(q)
  BY <1>5 DEF WriteTemplate, TypeOK
<1>6. CASE NextCluster(q)
  BY <1>6 DEF NextCluster, TypeOK
<1>7. CASE \E t \in Templates : TemplateThrows(q, t)
  BY <1>7 DEF TemplateThrows, SkipTemplate, TypeOK
<1>8. CASE ReadCommonThrows(q)
  BY <1>8 DEF ReadCommonThrows, SyncRejects, TypeOK
<1>. QED BY <1>1, <1>2, <1>3, <1>4, <1>5, <1>6, <1>7, <1>8 DEF Sync

(* What a settled sync sends is what the exceptions say.                   *)
LEMMA SentWell ==
  ASSUME TypeOK, NEW q \in Syncs, ReadWell(q), pc[q] = "issue"
  PROVE  Completed(Joined({draft[q].lists, Own(now[q], draft[q].template)}))
           = ListsOf(now[q], draft[q].template)
<1>1. PICK c \in Clusters, t \in Templates : now[q] = c /\ draft[q].template = t
  BY DEF TypeOK
<1>. DEFINE a == Common(c, Active)
            b == Common(c, OfIssue(t))
            o == Own(c, t)
<1>. HIDE DEF a, b, o
<1>2. draft[q].lists = Joined({a, b})
  BY <1>1 DEF ReadWell, a, b
<1>3. Joined({Joined({a, b}), o}) = Joined({a, b, o})
  BY ONLY JoinedInParts
<1>4. ListsOf(c, t) = Completed(Joined({a, b, o}))
  BY DEF ListsOf, a, b, o
<1>5. Completed(Joined({draft[q].lists, o})) = ListsOf(c, t)
  BY <1>2, <1>3, <1>4
<1>. QED BY <1>1, <1>5 DEF o

LEMMA FreshStep ==
  ASSUME TypeOK, Fresh, Next, Settled
  PROVE  Fresh'
<1>1. /\ UNCHANGED <<exceptions, admin>>
      /\ \/ \E q \in Syncs : StartSync(q) \/ Sync(q)
         \/ \E patch \in patches : PatchArrives(patch)
  BY SettledSteps DEF Fresh
<1>2. admin' = Idle /\ ~SyncsThrow'
  BY <1>1, ThrowsStay DEF Fresh
<1>3. \A c, t : ListsOf(c, t)' = ListsOf(c, t)
  BY <1>1, ListsStay
<1>4. ASSUME NEW q \in Syncs, StartSync(q) \/ Sync(q) PROVE \A r \in Syncs : ReadWell(r)'
  <2>1. \A r \in Syncs \ {q} : ReadWell(r)'
    BY <1>1, <1>4, OthersStay, ReadWellStays DEF Fresh
  <2>. SUFFICES ReadWell(q)'
    BY <2>1
  <2>2. ReadWell(q)
    BY DEF Fresh
  <2>3. CASE StartSync(q) \/ (\E c \in Clusters : ListDeployed(q, c)) \/ NextCluster(q)
    <3>1. pc'[q] \notin {"file", "issue"}
      BY <2>3 DEF StartSync, ListDeployed, NextCluster, TypeOK
    <3>. QED BY <3>1 DEF ReadWell
  <2>4. \A c \in Clusters :
          /\ Common(c, Active)' = Common(c, Active)
          /\ \A t \in Templates : Common(c, OfIssue(t))' = Common(c, OfIssue(t))
    BY <1>1, ListsStay
  <2>5. CASE ReadCommon(q)
    <3>1. PICK c \in Clusters : c = now[q]
      BY DEF TypeOK
    <3>2. pc'[q] = "file" /\ now'[q] = c /\ common'[q] = Common(c, Active)
      BY <2>5, <3>1 DEF ReadCommon, TypeOK
    <3>3. common'[q] = Common(c, Active)'
      BY <2>4, <3>1, <3>2
    <3>. QED BY <3>2, <3>3 DEF ReadWell
  <2>6. ASSUME NEW t \in Templates, ReadIssue(q, t) PROVE ReadWell(q)'
    <3>1. PICK c \in Clusters : c = now[q]
      BY DEF TypeOK
    <3>2. /\ pc[q] = "file" /\ now'[q] = c /\ common'[q] = common[q]
          /\ draft'[q] = [template |-> t,
                          lists |-> Joined({common[q], Common(c, OfIssue(t))})]
      BY <2>6, <3>1 DEF ReadIssue, TypeOK
    <3>3. common'[q] = Common(c, Active)'
      BY <2>2, <2>4, <3>1, <3>2 DEF ReadWell
    <3>4. /\ draft'[q].template = t
          /\ draft'[q].lists = Joined({common[q], Common(c, OfIssue(t))})
      BY <3>2
    <3>5. Common(c, OfIssue(t))' = Common(c, OfIssue(t))
      BY <2>4
    <3>6. draft'[q].lists = Joined({common'[q], Common(c, OfIssue(t))'})
      BY <3>2, <3>4, <3>5
    <3>. QED BY <3>2, <3>3, <3>4, <3>6 DEF ReadWell
  <2>7. CASE WriteTemplate(q)
    <3>1. PICK c \in Clusters : c = now[q]
      BY DEF TypeOK
    <3>2. /\ pc[q] = "issue" /\ pc'[q] = "file"
          /\ now'[q] = c /\ common'[q] = common[q]
      BY <2>7, <3>1 DEF WriteTemplate, TypeOK
    <3>3. common[q] = Common(c, Active)
      BY <2>2, <3>1, <3>2, GatekeeperAssumption DEF ReadWell
    <3>. QED BY <2>4, <3>2, <3>3 DEF ReadWell
  <2>8. ASSUME NEW t \in Templates, TemplateThrows(q, t) PROVE ReadWell(q)'
    <3>1. PICK c \in Clusters : c = now[q]
      BY DEF TypeOK
    <3>2. pc[q] = "issue"
      BY <2>8, NoneRejects DEF Fresh
    <3>3. pc'[q] = "file" /\ now'[q] = c /\ common'[q] = common[q]
      BY <2>8, <3>1 DEF TemplateThrows, SkipTemplate, TypeOK
    <3>4. common[q] = Common(c, Active)
      BY <2>2, <3>1, <3>2, GatekeeperAssumption DEF ReadWell
    <3>. QED BY <2>4, <3>3, <3>4 DEF ReadWell
  <2>9. ~ReadCommonThrows(q)
    BY NoneRejects DEF Fresh
  <2>. QED BY <1>4, <2>3, <2>5, <2>6, <2>7, <2>8, <2>9 DEF Sync
<1>5. ASSUME NEW a \in patches, PatchArrives(a) PROVE \A r \in Syncs : ReadWell(r)'
  <2>1. UNCHANGED <<pc, common, now, draft>>
    BY <1>5 DEF PatchArrives, syncVars
  <2>. QED BY <1>1, <2>1, ReadWellStays DEF Fresh
<1>6. ASSUME NEW a \in patches' PROVE a.lists = ListsOf(a.cluster, a.template)
  <2>1. CASE a \in patches
    BY <2>1 DEF Fresh
  <2>2. CASE a \notin patches
    <3>1. PICK q \in Syncs : WriteTemplate(q)
      BY <1>1, <1>6, <2>2 DEF StartSync, Sync, ListDeployed, ReadCommon, ReadCommonThrows,
         ReadIssue, TemplateThrows, SkipTemplate, SyncRejects, NextCluster, PatchArrives
    <3>2. /\ pc[q] = "issue" /\ a.cluster = now[q] /\ a.template = draft[q].template
          /\ a.lists = Completed(Joined({draft[q].lists, Own(now[q], draft[q].template)}))
      BY <1>6, <2>2, <3>1 DEF WriteTemplate
    <3>. QED BY <3>2, SentWell DEF Fresh
  <2>. QED BY <2>1, <2>2
<1>. QED BY <1>1, <1>2, <1>3, <1>4, <1>5, <1>6 DEF Fresh

(* The syncs deploy no template and remove none.                           *)
LEMMA SettledTemplates ==
  ASSUME TypeOK, Fresh, Next, Settled
  PROVE  \A c \in Clusters :
           /\ DOMAIN deployed'[c] = DOMAIN deployed[c]
           /\ \A t \in DOMAIN deployed[c] :
                \/ deployed'[c][t] = deployed[c][t] /\ (UnderWay(c, t) => UnderWay(c, t)')
                \/ deployed'[c][t] = [lists |-> ListsOf(c, t), rules |-> "library"]
<1>1. \/ \E q \in Syncs : StartSync(q) \/ Sync(q)
      \/ \E patch \in patches : PatchArrives(patch)
  BY SettledSteps DEF Fresh
<1>2. ASSUME NEW q \in Syncs, StartSync(q) \/ Sync(q)
      PROVE  deployed' = deployed /\ patches \subseteq patches'
  BY <1>2 DEF StartSync, Sync, ListDeployed, ReadCommon, ReadCommonThrows, ReadIssue,
     WriteTemplate, TemplateThrows, SkipTemplate, SyncRejects, NextCluster
<1>3. ASSUME deployed' = deployed, patches \subseteq patches'
      PROVE  \A c \in Clusters :
               /\ DOMAIN deployed'[c] = DOMAIN deployed[c]
               /\ \A t \in DOMAIN deployed[c] :
                    /\ deployed'[c][t] = deployed[c][t]
                    /\ UnderWay(c, t) => UnderWay(c, t)'
  BY <1>3 DEF UnderWay
<1>4. ASSUME NEW a \in patches, PatchArrives(a), NEW c \in Clusters
      PROVE  /\ DOMAIN deployed'[c] = DOMAIN deployed[c]
             /\ \A t \in DOMAIN deployed[c] :
                  \/ deployed'[c][t] = deployed[c][t] /\ (UnderWay(c, t) => UnderWay(c, t)')
                  \/ deployed'[c][t] = [lists |-> ListsOf(c, t), rules |-> "library"]
  <2>1. a.cluster \in Clusters /\ a.lists \in FullLists /\ patches' = patches \ {a}
    BY <1>4 DEF PatchArrives, TypeOK, Patches
  <2>2. CASE a.template \notin DOMAIN deployed[a.cluster]
    <3>1. deployed' = deployed
      BY <1>4, <2>2 DEF PatchArrives
    <3>2. ASSUME NEW t \in DOMAIN deployed[c], UnderWay(c, t) PROVE UnderWay(c, t)'
      BY <2>1, <2>2, <3>2 DEF UnderWay
    <3>. QED BY <3>1, <3>2
  <2>3. CASE a.template \in DOMAIN deployed[a.cluster]
    <3>. DEFINE v == [lists |-> a.lists, rules |-> "library"]
    <3>1. deployed' = [deployed EXCEPT ![a.cluster][a.template] = v]
      BY <1>4, <2>3 DEF PatchArrives
    <3>2. v \in Deployed
      BY <2>1 DEF Deployed
    <3>3. DOMAIN deployed'[c] = DOMAIN deployed[c]
      BY <2>1, <2>3, <3>1, <3>2, Replaced
    <3>4. v = [lists |-> ListsOf(a.cluster, a.template), rules |-> "library"]
      BY DEF Fresh
    <3>. HIDE DEF v
    <3>5. ASSUME NEW t \in DOMAIN deployed[c], <<c, t>> # <<a.cluster, a.template>>
          PROVE  deployed'[c][t] = deployed[c][t] /\ (UnderWay(c, t) => UnderWay(c, t)')
      <4>1. deployed'[c][t] = deployed[c][t]
        BY <2>1, <2>3, <3>1, <3>5 DEF TypeOK
      <4>. QED BY <2>1, <3>5, <4>1 DEF UnderWay
    <3>6. c = a.cluster => deployed'[c][a.template] = v
      BY <2>1, <2>3, <3>1 DEF TypeOK
    <3>. QED BY <3>3, <3>4, <3>5, <3>6
  <2>. QED BY <2>2, <2>3
<1>. QED BY <1>1, <1>2, <1>3, <1>4

(* A template that follows the exceptions does so for good.                *)
LEMMA FollowingStep ==
  ASSUME TypeOK, Fresh, TemplatesFollow, Next, Settled
  PROVE  TemplatesFollow'
<1>1. \A c, t : /\ ListsOf(c, t)' = ListsOf(c, t)
                /\ OwnThrows(c, t)' <=> OwnThrows(c, t)
  BY SettledSteps, ListsStay, ThrowsStay DEF Fresh
<1>2. ASSUME NEW c \in Clusters, NEW t \in DOMAIN deployed'[c]
      PROVE  OwnThrows(c, t)' \/ Follows(c, t)'
  <2>1. t \in DOMAIN deployed[c]
    BY SettledTemplates
  <2>2. CASE OwnThrows(c, t)
    BY <1>1, <2>2
  <2>3. CASE Follows(c, t)
    <3>1. deployed'[c][t] = [lists |-> ListsOf(c, t), rules |-> "library"]
      BY <2>1, <2>3, SettledTemplates DEF Follows
    <3>. QED BY <1>1, <3>1 DEF Follows
  <2>. QED BY <2>1, <2>2, <2>3 DEF TemplatesFollow
<1>. QED BY <1>2 DEF TemplatesFollow

(* What sync p owes it goes on to owe, or sends.                           *)
LEMMA OwedStep ==
  ASSUME TypeOK, Fresh, NEW p \in Syncs, Covered(p), Next, Settled,
         NEW c \in Clusters, NEW t \in DOMAIN deployed[c], t \in Templates, Owed(p, c, t),
         ~OwnThrows(c, t)
  PROVE  Owed(p, c, t)' \/ UnderWay(c, t)'
<1>1. \/ \E q \in Syncs : StartSync(q) \/ Sync(q)
      \/ \E patch \in patches : PatchArrives(patch)
  BY SettledSteps DEF Fresh
<1>2. ASSUME pc'[p] = pc[p], left'[p] = left[p], now'[p] = now[p], files'[p] = files[p]
      PROVE  Owed(p, c, t)'
  BY <1>2 DEF Owed
<1>3. ASSUME NEW q \in Syncs \ {p}, StartSync(q) \/ Sync(q) PROVE Owed(p, c, t)'
  BY <1>2, <1>3, OthersStay
<1>4. ASSUME NEW a \in patches, PatchArrives(a) PROVE Owed(p, c, t)'
  BY <1>2, <1>4 DEF PatchArrives, syncVars
<1>5. CASE StartSync(p)
  BY <1>5 DEF StartSync, Owed
<1>6. ASSUME NEW d \in Clusters, ListDeployed(p, d) PROVE Owed(p, c, t)'
  <2>1. /\ pc[p] = "next" /\ pc'[p] = "common" /\ now'[p] = d /\ left'[p] = left[p] \ {d}
    BY <1>6 DEF ListDeployed, TypeOK
  <2>. QED BY <2>1 DEF Owed
<1>7. CASE ReadCommon(p)
  <2>1. /\ pc'[p] = "file" /\ now'[p] = now[p] /\ left'[p] = left[p]
        /\ files'[p] = Templates
    BY <1>7 DEF ReadCommon, TypeOK
  <2>2. pc[p] = "common"
    BY <1>7 DEF ReadCommon
  <2>. QED BY <2>1, <2>2 DEF Owed
<1>8. ASSUME NEW u \in Templates, ReadIssue(p, u) PROVE Owed(p, c, t)'
  <2>1. /\ pc[p] = "file" /\ pc'[p] = "issue" /\ now'[p] = now[p] /\ left'[p] = left[p]
        /\ files'[p] = files[p]
    BY <1>8 DEF ReadIssue, TypeOK
  <2>. QED BY <2>1 DEF Owed
<1>9. CASE WriteTemplate(p)
  <2>1. /\ pc[p] = "issue" /\ pc'[p] = "file" /\ now'[p] = now[p] /\ left'[p] = left[p]
        /\ files'[p] = files[p] \ {draft[p].template}
    BY <1>9 DEF WriteTemplate, TypeOK
  <2>2. CASE c \in left[p] \/ t # draft[p].template
    BY <2>1, <2>2 DEF Owed
  <2>3. CASE c \notin left[p] /\ t = draft[p].template
    <3>1. c = now[p] /\ t \in listed[p]
      BY <2>1, <2>3 DEF Owed, Covered
    <3>. DEFINE lists == Completed(Joined({draft[p].lists, Own(now[p], draft[p].template)}))
                a == [sync |-> p, cluster |-> now[p], template |-> draft[p].template,
                      lists |-> lists]
    <3>2. patches' = patches \cup {a}
      BY <1>9, <2>3, <3>1 DEF WriteTemplate
    <3>3. a.cluster = c /\ a.template = t
      BY <2>3, <3>1
    <3>. HIDE DEF a
    <3>. QED BY <3>2, <3>3 DEF UnderWay
  <2>. QED BY <2>2, <2>3
<1>10. CASE NextCluster(p)
  <2>1. /\ pc[p] = "file" /\ files[p] = {} /\ left'[p] = left[p]
        /\ pc'[p] = IF left[p] = {} THEN "idle" ELSE "next"
    BY <1>10 DEF NextCluster, TypeOK
  <2>. QED BY <2>1 DEF Owed
<1>11. ASSUME NEW u \in Templates, TemplateThrows(p, u) PROVE Owed(p, c, t)'
  <2>1. pc[p] = "issue" /\ OwnThrows(now[p], u)
    BY <1>11, NoneRejects DEF Fresh
  <2>2. /\ pc'[p] = "file" /\ now'[p] = now[p] /\ left'[p] = left[p]
        /\ files'[p] = files[p] \ {u}
    BY <1>11 DEF TemplateThrows, SkipTemplate, TypeOK
  <2>3. now[p] = c => t # u
    BY <2>1
  <2>. QED BY <2>1, <2>2, <2>3 DEF Owed
<1>12. ~ReadCommonThrows(p)
  BY NoneRejects DEF Fresh
<1>. QED BY <1>1, <1>3, <1>4, <1>5, <1>6, <1>7, <1>8, <1>9, <1>10, <1>11, <1>12 DEF Sync

(* What sync p has listed are the templates of its cluster.                *)
LEMMA ListedStep ==
  ASSUME TypeOK, Fresh, NEW p \in Syncs, Covered(p), Next, Settled
  PROVE  pc'[p] \in {"common", "file", "issue"} => listed'[p] = DOMAIN deployed'[now'[p]]
<1>1. \/ \E q \in Syncs : StartSync(q) \/ Sync(q)
      \/ \E patch \in patches : PatchArrives(patch)
  BY SettledSteps DEF Fresh
<1>2. \A c \in Clusters : DOMAIN deployed'[c] = DOMAIN deployed[c]
  BY SettledTemplates
<1>3. now[p] \in Clusters
  BY DEF TypeOK
<1>4. ASSUME pc'[p] \in {"common", "file", "issue"} => pc[p] \in {"common", "file", "issue"},
             now'[p] = now[p], listed'[p] = listed[p]
      PROVE  pc'[p] \in {"common", "file", "issue"}
               => listed'[p] = DOMAIN deployed'[now'[p]]
  BY <1>2, <1>3, <1>4 DEF Covered
<1>5. ASSUME NEW q \in Syncs \ {p}, StartSync(q) \/ Sync(q)
      PROVE  pc'[p] = pc[p] /\ now'[p] = now[p] /\ listed'[p] = listed[p]
  BY <1>5, OthersStay
<1>6. ASSUME NEW a \in patches, PatchArrives(a)
      PROVE  pc'[p] = pc[p] /\ now'[p] = now[p] /\ listed'[p] = listed[p]
  BY <1>6 DEF PatchArrives, syncVars
<1>7. CASE StartSync(p) \/ NextCluster(p)
  BY <1>7 DEF StartSync, NextCluster, TypeOK
<1>8. ASSUME NEW d \in Clusters, ListDeployed(p, d)
      PROVE  listed'[p] = DOMAIN deployed'[now'[p]]
  <2>1. listed'[p] = DOMAIN deployed[d] /\ now'[p] = d
    BY <1>8 DEF ListDeployed, Fault, Settled, TypeOK
  <2>. QED BY <1>2, <2>1
<1>9. CASE ReadCommon(p) \/ WriteTemplate(p) \/ \E t \in Templates : ReadIssue(p, t)
  <2>1. pc[p] \in {"common", "file", "issue"} /\ now'[p] = now[p] /\ listed'[p] = listed[p]
    BY <1>9 DEF ReadCommon, WriteTemplate, ReadIssue
  <2>. QED BY <1>4, <2>1
<1>10. ASSUME NEW t \in Templates, TemplateThrows(p, t)
       PROVE  pc'[p] \in {"common", "file", "issue"}
                => listed'[p] = DOMAIN deployed'[now'[p]]
  <2>1. pc[p] \in {"common", "file", "issue"} /\ now'[p] = now[p] /\ listed'[p] = listed[p]
    BY <1>10 DEF TemplateThrows, SkipTemplate
  <2>. QED BY <1>4, <2>1
<1>11. ~ReadCommonThrows(p)
  BY NoneRejects DEF Fresh
<1>. QED BY <1>1, <1>4, <1>5, <1>6, <1>7, <1>8, <1>9, <1>10, <1>11 DEF Sync

LEMMA CoveredStep ==
  ASSUME TypeOK, Fresh, NEW p \in Syncs, Covered(p), Next, Settled
  PROVE  Covered(p)'
<1>1. \A c, t : /\ ListsOf(c, t)' = ListsOf(c, t)
                /\ OwnThrows(c, t)' <=> OwnThrows(c, t)
  BY SettledSteps, ListsStay, ThrowsStay DEF Fresh
<1>2. \A c \in Clusters : DOMAIN deployed'[c] = DOMAIN deployed[c]
  BY SettledTemplates
<1>3. ASSUME NEW c \in Clusters, NEW t \in DOMAIN deployed[c]
      PROVE  \/ OwnThrows(c, t)
             \/ deployed'[c][t] = [lists |-> ListsOf(c, t), rules |-> "library"]
             \/ UnderWay(c, t)' \/ Owed(p, c, t)'
  <2>1. t \in Templates
    BY DEF TypeOK, Deployments
  <2>2. CASE Owed(p, c, t)
    BY <2>1, <2>2, OwedStep
  <2>3. CASE UnderWay(c, t)
    BY <2>3, SettledTemplates
  <2>4. CASE Follows(c, t)
    BY <2>4, SettledTemplates DEF Follows
  <2>. QED BY <2>2, <2>3, <2>4 DEF Covered
<1>. QED BY <1>1, <1>2, <1>3, ListedStep DEF Covered, Follows

(* Once nobody edits exceptions, templates and constraints any more,       *)
(* nothing fails, no exception without image_match makes the syncs throw,  *)
(* and the patches of older syncs have arrived, a sync that starts then    *)
(* brings every deployed template to what the exceptions say: when it has  *)
(* ended and the patches are through, all templates follow but those whose *)
(* own exceptions throw, and they go on to, however many other syncs start *)
(* and overlap with it, and in whatever order patches arrive that nobody   *)
(* waits for.                                                              *)
THEOREM SettledSyncsDeliver ==
  ASSUME NEW p \in Syncs
  PROVE  Spec => [](Begins(p) /\ [][Settled]_vars =>
                      [](pc[p] = "idle" /\ patches = {} => []TemplatesFollow))
<1>1. Begins(p) => Fresh /\ Covered(p)
  <2>. SUFFICES ASSUME Begins(p) PROVE Fresh /\ Covered(p)
    OBVIOUS
  <2>1. Fresh
    BY DEF Begins, Fresh, ReadWell
  <2>2. Covered(p)
    BY DEF Begins, Covered, Owed
  <2>. QED BY <2>1, <2>2
<1>2. TypeOK /\ Fresh /\ [Next]_vars /\ [Settled]_vars => Fresh'
  <2>1. CASE UNCHANGED vars
    <3>. SUFFICES ASSUME Fresh, UNCHANGED vars PROVE Fresh'
      BY <2>1
    <3>1. UNCHANGED <<exceptions, admin, patches, pc, common, now, draft>>
      BY DEF vars, rowVars, adminVars, syncVars
    <3>2. \A q \in Syncs : ReadWell(q)'
      BY <3>1, ReadWellStays DEF Fresh
    <3>3. \A c, t : ListsOf(c, t)' = ListsOf(c, t)
      BY <3>1, ListsStay
    <3>4. SyncsThrow' <=> SyncsThrow
      BY <3>1, ThrowsStay
    <3>. QED BY <3>1, <3>2, <3>3, <3>4 DEF Fresh
  <2>. QED BY <2>1, FreshStep
<1>3. TypeOK /\ Fresh /\ Covered(p) /\ [Next]_vars /\ [Settled]_vars => Covered(p)'
  <2>1. CASE UNCHANGED vars
    <3>1. UNCHANGED <<exceptions, deployed, patches, pc, left, now, listed, files>>
      BY <2>1 DEF vars, rowVars, syncVars
    <3>2. \A c, t : /\ ListsOf(c, t)' = ListsOf(c, t)
                    /\ OwnThrows(c, t)' <=> OwnThrows(c, t)
      BY <3>1, ListsStay, ThrowsStay
    <3>. QED BY <3>1, <3>2 DEF Covered, Follows, Owed, UnderWay
  <2>. QED BY <2>1, CoveredStep
<1>4. TypeOK /\ Fresh /\ TemplatesFollow /\ [Next]_vars /\ [Settled]_vars
        => TemplatesFollow'
  <2>1. CASE UNCHANGED vars
    <3>1. UNCHANGED <<exceptions, deployed>>
      BY <2>1 DEF vars, rowVars
    <3>2. \A c, t : /\ ListsOf(c, t)' = ListsOf(c, t)
                    /\ OwnThrows(c, t)' <=> OwnThrows(c, t)
      BY <3>1, ListsStay, ThrowsStay
    <3>. QED BY <3>1, <3>2 DEF TemplatesFollow, Follows
  <2>. QED BY <2>1, FollowingStep
<1>5. Covered(p) /\ pc[p] = "idle" /\ patches = {} => TemplatesFollow
  BY DEF Covered, Owed, UnderWay, TemplatesFollow
<1>. QED BY <1>1, <1>2, <1>3, <1>4, <1>5, TypeCorrect, PTL DEF Spec
=============================================================================
