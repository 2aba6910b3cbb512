--------------------------- MODULE Clusters_proofs ---------------------------
(* Theorems about Clusters, for every value of its constants. *)
EXTENDS Clusters, TLAPS

Switches(r) == request[r].kind \in {"enforced", "scanning"}

(* What a request in progress knows of its cluster, whatever the others    *)
(* do: the cluster has been created, a write is one of three kinds, a      *)
(* creation and an edit name the cluster, and a switch names its own       *)
(* column only.                                                            *)
RequestFits(r) ==
  /\ Busy(r) => row[Cluster(r)].state # "none"
  /\ pc[r] = "insert" => request[r].kind = "create"
  /\ pc[r] = "write" => request[r].kind \in {"update", "enforced", "scanning"}
  /\ pc[r] # "idle" /\ request[r].kind \in {"create", "update"}
       => request[r].changes.name # Keep
  /\ Switches(r) => /\ request[r].changes.name = Keep /\ request[r].changes.kube = Keep
                    /\ request[r].kind = "scanning" => request[r].changes.enforced = Keep

RequestsFit == \A r \in Requests : RequestFits(r)

TypeInv == TypeOK /\ RequestsFit

LEMMA NoRowType ==
  /\ NoRow \in Columns /\ ~NoRow.enforced
  /\ Nothing \in Changes /\ NoAsk \in Asks
<1>1. NoRow \in Columns /\ ~NoRow.enforced
  BY ClustersAssumption DEF NoRow, Columns
<1>2. Nothing \in Changes
  BY DEF Nothing, Changes
<1>. QED BY <1>1, <1>2, ClustersAssumption DEF NoAsk, Asks, Kinds

LEMMA BodyType ==
  ASSUME NEW b \in Bodies
  PROVE  b \in Changes /\ b.name \in Names
  BY ClustersAssumption DEF Changes

(* What a change makes of a row.                                           *)
LEMMA AskedIs ==
  ASSUME request \in [Requests -> Asks], NEW r \in Requests, NEW data \in Columns
  PROVE  /\ Asked(r, data) \in Columns
         /\ Asked(r, data).name = Or(request[r].changes.name, data.name)
         /\ Asked(r, data).kube = Or(request[r].changes.kube, data.kube)
         /\ Asked(r, data).enforced = Or(request[r].changes.enforced, data.enforced)
<1>1. /\ request[r].changes.name \in Names \cup {Keep}
      /\ request[r].changes.kube \in Kubes \cup {Keep}
      /\ request[r].changes.enforced \in BOOLEAN \cup {Keep}
      /\ request[r].changes.scanning \in BOOLEAN \cup {Keep}
  BY DEF Asks, Changes
<1>2. /\ Or(request[r].changes.name, data.name) \in Names
      /\ Or(request[r].changes.kube, data.kube) \in Kubes
      /\ Or(request[r].changes.enforced, data.enforced) \in BOOLEAN
      /\ Or(request[r].changes.scanning, data.scanning) \in BOOLEAN
  BY <1>1 DEF Or, Columns
<1>. QED BY <1>2 DEF Asked, Columns

(* Each action, by what it does to the tables: the steps of a proof about  *)
(* Next start from these.  First the requests that begin.                  *)
CreateAsk(b, v) == [NoAsk EXCEPT !.changes = b, !.install = v]
UpdateAsk(c, b, v) == [kind |-> "update", cluster |-> c, changes |-> b, install |-> v]
SwitchAsk(k, c, v) ==
  [kind |-> k, cluster |-> c, changes |-> SwitchedTo(k, v), install |-> FALSE]
DeleteAsk(c) == [NoAsk EXCEPT !.kind = "delete", !.cluster = c]

(* A request that enters asks for something that fits, of its cluster.     *)
AskFits(ask) ==
  /\ ask \in Asks
  /\ ask.kind \in {"create", "update"} => ask.changes.name \in Names
  /\ ask.kind \in {"enforced", "scanning"} =>
       /\ ask.changes.name = Keep /\ ask.changes.kube = Keep
       /\ ask.kind = "scanning" => ask.changes.enforced = Keep

LEMMA AsksOfRequests ==
  ASSUME NEW c \in Clusters, NEW v \in BOOLEAN
  PROVE  /\ \A b \in Bodies : /\ AskFits(CreateAsk(b, v)) /\ CreateAsk(b, v).kind = "create"
                              /\ CreateAsk(b, v).changes = b
                              /\ AskFits(UpdateAsk(c, b, v))
         /\ AskFits(DeleteAsk(c)) /\ DeleteAsk(c).kind = "delete"
         /\ DeleteAsk(c).cluster = c
         /\ \A k \in {"enforced", "scanning"} : AskFits(SwitchAsk(k, c, v))
<1>1. ASSUME NEW b \in Bodies
      PROVE  /\ AskFits(CreateAsk(b, v)) /\ CreateAsk(b, v).kind = "create"
             /\ CreateAsk(b, v).changes = b
  <2>1. /\ CreateAsk(b, v) \in Asks /\ CreateAsk(b, v).kind = "create"
        /\ CreateAsk(b, v).changes = b
    BY <1>1, BodyType, ClustersAssumption DEF CreateAsk, NoAsk, Asks, Kinds
  <2>. QED BY <1>1, <2>1, BodyType DEF AskFits
<1>2. \A b \in Bodies : AskFits(UpdateAsk(c, b, v))
  BY BodyType DEF UpdateAsk, AskFits, Asks, Kinds
<1>3. AskFits(DeleteAsk(c)) /\ DeleteAsk(c).kind = "delete" /\ DeleteAsk(c).cluster = c
  BY NoRowType DEF DeleteAsk, AskFits, NoAsk, Asks, Kinds
<1>4. ASSUME NEW k \in {"enforced", "scanning"} PROVE AskFits(SwitchAsk(k, c, v))
  <2>1. SwitchedTo(k, v) \in Changes
    BY DEF SwitchedTo, Nothing, Changes
  <2>2. /\ SwitchedTo(k, v).name = Keep /\ SwitchedTo(k, v).kube = Keep
        /\ k = "scanning" => SwitchedTo(k, v).enforced = Keep
    BY DEF SwitchedTo, Nothing
  <2>. QED BY <2>1, <2>2 DEF SwitchAsk, AskFits, Asks, Kinds
<1>. QED BY <1>1, <1>2, <1>3, <1>4

(* A request that begins goes from "idle" to its first step and asks for   *)
(* something that fits; a switch has read the row of its cluster.          *)
BeginsWith(r, ask, to) ==
  /\ pc[r] = "idle" /\ Goes(r, to) /\ Enters(r, ask) /\ AskFits(ask)
  /\ ask.kind = "create" => to = "insert"
  /\ ask.kind = "update" => to = "write"
  /\ ask.kind \in {"enforced", "scanning"} =>
       /\ to \in {"write", "hook"} /\ copy'[r] = row[ask.cluster].data
       /\ ask.kind = "enforced" /\ ask.changes.enforced = TRUE => to = "hook"
  /\ ask.kind = "delete" => /\ to = "drop" /\ doubt' = doubt \cup {ask.cluster}
                            /\ faults' = 0 => HookOf(ask.cluster) \notin webhook'
  /\ ask.kind # "delete" => UNCHANGED <<webhook, doubt, faults>>
  /\ ask.kind # "create" => ask.cluster \in Live
  /\ ask.kind = "create" => ~NameTaken(ask.changes.name, Clusters)
  /\ ask.kind = "update" => ~NameTaken(ask.changes.name, Clusters \ {ask.cluster})
  /\ copy' \in [Requests -> Columns] /\ \A q \in Requests \ {r} : copy'[q] = copy[q]
  /\ requests' \in 0 .. MaxRequests /\ faults' \in 0 .. MaxFaults
  /\ faults' = 0 => faults = 0
  /\ webhook' \subseteq webhook
  /\ ask.kind = "delete" => webhook \ {HookOf(ask.cluster)} \subseteq webhook'
  /\ doubt' \subseteq Clusters
  /\ UNCHANGED <<row, asked, former>>

LEMMA BeginningIs ==
  ASSUME TypeOK, NEW r \in Requests, NEW c \in Clusters, NEW v \in BOOLEAN,
         NEW k \in {"enforced", "scanning"},
         \/ \E b \in Bodies : Create(r, b, v) \/ Update(r, c, b, v)
         \/ Switch(r, c, k, v) \/ Delete(r, c)
  PROVE  \E ask \in Asks, to \in {"insert", "write", "hook", "drop"} : BeginsWith(r, ask, to)
<1>. USE ClustersAssumption DEF BeginsWith, Begins, At, TypeOK
<1>1. ASSUME NEW b \in Bodies, Create(r, b, v)
      PROVE  \E ask \in Asks, to \in {"insert", "write", "hook", "drop"} : BeginsWith(r, ask, to)
  <2>. DEFINE ask == CreateAsk(b, v)
  <2>1. AskFits(ask) /\ ask.kind = "create" /\ ask.changes = b /\ ask \in Asks
    BY AsksOfRequests DEF AskFits
  <2>2. Enters(r, ask)
    BY <1>1 DEF Create, CreateAsk
  <2>. HIDE DEF ask
  <2>3. /\ pc[r] = "idle" /\ Goes(r, "insert") /\ requests' = requests + 1 /\ requests < MaxRequests
        /\ ~NameTaken(b.name, Clusters)
        /\ UNCHANGED <<row, webhook, copy, faults, asked, former, doubt>>
    BY <1>1 DEF Create
  <2>4. BeginsWith(r, ask, "insert")
    BY <2>1, <2>2, <2>3
  <2>. QED BY <2>1, <2>4
<1>2. ASSUME NEW b \in Bodies, Update(r, c, b, v)
      PROVE  \E ask \in Asks, to \in {"insert", "write", "hook", "drop"} : BeginsWith(r, ask, to)
  <2>. DEFINE ask == UpdateAsk(c, b, v)
  <2>1. AskFits(ask) /\ ask \in Asks
    BY AsksOfRequests DEF AskFits
  <2>2. ask.kind = "update" /\ ask.cluster = c /\ ask.changes = b
    BY DEF UpdateAsk
  <2>3. Enters(r, ask)
    BY <1>2 DEF Update, UpdateAsk
  <2>4. /\ pc[r] = "idle" /\ c \in Live /\ Goes(r, "write") /\ requests' = requests + 1
        /\ requests < MaxRequests /\ ~NameTaken(b.name, Clusters \ {c})
        /\ UNCHANGED <<row, webhook, copy, faults, asked, former, doubt>>
    BY <1>2 DEF Update
  <2>. HIDE DEF ask
  <2>5. BeginsWith(r, ask, "write")
    BY <2>1, <2>2, <2>3, <2>4
  <2>. QED BY <2>1, <2>5
<1>3. CASE Switch(r, c, k, v)
  <2>. DEFINE ask == SwitchAsk(k, c, v)
  <2>1. AskFits(ask) /\ ask \in Asks
    BY AsksOfRequests DEF AskFits
  <2>2. /\ ask.kind = k /\ ask.cluster = c
        /\ k = "enforced" => ask.changes.enforced = v
    BY NoRowType DEF SwitchAsk, SwitchedTo, Nothing, Changes
  <2>3. Enters(r, ask)
    BY <1>3 DEF Switch, SwitchAsk
  <2>. HIDE DEF ask
  <2>4. row[c].data \in Columns
    OBVIOUS
  <2>. QED BY <1>3, <2>1, <2>2, <2>3, <2>4 DEF Switch, FirstStep
<1>4. CASE Delete(r, c)
  <2>. DEFINE ask == DeleteAsk(c)
  <2>1. AskFits(ask) /\ ask \in Asks /\ ask.kind = "delete" /\ ask.cluster = c
    BY AsksOfRequests DEF AskFits
  <2>2. Enters(r, ask)
    BY <1>4 DEF Delete, DeleteAsk
  <2>. HIDE DEF ask
  <2>. QED BY <1>4, <2>1, <2>2 DEF Delete, WebhookRemoved, Fault
<1>. QED BY <1>1, <1>2, <1>3, <1>4

Steps == {"idle", "insert", "write", "hook", "install", "drop"}

(* The search for a webhook and its installation.                          *)
HookStep(r) ==
  LET c == Cluster(r)
  IN  /\ pc[r] \in {"hook", "install"}
      /\ faults' \in 0 .. MaxFaults /\ (faults' = 0 => faults = 0)
      /\ \/ c \notin Live /\ Goes(r, "idle") /\ UNCHANGED <<webhook, doubt>>
         \/ Goes(r, "install") /\ UNCHANGED <<webhook, doubt>>
         \/ c \in Live /\ Goes(r, AfterHook(r)) /\ webhook' = webhook \cup {HookOf(c)}
            /\ Sure(r)
         \/ c \in Live /\ Goes(r, AfterHook(r)) /\ UNCHANGED webhook
            /\ doubt' = doubt \cup {c}
      /\ UNCHANGED <<row, request, copy, requests, asked, raced, met, former>>

(* Requests that end, or none.                                             *)
StopStep ==
  /\ pc' \in [Requests -> Steps] /\ \A q \in Requests : pc'[q] \in {pc[q], "idle"}
  /\ faults' \in 0 .. MaxFaults /\ (faults' = 0 => faults = 0)
  /\ UNCHANGED <<row, webhook, request, copy, requests, history>>

LEMMA StepIs ==
  ASSUME TypeOK, [Next]_vars
  PROVE  \/ \E r \in Requests, ask \in Asks, to \in {"insert", "write", "hook", "drop"} :
              BeginsWith(r, ask, to)
         \/ \E r \in Requests : Insert(r) \/ Write(r) \/ HookStep(r) \/ Drop(r)
         \/ StopStep
<1>. USE ClustersAssumption
<1>0. PICK c \in Clusters, k \in {"enforced", "scanning"} : TRUE
  OBVIOUS
<1>1. ASSUME NEW r \in Requests, LooksForWebhook(r) PROVE HookStep(r)
  <2>1. /\ faults' \in 0 .. MaxFaults /\ (faults' = 0 => faults = 0)
        /\ pc[r] \in {"hook", "install"}
    BY <1>1 DEF LooksForWebhook, Fault, At, TypeOK
  <2>2. webhook' = webhook
    BY <1>1 DEF LooksForWebhook
  <2>3. \A a : a \in webhook => webhook = webhook \cup {a}
    OBVIOUS
  <2>. QED BY <1>1, <2>1, <2>2, <2>3 DEF LooksForWebhook, HookStep
<1>2. ASSUME NEW r \in Requests, InstallsWebhook(r) PROVE HookStep(r)
  <2>1. /\ faults' \in 0 .. MaxFaults /\ (faults' = 0 => faults = 0)
        /\ pc[r] \in {"hook", "install"}
    BY <1>2 DEF InstallsWebhook, Fault, At, TypeOK
  <2>. QED BY <1>2, <2>1 DEF InstallsWebhook, HookStep
<1>3. ASSUME NEW r \in Requests, Fails(r) PROVE StopStep
  BY <1>3 DEF Fails, StopStep, Fault, Goes, TypeOK, Steps
<1>4. ASSUME Crash PROVE StopStep
  BY <1>4 DEF Crash, StopStep, Fault, TypeOK, Steps
<1>5. ASSUME UNCHANGED vars PROVE StopStep
  BY <1>5 DEF vars, StopStep, TypeOK, Steps
<1>6. ASSUME NEW r \in Requests, NEW b \in Bodies, NEW d \in Clusters, NEW v \in BOOLEAN,
             Create(r, b, v) \/ Update(r, d, b, v)
      PROVE  \E ask \in Asks, to \in {"insert", "write", "hook", "drop"} : BeginsWith(r, ask, to)
  BY <1>0, <1>6, BeginningIs
<1>7. ASSUME NEW r \in Requests, NEW d \in Clusters, NEW v \in BOOLEAN,
             NEW w \in {"enforced", "scanning"}, Switch(r, d, w, v)
      PROVE  \E ask \in Asks, to \in {"insert", "write", "hook", "drop"} : BeginsWith(r, ask, to)
  BY <1>7, BeginningIs
<1>8. ASSUME NEW r \in Requests, NEW d \in Clusters, Delete(r, d)
      PROVE  \E ask \in Asks, to \in {"insert", "write", "hook", "drop"} : BeginsWith(r, ask, to)
  BY <1>0, <1>8, BeginningIs
<1>. QED BY <1>1, <1>2, <1>3, <1>4, <1>5, <1>6, <1>7, <1>8 DEF Next

LEMMA InsertIs ==
  ASSUME TypeInv, NEW r \in Requests, Insert(r)
  PROVE  \E c \in Clusters, data \in Columns, ask \in Asks :
           /\ row[c].state = "none"
           /\ row' = [row EXCEPT ![c] = [state |-> "live", data |-> data]]
           /\ asked' = [asked EXCEPT ![c] = data]
           /\ request' = [request EXCEPT ![r] = ask]
           /\ ask.kind = "create" /\ request[r].kind = "create" /\ ask.cluster = c
           /\ ask.changes = request[r].changes /\ data.name = request[r].changes.name
           /\ request[r].changes.name # Keep
           /\ doubt' = IF data.enforced THEN doubt \cup {c} ELSE doubt
<1>. DEFINE data == Asked(r, NoRow)
<1>1. PICK c \in Clusters :
        /\ row[c].state = "none"
        /\ row' = [row EXCEPT ![c] = [state |-> "live", data |-> data]]
        /\ asked' = [asked EXCEPT ![c] = data]
        /\ request' = [request EXCEPT ![r].cluster = c]
        /\ doubt' = IF data.enforced THEN doubt \cup {c} ELSE doubt
  BY DEF Insert
<1>. DEFINE ask == [request[r] EXCEPT !.cluster = c]
<1>2. request[r] \in Asks /\ request[r].kind = "create" /\ request[r].changes.name # Keep
  BY DEF TypeInv, TypeOK, RequestsFit, RequestFits, Insert, At
<1>3. data \in Columns /\ data.name = request[r].changes.name
  <2>1. request \in [Requests -> Asks] /\ NoRow \in Columns
    BY NoRowType DEF TypeInv, TypeOK
  <2>. QED BY <1>2, <2>1, AskedIs DEF Or
<1>4. ask \in Asks /\ ask.kind = "create" /\ ask.cluster = c /\ ask.changes = request[r].changes
  BY <1>2 DEF Asks
<1>5. request' = [request EXCEPT ![r] = ask]
  BY <1>1
<1>. QED BY <1>1, <1>2, <1>3, <1>4, <1>5

(* Where a write comes from: the row as it is, or the row as it was read.  *)
Base(r) == IF Switches(r) THEN copy[r] ELSE row[Cluster(r)].data

LEMMA WriteIs ==
  ASSUME TypeInv, NEW r \in Requests, Write(r)
  PROVE  /\ Cluster(r) \in Clusters /\ Written(r) \in Columns /\ Base(r) \in Columns
         /\ request[r].kind \in {"update", "enforced", "scanning"}
         /\ row' = [row EXCEPT ![Cluster(r)] =
                      [state |-> row[Cluster(r)].state, data |-> Written(r)]]
         /\ Written(r) = Asked(r, Base(r))
         /\ asked' = [asked EXCEPT ![Cluster(r)] = Asked(r, asked[Cluster(r)])]
         /\ asked' \in [Clusters -> Columns]
         /\ request[r].kind = "update" => Written(r).name = request[r].changes.name
         /\ Switches(r) => Written(r).name = copy[r].name /\ Written(r).kube = copy[r].kube
         /\ Written(r).enforced => \/ Base(r).enforced
                                   \/ request[r].kind = "update"
                                   \/ /\ request[r].kind = "enforced"
                                      /\ request[r].changes.enforced = TRUE
         /\ former' = IF Written(r).kube = row[Cluster(r)].data.kube THEN former
                      ELSE former \cup {HookOf(Cluster(r))}
         /\ doubt' = IF Unsettles(r) THEN doubt \cup {Cluster(r)} ELSE doubt
<1>1. /\ Cluster(r) \in Clusters /\ request[r].kind \in {"update", "enforced", "scanning"}
      /\ request \in [Requests -> Asks] /\ RequestFits(r) /\ pc[r] = "write"
  BY DEF TypeInv, RequestsFit, RequestFits, TypeOK, Asks, Cluster, Write, At
<1>2. /\ row[Cluster(r)].data \in Columns /\ copy[r] \in Columns
      /\ asked[Cluster(r)] \in Columns
  BY <1>1 DEF TypeInv, TypeOK
<1>3. Base(r) \in Columns /\ Written(r) = Asked(r, Base(r))
  BY <1>1, <1>2 DEF Written, Base, Switches
<1>4. /\ Written(r) \in Columns /\ Asked(r, asked[Cluster(r)]) \in Columns
      /\ Written(r).name = Or(request[r].changes.name, Base(r).name)
      /\ Written(r).kube = Or(request[r].changes.kube, Base(r).kube)
      /\ Written(r).enforced = Or(request[r].changes.enforced, Base(r).enforced)
  BY <1>1, <1>2, <1>3, AskedIs
<1>5. request[r].kind = "update" => Written(r).name = request[r].changes.name
  BY <1>1, <1>4 DEF RequestFits, Or
<1>6. Switches(r) => Written(r).name = copy[r].name /\ Written(r).kube = copy[r].kube
  BY <1>1, <1>4 DEF RequestFits, Or, Base
<1>7. Written(r).enforced => \/ Base(r).enforced
                             \/ request[r].kind = "update"
                             \/ /\ request[r].kind = "enforced"
                                /\ request[r].changes.enforced = TRUE
  <2>1. CASE request[r].kind = "update"
    BY <2>1
  <2>2. CASE request[r].kind = "scanning"
    BY <1>1, <1>4, <2>2 DEF RequestFits, Or, Switches
  <2>3. CASE request[r].kind = "enforced" /\ request[r].changes.enforced = Keep
    BY <1>4, <2>3 DEF Or
  <2>4. CASE request[r].kind = "enforced" /\ request[r].changes.enforced # Keep
    <3>1. request[r].changes.enforced \in BOOLEAN
      BY <1>1, <2>4 DEF Asks, Changes
    <3>. QED BY <1>4, <2>4, <3>1 DEF Or
  <2>. QED BY <1>1, <2>1, <2>2, <2>3, <2>4
<1>8. asked' = [asked EXCEPT ![Cluster(r)] = Asked(r, asked[Cluster(r)])]
  BY DEF Write
<1>9. asked' \in [Clusters -> Columns]
  BY <1>1, <1>4, <1>8 DEF TypeInv, TypeOK
<1>10. row' = [row EXCEPT ![Cluster(r)] =
                 [state |-> row[Cluster(r)].state, data |-> Written(r)]]
  BY DEF Write, WithColumns
<1>11. /\ former' = IF Written(r).kube = row[Cluster(r)].data.kube THEN former
                    ELSE former \cup {HookOf(Cluster(r))}
       /\ doubt' = IF Unsettles(r) THEN doubt \cup {Cluster(r)} ELSE doubt
  BY DEF Write, HookOf
<1>. QED BY <1>1, <1>3, <1>4, <1>5, <1>6, <1>7, <1>8, <1>9, <1>10, <1>11

LEMMA DropIs ==
  ASSUME TypeOK, NEW r \in Requests, Drop(r)
  PROVE  /\ Cluster(r) \in Clusters
         /\ row' = [row EXCEPT ![Cluster(r)] =
                      [state |-> "deleted", data |-> row[Cluster(r)].data]]
<1>1. Cluster(r) \in Clusters
  BY DEF TypeOK, Asks, Cluster
<1>2. row[Cluster(r)] \in [state : RowStates, data : Columns]
  BY <1>1 DEF TypeOK
<1>3. [row[Cluster(r)] EXCEPT !.state = "deleted"]
        = [state |-> "deleted", data |-> row[Cluster(r)].data]
  BY <1>2
<1>. QED BY <1>1, <1>3 DEF Drop

LEMMA HookType ==
  ASSUME TypeOK, NEW c \in Clusters
  PROVE  HookOf(c) \in Kubes \X Clusters
<1>1. row[c].data \in Columns
  BY DEF TypeOK
<1>. QED BY <1>1 DEF HookOf, Columns

LEMMA EntersIs ==
  ASSUME TypeOK, NEW r \in Requests, NEW ask \in Asks, Enters(r, ask)
  PROVE  /\ request' = [request EXCEPT ![r] = ask]
         /\ request' \in [Requests -> Asks]
         /\ raced' \subseteq Clusters /\ met' \subseteq Requests
<1>1. ask.cluster \in Clusters
  BY DEF Asks
<1>. QED BY <1>1 DEF Enters, TypeOK

(* Every variable keeps its type, whatever requests overlap and fail.      *)
LEMMA TypeInvariance == Spec => []TypeInv
<1>. USE ClustersAssumption
<1>1. Init => TypeInv
  <2>. SUFFICES ASSUME Init PROVE TypeInv
    OBVIOUS
  <2>1. NoRow \in Columns /\ NoAsk \in Asks /\ ~(NoAsk.kind \in {"enforced", "scanning"})
    BY NoRowType DEF NoAsk
  <2>2. TypeOK
    BY <2>1 DEF Init, TypeOK, RowStates
  <2>3. \A r \in Requests : pc[r] = "idle" /\ request[r] = NoAsk
    BY DEF Init
  <2>. QED BY <2>1, <2>2, <2>3 DEF TypeInv, RequestsFit, RequestFits, Busy, Switches
<1>2. TypeInv /\ [Next]_vars => TypeInv'
  <2>. SUFFICES ASSUME TypeInv, [Next]_vars PROVE TypeInv'
    OBVIOUS
  <2>0. TypeOK /\ \A q \in Requests : RequestFits(q) /\ Cluster(q) \in Clusters
    BY DEF TypeInv, RequestsFit, TypeOK, Asks, Cluster
  <2>1. ASSUME NEW r \in Requests, NEW ask \in Asks, NEW to \in {"insert", "write", "hook", "drop"},
               BeginsWith(r, ask, to)
        PROVE  TypeInv'
    <3>1. /\ pc' = [pc EXCEPT ![r] = to] /\ Enters(r, ask) /\ AskFits(ask)
          /\ UNCHANGED row
      BY <2>1 DEF BeginsWith, Goes
    <3>2. request' = [request EXCEPT ![r] = ask] /\ request' \in [Requests -> Asks]
      BY <2>0, <3>1, EntersIs
    <3>3. TypeOK'
      BY <2>0, <2>1, <3>1, <3>2, EntersIs DEF BeginsWith, TypeOK
    <3>4. /\ pc'[r] = to /\ request'[r] = ask
          /\ \A q \in Requests \ {r} : pc'[q] = pc[q] /\ request'[q] = request[q]
      BY <2>0, <3>1, <3>2 DEF TypeOK
    <3>5. RequestFits(r)'
      <4>1. to # "insert" => row[ask.cluster].state # "none"
        BY <2>1 DEF BeginsWith, Live
      <4>2. (to = "insert" => ask.kind = "create") /\ (to = "write" => ask.kind # "create")
            /\ (to = "write" => ask.kind # "delete")
        BY <2>1 DEF BeginsWith, Asks, Kinds
      <4>3. ask.kind \in {"create", "update"} => ask.changes.name # Keep
        BY <3>1 DEF AskFits
      <4>4. ask.kind \in Kinds
        BY DEF Asks
      <4>. QED BY <3>1, <3>4, <4>1, <4>2, <4>3, <4>4
           DEF RequestFits, AskFits, Busy, Switches, Cluster, Kinds
    <3>6. ASSUME NEW q \in Requests, q # r PROVE RequestFits(q)'
      <4>1. RequestFits(q) /\ pc'[q] = pc[q] /\ request'[q] = request[q] /\ row' = row
        BY <2>0, <3>1, <3>4, <3>6
      <4>. QED BY <4>1 DEF RequestFits, Busy, Switches, Cluster
    <3>. QED BY <3>3, <3>5, <3>6 DEF TypeInv, RequestsFit
  <2>2. ASSUME NEW r \in Requests, Insert(r) PROVE TypeInv'
    <3>1. PICK c \in Clusters, data \in Columns, ask \in Asks :
            /\ row' = [row EXCEPT ![c] = [state |-> "live", data |-> data]]
            /\ asked' = [asked EXCEPT ![c] = data]
            /\ request' = [request EXCEPT ![r] = ask]
            /\ ask.kind = "create" /\ ask.cluster = c
            /\ ask.changes = request[r].changes
            /\ request[r].changes.name # Keep
            /\ doubt' = IF data.enforced THEN doubt \cup {c} ELSE doubt
      BY <2>2, InsertIs
    <3>2. row' \in [Clusters -> [state : RowStates, data : Columns]]
      BY <2>0, <3>1 DEF TypeOK, RowStates
    <3>3. /\ pc'[r] \in {"hook", "idle"} /\ pc' \in [Requests -> Steps]
          /\ \A q \in Requests \ {r} : pc'[q] = pc[q]
      BY <2>0, <2>2 DEF Insert, Goes, TypeOK, Steps
    <3>4. TypeOK'
      BY <2>0, <2>2, <3>1, <3>2, <3>3 DEF Insert, TypeOK, Steps
    <3>5. /\ request'[r] = ask /\ \A q \in Requests \ {r} : request'[q] = request[q]
          /\ row'[c].state # "none" /\ \A b \in Clusters \ {c} : row'[b] = row[b]
      BY <2>0, <3>1 DEF TypeOK
    <3>6. RequestFits(r)'
      BY <3>1, <3>3, <3>5 DEF RequestFits, Busy, Switches, Cluster
    <3>7. ASSUME NEW q \in Requests, q # r PROVE RequestFits(q)'
      <4>1. RequestFits(q) /\ pc'[q] = pc[q] /\ request'[q] = request[q]
            /\ Cluster(q) \in Clusters
        BY <2>0, <3>3, <3>5, <3>7
      <4>2. row[Cluster(q)].state # "none" => row'[Cluster(q)].state # "none"
        BY <3>5, <4>1
      <4>. QED BY <4>1, <4>2 DEF RequestFits, Busy, Switches, Cluster
    <3>. QED BY <3>4, <3>6, <3>7 DEF TypeInv, RequestsFit
  <2>3. ASSUME NEW r \in Requests, Write(r) PROVE TypeInv'
    <3>. DEFINE c == Cluster(r)   d == Written(r)
    <3>0. /\ c \in Clusters /\ d \in Columns
          /\ row' = [row EXCEPT ![c] = [state |-> row[c].state, data |-> d]]
          /\ former' \subseteq former \cup {HookOf(c)} /\ doubt' \subseteq doubt \cup {c}
      BY <2>3, WriteIs
    <3>1. HookOf(c) \in Kubes \X Clusters
      BY <2>0, <3>0, HookType
    <3>2. asked' \in [Clusters -> Columns]
      BY <2>3, WriteIs
    <3>. HIDE DEF c, d
    <3>3. row' \in [Clusters -> [state : RowStates, data : Columns]]
      BY <2>0, <3>0 DEF TypeOK
    <3>4. former' \subseteq Kubes \X Clusters /\ doubt' \subseteq Clusters
      BY <2>0, <3>0, <3>1 DEF TypeOK
    <3>5. TypeOK'
      BY <2>0, <2>3, <3>2, <3>3, <3>4 DEF Write, Goes, TypeOK
    <3>6. /\ request' = request /\ \A b \in Clusters : row'[b].state = row[b].state
          /\ pc'[r] \in {"hook", "idle"} /\ pc[r] = "write"
          /\ \A q \in Requests \ {r} : pc'[q] = pc[q]
      BY <2>0, <2>3, <3>0 DEF Write, At, Goes, TypeOK
    <3>7. ASSUME NEW q \in Requests PROVE RequestFits(q)'
      <4>1. RequestFits(q) /\ Cluster(q) \in Clusters
        BY <2>0
      <4>. QED BY <3>6, <4>1 DEF RequestFits, Busy, Switches, Cluster
    <3>. QED BY <3>5, <3>7 DEF TypeInv, RequestsFit
  <2>4. ASSUME NEW r \in Requests, HookStep(r) PROVE TypeInv'
    <3>1. Cluster(r) \in Clusters /\ HookOf(Cluster(r)) \in Kubes \X Clusters
      BY <2>0, HookType
    <3>2. \E to \in {"idle", "install", "write"} : pc' = [pc EXCEPT ![r] = to]
      BY <2>4 DEF HookStep, Goes, AfterHook
    <3>3. webhook' \subseteq Kubes \X Clusters /\ doubt' \subseteq Clusters
      BY <2>0, <2>4, <3>1 DEF HookStep, Sure, TypeOK
    <3>4. TypeOK'
      BY <2>0, <2>4, <3>2, <3>3 DEF HookStep, TypeOK
    <3>5. /\ UNCHANGED <<row, request>> /\ pc[r] \in {"hook", "install"}
          /\ pc'[r] = "write" => request[r].kind = "enforced"
          /\ pc'[r] # "insert"
          /\ \A q \in Requests \ {r} : pc'[q] = pc[q]
      BY <2>0, <2>4 DEF HookStep, Goes, AfterHook, TypeOK
    <3>6. ASSUME NEW q \in Requests PROVE RequestFits(q)'
      <4>1. RequestFits(q)
        BY <2>0
      <4>. QED BY <3>5, <4>1 DEF RequestFits, Busy, Switches, Cluster
    <3>. QED BY <3>4, <3>6 DEF TypeInv, RequestsFit
  <2>5. ASSUME NEW r \in Requests, Drop(r) PROVE TypeInv'
    <3>. DEFINE c == Cluster(r)
    <3>0. /\ c \in Clusters
          /\ row' = [row EXCEPT ![c] = [state |-> "deleted", data |-> row[c].data]]
      BY <2>0, <2>5, DropIs
    <3>. HIDE DEF c
    <3>1. row' \in [Clusters -> [state : RowStates, data : Columns]]
      BY <2>0, <3>0 DEF TypeOK, RowStates
    <3>2. TypeOK'
      BY <2>0, <2>5, <3>1 DEF Drop, Goes, history, TypeOK
    <3>3. /\ request' = request
          /\ \A b \in Clusters : row[b].state # "none" => row'[b].state # "none"
          /\ pc'[r] = "idle" /\ \A q \in Requests \ {r} : pc'[q] = pc[q]
      BY <2>0, <2>5, <3>0 DEF Drop, Goes, TypeOK
    <3>4. ASSUME NEW q \in Requests PROVE RequestFits(q)'
      <4>1. RequestFits(q) /\ Cluster(q) \in Clusters
        BY <2>0
      <4>. QED BY <3>3, <4>1 DEF RequestFits, Busy, Switches, Cluster
    <3>. QED BY <3>2, <3>4 DEF TypeInv, RequestsFit
  <2>6. CASE StopStep
    <3>1. TypeOK'
      BY <2>0, <2>6 DEF StopStep, history, TypeOK, Steps
    <3>2. ASSUME NEW q \in Requests PROVE RequestFits(q)'
      <4>1. RequestFits(q) /\ pc'[q] \in {pc[q], "idle"} /\ UNCHANGED <<row, request>>
        BY <2>0, <2>6 DEF StopStep
      <4>. QED BY <4>1 DEF RequestFits, Busy, Switches, Cluster
    <3>. QED BY <3>1, <3>2 DEF TypeInv, RequestsFit
  <2>. QED BY <2>0, <2>1, <2>2, <2>3, <2>4, <2>5, <2>6, StepIs
<1>. QED BY <1>1, <1>2, PTL DEF Spec

(* Every variable keeps its type, for any number of clusters and requests. *)
THEOREM TypeCorrect == Spec => []TypeOK
<1>1. TypeInv => TypeOK
  BY DEF TypeInv
<1>. QED BY <1>1, TypeInvariance, PTL

(* A deleted cluster stays deleted: a write keeps the state it finds, and  *)
(* rows are inserted under new ids only.                                   *)
THEOREM DeletionIsFinal == Spec => DeletedStaysDeleted
<1>1. TypeInv /\ [Next]_vars =>
        [\A c \in Clusters : row[c].state = "deleted" => row'[c].state = "deleted"]_vars
  <2>. SUFFICES ASSUME TypeInv, [Next]_vars, NEW c \in Clusters, row[c].state = "deleted"
                PROVE  row'[c].state = "deleted"
    OBVIOUS
  <2>1. row \in [Clusters -> [state : RowStates, data : Columns]] /\ TypeOK
    BY DEF TypeInv, TypeOK
  <2>2. ASSUME NEW r \in Requests, Insert(r) PROVE row'[c].state = "deleted"
    <3>1. PICK b \in Clusters, data \in Columns :
            /\ row[b].state = "none"
            /\ row' = [row EXCEPT ![b] = [state |-> "live", data |-> data]]
      BY <2>2, InsertIs
    <3>. QED BY <2>1, <3>1
  <2>3. ASSUME NEW r \in Requests, Write(r) PROVE row'[c].state = "deleted"
    <3>1. /\ Cluster(r) \in Clusters
          /\ row' = [row EXCEPT ![Cluster(r)] =
                       [state |-> row[Cluster(r)].state, data |-> Written(r)]]
      BY <2>3, WriteIs
    <3>. QED BY <2>1, <3>1
  <2>4. ASSUME NEW r \in Requests, Drop(r) PROVE row'[c].state = "deleted"
    BY <2>1, <2>4, DropIs
  <2>5. CASE UNCHANGED row
    BY <2>5
  <2>6. \/ UNCHANGED row
        \/ \E r \in Requests : Insert(r) \/ Write(r) \/ Drop(r)
    <3>1. \A r, ask, to : BeginsWith(r, ask, to) => UNCHANGED row
      BY DEF BeginsWith
    <3>2. \A r : HookStep(r) => UNCHANGED row
      BY DEF HookStep
    <3>3. StopStep => UNCHANGED row
      BY DEF StopStep
    <3>. QED BY <2>1, <3>1, <3>2, <3>3, StepIs
  <2>. QED BY <2>2, <2>3, <2>4, <2>5, <2>6
<1>. QED BY <1>1, TypeInvariance, PTL DEF Spec, DeletedStaysDeleted

-----------------------------------------------------------------------------
(* Requests that are alone with their clusters: two that are in progress   *)
(* for one cluster have met, a switch that no other met has read the row   *)
(* as it still is, and a cluster is not deleted under a request unless     *)
(* they raced.                                                             *)
Apart ==
  \A q, r \in Requests :
    q # r /\ Busy(q) /\ Busy(r) /\ Cluster(q) = Cluster(r) => r \in met
AloneFits(r) ==
  /\ pc[r] = "insert" => r \notin met
  /\ Busy(r) /\ r \in met => Cluster(r) \in raced
  /\ Busy(r) /\ Switches(r) /\ r \notin met => copy[r] = row[Cluster(r)].data
  /\ Busy(r) => row[Cluster(r)].state = "live" \/ Cluster(r) \in raced

AloneInv ==
  /\ Apart
  /\ \A r \in Requests : AloneFits(r)
  /\ ChangesAreKept

(* What a request says of itself stays, if it and its row stay and it      *)
(* meets no other.                                                         *)
LEMMA StaysAlone ==
  ASSUME NEW q \in Requests, AloneFits(q), pc'[q] \in {pc[q], "idle"},
         request'[q] = request[q], copy'[q] = copy[q],
         Busy(q) => \/ row'[Cluster(q)] = row[Cluster(q)]
                    \/ q \in met' /\ Cluster(q) \in raced',
         raced \subseteq raced', pc[q] = "insert" /\ q \in met' => q \in met,
         q \in met => q \in met' \/ ~Busy(q),
         Busy(q) /\ q \in met' => q \in met \/ Cluster(q) \in raced'
  PROVE  AloneFits(q)'
<1>1. (Busy(q)' => Busy(q)) /\ Cluster(q)' = Cluster(q) /\ (Switches(q)' <=> Switches(q))
  BY DEF Busy, Cluster, Switches
<1>2. (pc[q] = "insert")' => q \notin met'
  BY DEF AloneFits
<1>3. Busy(q)' /\ q \in met' => Cluster(q) \in raced'
  BY <1>1 DEF AloneFits
<1>4. Busy(q)' /\ Switches(q)' /\ q \notin met' => copy'[q] = row'[Cluster(q)].data
  BY <1>1 DEF AloneFits
<1>5. Busy(q)' => row'[Cluster(q)].state = "live" \/ Cluster(q) \in raced'
  BY <1>1 DEF AloneFits
<1>. QED BY <1>1, <1>2, <1>3, <1>4, <1>5 DEF AloneFits

LEMMA AloneInvariance == Spec => []AloneInv
<1>1. Init => AloneInv
  <2>. SUFFICES ASSUME Init PROVE AloneInv
    OBVIOUS
  <2>1. \A r \in Requests : ~Busy(r) /\ pc[r] = "idle"
    BY DEF Init, Busy
  <2>2. ChangesAreKept
    BY DEF Init, ChangesAreKept
  <2>. QED BY <2>1, <2>2 DEF AloneInv, Apart, AloneFits
<1>2. TypeInv /\ AloneInv /\ [Next]_vars => AloneInv'
  <2>. SUFFICES ASSUME TypeInv, AloneInv, [Next]_vars PROVE AloneInv'
    OBVIOUS
  <2>0. /\ TypeOK
        /\ pc \in [Requests -> Steps] /\ request \in [Requests -> Asks]
        /\ row \in [Clusters -> [state : RowStates, data : Columns]]
        /\ asked \in [Clusters -> Columns]
        /\ \A q \in Requests : Cluster(q) \in Clusters /\ RequestFits(q) /\ AloneFits(q)
    BY DEF TypeInv, TypeOK, RequestsFit, Asks, Cluster, AloneInv, Steps
  <2>1. ASSUME NEW r \in Requests, NEW ask \in Asks, NEW to \in {"insert", "write", "hook", "drop"},
               BeginsWith(r, ask, to)
        PROVE  AloneInv'
    <3>. DEFINE others == {q \in Requests \ {r} : Busy(q) /\ Cluster(q) = ask.cluster}
                meets == IF ask.kind = "create" \/ others = {} THEN {} ELSE {r} \cup others
    <3>1. /\ pc'[r] = to /\ request'[r] = ask /\ pc[r] = "idle"
          /\ \A q \in Requests \ {r} : /\ pc'[q] = pc[q] /\ request'[q] = request[q]
                                       /\ copy'[q] = copy[q]
      BY <2>0, <2>1 DEF BeginsWith, Enters, Goes
    <3>2. /\ met' = (met \ {r}) \cup meets
          /\ raced' = IF meets = {} THEN raced ELSE raced \cup {ask.cluster}
          /\ UNCHANGED <<row, asked>>
      BY <2>1 DEF BeginsWith, Enters
    <3>3. /\ ask.kind = "create" <=> to = "insert"
          /\ ask.kind # "create" => row[ask.cluster].state = "live"
          /\ ask.kind \in {"enforced", "scanning"} => copy'[r] = row[ask.cluster].data
      BY <2>1 DEF BeginsWith, Live, Asks, Kinds
    <3>4. /\ r \in meets <=> ask.kind # "create" /\ others # {}
          /\ \A q \in Requests \ {r} : q \in meets <=> ask.kind # "create" /\ q \in others
          /\ raced \subseteq raced' /\ (meets # {} => ask.cluster \in raced')
      BY <3>2
    <3>5. \A q \in Requests \ {r} : /\ Busy(q)' <=> Busy(q)
                                    /\ Cluster(q)' = Cluster(q)
                                    /\ q \in others <=> Busy(q) /\ Cluster(q) = ask.cluster
      BY <3>1 DEF Busy, Cluster
    <3>6. (Busy(r)' <=> to # "insert") /\ Cluster(r)' = ask.cluster
      BY <3>1 DEF Busy, Cluster
    <3>. HIDE DEF others, meets
    <3>7. Apart'
      <4>. SUFFICES ASSUME NEW p \in Requests, NEW q \in Requests, p # q,
                           Busy(p)', Busy(q)', Cluster(p)' = Cluster(q)'
                    PROVE  q \in met'
        BY DEF Apart
      <4>1. CASE p = r
        BY <3>2, <3>3, <3>4, <3>5, <3>6, <4>1
      <4>2. CASE q = r
        <5>1. p \in others
          BY <3>5, <3>6, <4>2
        <5>. QED BY <3>2, <3>3, <3>4, <3>6, <4>2, <5>1
      <4>3. CASE p # r /\ q # r
        BY <3>2, <3>5, <4>3 DEF AloneInv, Apart
      <4>. QED BY <4>1, <4>2, <4>3
    <3>8. ASSUME NEW q \in Requests, q # r PROVE AloneFits(q)'
      <4>1. /\ pc[q] = "insert" /\ q \in met' => q \in met
            /\ q \in met => q \in met'
            /\ Busy(q) /\ q \in met' => q \in met \/ Cluster(q) \in raced'
        BY <3>2, <3>4, <3>5, <3>8 DEF Busy
      <4>. QED BY <2>0, <3>1, <3>2, <3>4, <3>8, <4>1, StaysAlone
    <3>9. AloneFits(r)'
      <4>1. (Switches(r) <=> ask.kind \in {"enforced", "scanning"})'
        BY <3>1 DEF Switches
      <4>2. r \in met' <=> r \in meets
        BY <3>2
      <4>3. to = "insert" => r \notin met'
        BY <3>3, <3>4, <4>2
      <4>4. to # "insert" /\ r \in met' => ask.cluster \in raced'
        BY <3>4, <4>2
      <4>5. Switches(r)' => copy'[r] = row'[ask.cluster].data
        BY <3>2, <3>3, <4>1
      <4>6. to # "insert" => row'[ask.cluster].state = "live"
        BY <3>2, <3>3
      <4>. QED BY <3>1, <3>6, <4>3, <4>4, <4>5, <4>6 DEF AloneFits
    <3>10. ChangesAreKept'
      BY <3>2, <3>4 DEF AloneInv, ChangesAreKept
    <3>. QED BY <3>7, <3>8, <3>9, <3>10 DEF AloneInv
  <2>2. ASSUME NEW r \in Requests, Insert(r) PROVE AloneInv'
    <3>1. PICK c \in Clusters, data \in Columns, ask \in Asks :
            /\ row[c].state = "none"
            /\ row' = [row EXCEPT ![c] = [state |-> "live", data |-> data]]
            /\ asked' = [asked EXCEPT ![c] = data]
            /\ request' = [request EXCEPT ![r] = ask]
            /\ ask.kind = "create" /\ ask.cluster = c
      BY <2>2, InsertIs
    <3>2. /\ pc[r] = "insert" /\ pc'[r] # "insert" /\ UNCHANGED <<copy, raced, met>>
          /\ \A q \in Requests \ {r} : pc'[q] = pc[q]
      BY <2>0, <2>2 DEF Insert, At, Goes
    <3>3. /\ request'[r] = ask /\ row'[c].state = "live" /\ row'[c].data = data
          /\ asked'[c] = data
          /\ \A q \in Requests \ {r} : request'[q] = request[q]
          /\ \A b \in Clusters \ {c} : row'[b] = row[b] /\ asked'[b] = asked[b]
      BY <2>0, <3>1
    <3>4. \A q \in Requests \ {r} : /\ Busy(q)' <=> Busy(q)
                                    /\ Cluster(q)' = Cluster(q)
                                    /\ Busy(q) => Cluster(q) # c
      BY <2>0, <3>1, <3>2, <3>3 DEF Busy, Cluster, RequestFits
    <3>5. Cluster(r)' = c /\ ~Switches(r)'
      BY <3>1, <3>3 DEF Cluster, Switches
    <3>6. Apart'
      BY <3>2, <3>4, <3>5 DEF AloneInv, Apart
    <3>7. ASSUME NEW q \in Requests, q # r PROVE AloneFits(q)'
      BY <2>0, <3>2, <3>3, <3>4, <3>7, StaysAlone
    <3>8. AloneFits(r)'
      BY <2>0, <3>2, <3>3, <3>5 DEF AloneFits
    <3>9. ChangesAreKept'
      BY <3>2, <3>3 DEF AloneInv, ChangesAreKept
    <3>. QED BY <3>6, <3>7, <3>8, <3>9 DEF AloneInv
  <2>3. ASSUME NEW r \in Requests, Write(r) PROVE AloneInv'
    <3>. DEFINE c == Cluster(r)   d == Written(r)   a == Asked(r, asked[c])
    <3>1. /\ c \in Clusters /\ d \in Columns
          /\ row' = [row EXCEPT ![c] = [state |-> row[c].state, data |-> d]]
          /\ asked' = [asked EXCEPT ![c] = a]
      BY <2>3, WriteIs
    <3>2. /\ UNCHANGED <<request, copy, raced, met>>
          /\ pc[r] = "write" /\ pc'[r] \in {"hook", "idle"}
          /\ pc'[r] = "hook" => ~Switches(r)
          /\ \A q \in Requests \ {r} : pc'[q] = pc[q]
      BY <2>0, <2>3 DEF Write, At, Goes, Switches
    <3>3. Busy(r) /\ (\A q \in Requests : (Busy(q)' => Busy(q)) /\ Cluster(q)' = Cluster(q))
      BY <3>2 DEF Busy, Cluster
    <3>4. c \notin raced => d = a
      <4>1. c \notin raced => row[c].data = asked[c]
        BY <3>1 DEF AloneInv, ChangesAreKept
      <4>2. c \notin raced /\ Switches(r) => copy[r] = row[c].data
        BY <2>0, <3>3 DEF AloneFits
      <4>3. d = Asked(r, Base(r))
        BY <2>3, WriteIs
      <4>. QED BY <4>1, <4>2, <4>3 DEF Base
    <3>5. \A q \in Requests \ {r} : Busy(q) /\ Cluster(q) = c => q \in met /\ c \in raced
      BY <2>0, <3>3 DEF AloneInv, Apart, AloneFits
    <3>6. AloneFits(r) /\ Cluster(r) = c /\ Cluster(r)' = c
      BY <2>0, <3>3
    <3>. HIDE DEF c, d, a
    <3>7. /\ row'[c].state = row[c].state /\ row'[c].data = d /\ asked'[c] = a
          /\ \A b \in Clusters \ {c} : row'[b] = row[b] /\ asked'[b] = asked[b]
      BY <2>0, <3>1
    <3>8. Apart'
      BY <3>2, <3>3 DEF AloneInv, Apart
    <3>9. ASSUME NEW q \in Requests, q # r PROVE AloneFits(q)'
      BY <2>0, <3>2, <3>5, <3>7, <3>9, StaysAlone
    <3>10. AloneFits(r)'
      <4>1. Busy(r)' => ~Switches(r)'
        BY <3>2 DEF Busy, Switches
      <4>2. r \in met => c \in raced
        BY <3>3, <3>6 DEF AloneFits
      <4>3. row'[c].state = "live" \/ c \in raced
        BY <3>3, <3>6, <3>7 DEF AloneFits
      <4>. QED BY <3>2, <3>6, <4>1, <4>2, <4>3 DEF AloneFits
    <3>11. ChangesAreKept'
      BY <3>2, <3>4, <3>7 DEF AloneInv, ChangesAreKept
    <3>. QED BY <3>8, <3>9, <3>10, <3>11 DEF AloneInv
  <2>4. ASSUME NEW r \in Requests, HookStep(r) PROVE AloneInv'
    <3>1. /\ UNCHANGED <<row, request, copy, asked, raced, met>>
          /\ Busy(r) /\ pc'[r] # "insert"
          /\ \A q \in Requests \ {r} : pc'[q] = pc[q]
      BY <2>0, <2>4 DEF HookStep, Goes, AfterHook, Busy
    <3>2. \A q \in Requests : (Busy(q)' => Busy(q)) /\ Cluster(q)' = Cluster(q)
      BY <3>1 DEF Busy, Cluster
    <3>3. Apart'
      BY <3>1, <3>2 DEF AloneInv, Apart
    <3>4. ASSUME NEW q \in Requests, q # r PROVE AloneFits(q)'
      BY <2>0, <3>1, <3>4, StaysAlone
    <3>5. AloneFits(r)'
      BY <2>0, <3>1, <3>2 DEF AloneFits, Switches
    <3>6. ChangesAreKept'
      BY <3>1 DEF AloneInv, ChangesAreKept
    <3>. QED BY <3>3, <3>4, <3>5, <3>6 DEF AloneInv
  <2>5. ASSUME NEW r \in Requests, Drop(r) PROVE AloneInv'
    <3>. DEFINE c == Cluster(r)
    <3>1. /\ c \in Clusters
          /\ row' = [row EXCEPT ![c] = [state |-> "deleted", data |-> row[c].data]]
      BY <2>0, <2>5, DropIs
    <3>2. /\ UNCHANGED <<request, copy, asked, raced, met>>
          /\ pc[r] = "drop" /\ pc'[r] = "idle" /\ \A q \in Requests \ {r} : pc'[q] = pc[q]
      BY <2>0, <2>5 DEF Drop, At, Goes, history
    <3>3. Busy(r) /\ (\A q \in Requests : (Busy(q)' => Busy(q)) /\ Cluster(q)' = Cluster(q))
      BY <3>2 DEF Busy, Cluster
    <3>4. \A q \in Requests \ {r} : Busy(q) /\ Cluster(q) = c => q \in met /\ c \in raced
      BY <2>0, <3>3 DEF AloneInv, Apart, AloneFits
    <3>. HIDE DEF c
    <3>5. /\ \A b \in Clusters : row'[b].data = row[b].data
          /\ \A b \in Clusters \ {c} : row'[b] = row[b]
      BY <2>0, <3>1
    <3>6. Apart'
      BY <3>2, <3>3 DEF AloneInv, Apart
    <3>7. ASSUME NEW q \in Requests, q # r PROVE AloneFits(q)'
      BY <2>0, <3>2, <3>4, <3>5, <3>7, StaysAlone
    <3>8. AloneFits(r)'
      BY <3>2 DEF AloneFits, Busy
    <3>9. ChangesAreKept'
      BY <3>2, <3>5 DEF AloneInv, ChangesAreKept
    <3>. QED BY <3>6, <3>7, <3>8, <3>9 DEF AloneInv
  <2>6. CASE StopStep
    <3>1. /\ UNCHANGED <<row, request, copy, asked, raced, met>>
          /\ \A q \in Requests : pc'[q] \in {pc[q], "idle"}
      BY <2>6 DEF StopStep, history
    <3>2. \A q \in Requests : (Busy(q)' => Busy(q)) /\ Cluster(q)' = Cluster(q)
      BY <3>1 DEF Busy, Cluster
    <3>3. Apart'
      BY <3>1, <3>2 DEF AloneInv, Apart
    <3>4. ASSUME NEW q \in Requests PROVE AloneFits(q)'
      BY <2>0, <3>1, StaysAlone
    <3>5. ChangesAreKept'
      BY <3>1 DEF AloneInv, ChangesAreKept
    <3>. QED BY <3>3, <3>4, <3>5 DEF AloneInv
  <2>. QED BY <2>0, <2>1, <2>2, <2>3, <2>4, <2>5, <2>6, StepIs
<1>. QED BY <1>1, <1>2, TypeInvariance, PTL DEF Spec

(* Every column has the value that was asked for it last, unless requests  *)
(* of one cluster met: a switch that is alone writes what is still there.  *)
THEOREM OnlyRacesLoseChanges == Spec => []ChangesAreKept
<1>1. AloneInv => ChangesAreKept
  BY DEF AloneInv
<1>. QED BY <1>1, AloneInvariance, PTL

-----------------------------------------------------------------------------
(* Webhooks are where the row of their cluster points to, or where it was  *)
(* pointed away from; alone, a deletion has taken the former.              *)
Known ==
  \A c \in Clusters, k \in Kubes :
    <<k, c>> \in webhook => /\ row[c].state # "none"
                            /\ k = row[c].data.kube \/ <<k, c>> \in former
Dropped(r) ==
  faults = 0 /\ pc[r] = "drop" /\ Cluster(r) \notin raced => HookOf(Cluster(r)) \notin webhook
Gone ==
  \A c \in Clusters \ raced :
    faults = 0 /\ row[c].state = "deleted" => HookOf(c) \notin webhook

HooksInv == Known /\ Gone /\ \A r \in Requests : Dropped(r)

LEMMA HooksInvariance == Spec => []HooksInv
<1>1. Init => HooksInv
  <2>. SUFFICES ASSUME Init PROVE HooksInv
    OBVIOUS
  <2>1. webhook = {}
    BY DEF Init
  <2>. QED BY <2>1 DEF HooksInv, Known, Gone, Dropped
<1>2. TypeInv /\ AloneInv /\ AloneInv' /\ HooksInv /\ [Next]_vars => HooksInv'
  <2>. SUFFICES ASSUME TypeInv, AloneInv, AloneInv', HooksInv, [Next]_vars PROVE HooksInv'
    OBVIOUS
  <2>0. /\ TypeOK
        /\ pc \in [Requests -> Steps] /\ request \in [Requests -> Asks]
        /\ row \in [Clusters -> [state : RowStates, data : Columns]]
        /\ \A q \in Requests : Cluster(q) \in Clusters /\ Dropped(q) /\ AloneFits(q)
        /\ Known /\ Gone
    BY DEF TypeInv, TypeOK, Asks, Cluster, AloneInv, Steps, HooksInv
  <2>1. ASSUME NEW r \in Requests, NEW ask \in Asks, NEW to \in {"insert", "write", "hook", "drop"},
               BeginsWith(r, ask, to)
        PROVE  HooksInv'
    <3>1. /\ pc'[r] = to /\ request'[r] = ask
          /\ \A q \in Requests \ {r} : pc'[q] = pc[q] /\ request'[q] = request[q]
          /\ raced \subseteq raced' /\ webhook' \subseteq webhook
          /\ UNCHANGED <<row, former>> /\ (faults' = 0 => faults = 0)
      BY <2>0, <2>1 DEF BeginsWith, Enters, Goes
    <3>2. to = "drop" /\ faults' = 0 => HookOf(ask.cluster) \notin webhook'
      BY <2>1 DEF BeginsWith, Asks, Kinds
    <3>3. Known'
      BY <2>0, <3>1 DEF Known
    <3>4. Gone'
      BY <2>0, <3>1 DEF Gone, HookOf
    <3>5. ASSUME NEW q \in Requests, q # r PROVE Dropped(q)'
      <4>1. Dropped(q) /\ Cluster(q)' = Cluster(q) /\ pc'[q] = pc[q]
        BY <2>0, <3>1, <3>5 DEF Cluster
      <4>2. HookOf(Cluster(q))' = HookOf(Cluster(q))
        BY <3>1, <4>1 DEF HookOf
      <4>. QED BY <3>1, <4>1, <4>2 DEF Dropped
    <3>6. Dropped(r)'
      BY <3>1, <3>2 DEF Dropped, Cluster, HookOf
    <3>. QED BY <3>3, <3>4, <3>5, <3>6 DEF HooksInv
  <2>2. ASSUME NEW r \in Requests, Insert(r) PROVE HooksInv'
    <3>1. PICK c \in Clusters, data \in Columns, ask \in Asks :
            /\ row[c].state = "none"
            /\ row' = [row EXCEPT ![c] = [state |-> "live", data |-> data]]
            /\ request' = [request EXCEPT ![r] = ask]
            /\ ask.cluster = c
      BY <2>2, InsertIs
    <3>2. /\ pc[r] = "insert" /\ pc'[r] # "drop" /\ UNCHANGED <<webhook, faults, raced, former>>
          /\ \A q \in Requests \ {r} : pc'[q] = pc[q]
      BY <2>0, <2>2 DEF Insert, At, Goes
    <3>3. /\ row'[c].state = "live" /\ \A b \in Clusters \ {c} : row'[b] = row[b]
          /\ \A q \in Requests \ {r} : request'[q] = request[q]
      BY <2>0, <3>1
    <3>4. \A k \in Kubes : <<k, c>> \notin webhook
      BY <2>0, <3>1 DEF Known
    <3>5. Known'
      BY <2>0, <3>2, <3>3, <3>4 DEF Known
    <3>6. Gone'
      BY <2>0, <3>2, <3>3 DEF Gone, HookOf
    <3>7. ASSUME NEW q \in Requests, q # r PROVE Dropped(q)'
      <4>1. Dropped(q) /\ Cluster(q)' = Cluster(q) /\ pc'[q] = pc[q]
        BY <2>0, <3>2, <3>3, <3>7 DEF Cluster
      <4>2. pc[q] = "drop" => Cluster(q) # c \/ Cluster(q) \in raced
        BY <2>0, <3>1 DEF AloneFits, Busy
      <4>3. Cluster(q) # c => HookOf(Cluster(q))' = HookOf(Cluster(q))
        BY <2>0, <3>3, <4>1 DEF HookOf
      <4>. QED BY <3>2, <4>1, <4>2, <4>3 DEF Dropped
    <3>8. Dropped(r)'
      BY <3>2 DEF Dropped
    <3>. QED BY <3>5, <3>6, <3>7, <3>8 DEF HooksInv
  <2>3. ASSUME NEW r \in Requests, Write(r) PROVE HooksInv'
    <3>. DEFINE c == Cluster(r)   d == Written(r)
    <3>1. /\ c \in Clusters /\ d \in Columns
          /\ row' = [row EXCEPT ![c] = [state |-> row[c].state, data |-> d]]
          /\ former' = IF d.kube = row[c].data.kube THEN former ELSE former \cup {HookOf(c)}
      BY <2>3, WriteIs
    <3>2. /\ UNCHANGED <<request, webhook, faults, raced, met>>
          /\ pc[r] = "write" /\ pc'[r] \in {"hook", "idle"}
          /\ \A q \in Requests \ {r} : pc'[q] = pc[q]
      BY <2>0, <2>3 DEF Write, At, Goes
    <3>3. Busy(r) /\ (row[c].state = "live" \/ c \in raced)
      BY <2>0, <3>2 DEF AloneFits, Busy
    <3>4. \A q \in Requests \ {r} : Busy(q) /\ Cluster(q) = c => c \in raced
      BY <2>0, <3>3 DEF AloneInv, Apart, AloneFits
    <3>. HIDE DEF c, d
    <3>5. /\ row'[c].state = row[c].state /\ row'[c].data = d
          /\ \A b \in Clusters \ {c} : row'[b] = row[b]
      BY <2>0, <3>1
    <3>6. Known'
      <4>. SUFFICES ASSUME NEW b \in Clusters, NEW k \in Kubes, <<k, b>> \in webhook
                    PROVE  row'[b].state # "none" /\ (k = row'[b].data.kube \/ <<k, b>> \in former')
        BY <3>2 DEF Known
      <4>1. row[b].state # "none" /\ (k = row[b].data.kube \/ <<k, b>> \in former)
        BY <2>0 DEF Known
      <4>2. CASE b # c
        BY <3>1, <3>5, <4>1, <4>2
      <4>3. CASE b = c /\ d.kube = row[c].data.kube
        BY <3>1, <3>5, <4>1, <4>3
      <4>4. CASE b = c /\ d.kube # row[c].data.kube
        BY <3>1, <3>5, <4>1, <4>4 DEF HookOf
      <4>. QED BY <4>2, <4>3, <4>4
    <3>7. Gone'
      BY <2>0, <3>2, <3>3, <3>5 DEF Gone, HookOf
    <3>8. ASSUME NEW q \in Requests, q # r PROVE Dropped(q)'
      <4>1. Dropped(q) /\ Cluster(q)' = Cluster(q) /\ pc'[q] = pc[q] /\ Cluster(q) \in Clusters
        BY <2>0, <3>2, <3>8 DEF Cluster
      <4>2. pc[q] = "drop" => Cluster(q) # c \/ Cluster(q) \in raced
        BY <3>4, <3>8 DEF Busy
      <4>3. Cluster(q) # c => HookOf(Cluster(q))' = HookOf(Cluster(q))
        BY <3>5, <4>1 DEF HookOf
      <4>. QED BY <3>2, <4>1, <4>2, <4>3 DEF Dropped
    <3>9. Dropped(r)'
      BY <3>2 DEF Dropped
    <3>. QED BY <3>6, <3>7, <3>8, <3>9 DEF HooksInv
  <2>4. ASSUME NEW r \in Requests, HookStep(r) PROVE HooksInv'
    <3>. DEFINE c == Cluster(r)
    <3>1. /\ UNCHANGED <<row, request, raced, met, former>> /\ (faults' = 0 => faults = 0)
          /\ pc[r] \in {"hook", "install"} /\ pc'[r] # "drop" /\ c \in Clusters
          /\ \A q \in Requests \ {r} : pc'[q] = pc[q]
          /\ webhook' = webhook \/ (row[c].state = "live" /\ webhook' = webhook \cup {HookOf(c)})
      BY <2>0, <2>4 DEF HookStep, Goes, AfterHook, Live
    <3>2. \A q \in Requests \ {r} : Busy(q) /\ Cluster(q) = c => c \in raced
      BY <2>0, <3>1 DEF AloneInv, Apart, AloneFits, Busy
    <3>. HIDE DEF c
    <3>3. \A b \in Clusters : HookOf(b)' = HookOf(b) /\ (HookOf(b) = HookOf(c) => b = c)
      BY <3>1 DEF HookOf
    <3>4. Known'
      BY <2>0, <3>1 DEF Known, HookOf
    <3>5. Gone'
      <4>. SUFFICES ASSUME NEW b \in Clusters \ raced, faults' = 0, row[b].state = "deleted"
                    PROVE  HookOf(b) \notin webhook'
        BY <3>1, <3>3 DEF Gone
      <4>1. HookOf(b) \notin webhook
        BY <2>0, <3>1 DEF Gone
      <4>. QED BY <3>1, <3>3, <4>1
    <3>6. ASSUME NEW q \in Requests, q # r PROVE Dropped(q)'
      <4>1. Dropped(q) /\ Cluster(q)' = Cluster(q) /\ pc'[q] = pc[q] /\ Cluster(q) \in Clusters
        BY <2>0, <3>1, <3>6 DEF Cluster
      <4>2. pc[q] = "drop" => Cluster(q) # c \/ Cluster(q) \in raced
        BY <3>2, <3>6 DEF Busy
      <4>3. HookOf(Cluster(q))' = HookOf(Cluster(q))
        BY <3>3, <4>1
      <4>4. Cluster(q) # c /\ HookOf(Cluster(q)) \notin webhook => HookOf(Cluster(q)) \notin webhook'
        BY <3>1, <3>3, <4>1
      <4>. QED BY <3>1, <4>1, <4>2, <4>3, <4>4 DEF Dropped
    <3>7. Dropped(r)'
      BY <3>1 DEF Dropped
    <3>. QED BY <3>4, <3>5, <3>6, <3>7 DEF HooksInv
  <2>5. ASSUME NEW r \in Requests, Drop(r) PROVE HooksInv'
    <3>. DEFINE c == Cluster(r)
    <3>1. /\ c \in Clusters
          /\ row' = [row EXCEPT ![c] = [state |-> "deleted", data |-> row[c].data]]
      BY <2>0, <2>5, DropIs
    <3>2. /\ UNCHANGED <<request, webhook, faults, raced, former>>
          /\ pc[r] = "drop" /\ pc'[r] = "idle" /\ \A q \in Requests \ {r} : pc'[q] = pc[q]
      BY <2>0, <2>5 DEF Drop, At, Goes, history
    <3>3. faults = 0 /\ c \notin raced => HookOf(c) \notin webhook
      BY <2>0, <3>2 DEF Dropped
    <3>. HIDE DEF c
    <3>4. /\ \A b \in Clusters : row'[b].data = row[b].data
          /\ row'[c].state = "deleted" /\ \A b \in Clusters \ {c} : row'[b] = row[b]
      BY <2>0, <3>1
    <3>5. \A b \in Clusters : HookOf(b)' = HookOf(b)
      BY <3>4 DEF HookOf
    <3>6. Known'
      BY <2>0, <3>2, <3>4 DEF Known
    <3>7. Gone'
      BY <2>0, <3>2, <3>3, <3>4, <3>5 DEF Gone
    <3>8. ASSUME NEW q \in Requests PROVE Dropped(q)'
      <4>1. Dropped(q) /\ Cluster(q)' = Cluster(q) /\ Cluster(q) \in Clusters
            /\ (pc'[q] = "drop" => pc[q] = "drop")
        BY <2>0, <3>2 DEF Cluster
      <4>2. HookOf(Cluster(q))' = HookOf(Cluster(q))
        BY <3>5, <4>1
      <4>. QED BY <3>2, <4>1, <4>2 DEF Dropped
    <3>. QED BY <3>6, <3>7, <3>8 DEF HooksInv
  <2>6. CASE StopStep
    <3>1. /\ UNCHANGED <<row, request, webhook, raced, former>> /\ (faults' = 0 => faults = 0)
          /\ \A q \in Requests : pc'[q] \in {pc[q], "idle"}
      BY <2>6 DEF StopStep, history
    <3>2. \A q \in Requests : Cluster(q)' = Cluster(q)
      BY <3>1 DEF Cluster
    <3>3. \A b \in Clusters : HookOf(b)' = HookOf(b)
      BY <3>1 DEF HookOf
    <3>4. Known'
      BY <2>0, <3>1 DEF Known
    <3>5. Gone'
      BY <2>0, <3>1, <3>3 DEF Gone
    <3>6. ASSUME NEW q \in Requests PROVE Dropped(q)'
      <4>1. Dropped(q) /\ (pc'[q] = "drop" => pc[q] = "drop")
        BY <2>0, <3>1
      <4>2. Cluster(q)' = Cluster(q) /\ HookOf(Cluster(q))' = HookOf(Cluster(q))
        BY <2>0, <3>2, <3>3
      <4>. QED BY <3>1, <4>1, <4>2 DEF Dropped
    <3>. QED BY <3>4, <3>5, <3>6 DEF HooksInv
  <2>. QED BY <2>0, <2>1, <2>2, <2>3, <2>4, <2>5, <2>6, StepIs
<1>. QED BY <1>1, <1>2, TypeInvariance, AloneInvariance, PTL DEF Spec

(* Without errors, only a request that met the deletion leaves a webhook   *)
(* behind where the row of a deleted cluster points to; any other is in a  *)
(* Kubernetes that a write pointed the row away from.                      *)
THEOREM DeletionTakesWebhook == Spec => []DeletedHasNoWebhook
<1>1. TypeInv /\ HooksInv => DeletedHasNoWebhook
  <2>. SUFFICES ASSUME TypeInv, HooksInv, NEW c \in Clusters, NEW k \in Kubes,
                       row[c].state = "deleted", <<k, c>> \in webhook
                PROVE  \/ k = row[c].data.kube /\ (faults > 0 \/ c \in raced)
                       \/ k # row[c].data.kube /\ <<k, c>> \in former
    BY DEF DeletedHasNoWebhook
  <2>1. faults \in 0 .. MaxFaults /\ MaxFaults \in Nat
    BY ClustersAssumption DEF TypeInv, TypeOK
  <2>2. k = row[c].data.kube \/ <<k, c>> \in former
    BY DEF HooksInv, Known
  <2>3. k = row[c].data.kube => faults # 0 \/ c \in raced
    BY DEF HooksInv, Gone, HookOf
  <2>. QED BY <2>1, <2>2, <2>3
<1>. QED BY <1>1, HooksInvariance, TypeInvariance, PTL

-----------------------------------------------------------------------------
(* Nothing is missing at c: it has its webhook, or it is in doubt, or it   *)
(* is no more.                                                             *)
Safe(c) == HookOf(c) \in webhook \/ c \in doubt \/ row[c].state = "deleted"

(* The strengthening of EnforcedHasWebhook: a switch in progress has read  *)
(* where its cluster points to, unless that is in doubt, and whoever is    *)
(* about to write that a cluster enforces, because it was asked to or      *)
(* because it has read so, finds nothing missing there.                    *)
ReadsFit(r) ==
  Busy(r) /\ Switches(r) =>
    /\ Cluster(r) \notin doubt => copy[r].kube = row[Cluster(r)].data.kube
    /\ copy[r].enforced => Safe(Cluster(r))
    /\ pc[r] = "write" /\ request[r].kind = "enforced" /\ request[r].changes.enforced = TRUE
         => Safe(Cluster(r))

EnforcedInv == EnforcedHasWebhook /\ \A r \in Requests : ReadsFit(r)

LEMMA StaysRead ==
  ASSUME NEW q \in Requests, Cluster(q) \in Clusters, ReadsFit(q), pc'[q] \in {pc[q], "idle"},
         request'[q] = request[q], copy'[q] = copy[q],
         Busy(q) => /\ \/ Cluster(q) \in doubt
                       \/ row'[Cluster(q)].data.kube = row[Cluster(q)].data.kube
                    /\ Cluster(q) \in doubt => Cluster(q) \in doubt',
         \A b \in Clusters : Busy(q) /\ b = Cluster(q) /\ Safe(b) => Safe(b)'
  PROVE  ReadsFit(q)'
<1>1. (Busy(q)' => Busy(q)) /\ Cluster(q)' = Cluster(q) /\ (Switches(q)' <=> Switches(q))
  BY DEF Busy, Cluster, Switches
<1>2. PICK c \in Clusters : c = Cluster(q)
  OBVIOUS
<1>3. Busy(q)' /\ Switches(q)' /\ c \notin doubt' => copy'[q].kube = row'[c].data.kube
  BY <1>1, <1>2 DEF ReadsFit
<1>4. Busy(q)' /\ Switches(q)' /\ copy'[q].enforced => Safe(c)'
  BY <1>1, <1>2 DEF ReadsFit
<1>5. Busy(q)' /\ Switches(q)' /\ pc'[q] = "write"
      /\ request'[q].kind = "enforced" /\ request'[q].changes.enforced = TRUE => Safe(c)'
  <2>1. pc'[q] = "write" => pc[q] = "write"
    OBVIOUS
  <2>2. Busy(q) /\ Switches(q) /\ pc[q] = "write"
        /\ request[q].kind = "enforced" /\ request[q].changes.enforced = TRUE => Safe(c)
    BY <1>2 DEF ReadsFit
  <2>3. Busy(q) /\ Safe(c) => Safe(c)'
    BY <1>2
  <2>. QED BY <1>1, <2>1, <2>2, <2>3
<1>. QED BY <1>1, <1>2, <1>3, <1>4, <1>5 DEF ReadsFit, Safe, HookOf

THEOREM EnforcementIsInstalled == Spec => []EnforcedHasWebhook
<1>1. Init => EnforcedInv
  <2>. SUFFICES ASSUME Init PROVE EnforcedInv
    OBVIOUS
  <2>1. Live = {} /\ \A r \in Requests : ~Busy(r)
    BY DEF Init, Live, Busy
  <2>. QED BY <2>1 DEF EnforcedInv, EnforcedHasWebhook, ReadsFit
<1>2. TypeInv /\ AloneInv /\ EnforcedInv /\ [Next]_vars => EnforcedInv'
  <2>. SUFFICES ASSUME TypeInv, AloneInv, EnforcedInv, [Next]_vars PROVE EnforcedInv'
    OBVIOUS
  <2>0. /\ TypeOK /\ EnforcedHasWebhook
        /\ pc \in [Requests -> Steps] /\ request \in [Requests -> Asks]
        /\ row \in [Clusters -> [state : RowStates, data : Columns]]
        /\ \A q \in Requests : /\ Cluster(q) \in Clusters /\ RequestFits(q)
                               /\ AloneFits(q) /\ ReadsFit(q)
    BY DEF TypeInv, TypeOK, RequestsFit, Asks, Cluster, AloneInv, EnforcedInv, Steps
  <2>1. ASSUME NEW r \in Requests, NEW ask \in Asks, NEW to \in {"insert", "write", "hook", "drop"},
               BeginsWith(r, ask, to)
        PROVE  EnforcedInv'
    <3>1. /\ pc'[r] = to /\ request'[r] = ask
          /\ \A q \in Requests \ {r} : /\ pc'[q] = pc[q] /\ request'[q] = request[q]
                                       /\ copy'[q] = copy[q]
          /\ UNCHANGED row
      BY <2>0, <2>1 DEF BeginsWith, Enters, Goes
    <3>2. \/ UNCHANGED <<webhook, doubt>>
          \/ /\ webhook \ {HookOf(ask.cluster)} \subseteq webhook'
             /\ doubt' = doubt \cup {ask.cluster}
      BY <2>1 DEF BeginsWith
    <3>3. /\ ask.kind \in {"enforced", "scanning"} =>
               /\ copy'[r] = row[ask.cluster].data /\ ask.cluster \in Live
               /\ UNCHANGED <<webhook, doubt>>
          /\ ask.kind = "enforced" /\ ask.changes.enforced = TRUE => to # "write"
      BY <2>1 DEF BeginsWith
    <3>4. \A b \in Clusters : /\ HookOf(b)' = HookOf(b) /\ row'[b] = row[b]
                              /\ HookOf(b) = HookOf(ask.cluster) => b = ask.cluster
      BY <3>1 DEF HookOf
    <3>5. \A b \in Clusters : (Safe(b) => Safe(b)') /\ (b \in doubt => b \in doubt')
                              /\ (b \notin doubt' /\ HookOf(b) \in webhook => HookOf(b) \in webhook')
      BY <3>1, <3>2, <3>4 DEF Safe
    <3>6. EnforcedHasWebhook'
      BY <2>0, <3>1, <3>4, <3>5 DEF EnforcedHasWebhook, Live
    <3>7. ASSUME NEW q \in Requests, q # r PROVE ReadsFit(q)'
      BY <2>0, <3>1, <3>4, <3>5, <3>7, StaysRead
    <3>8. ReadsFit(r)'
      <4>1. /\ Cluster(r)' = ask.cluster
            /\ (Switches(r)' <=> ask.kind \in {"enforced", "scanning"})
        BY <3>1 DEF Cluster, Switches
      <4>2. ask.cluster \in Live /\ row[ask.cluster].data.enforced => Safe(ask.cluster)
        BY <2>0 DEF EnforcedHasWebhook, Safe
      <4>3. ask.cluster \in Clusters
        BY DEF Asks
      <4>4. ask.kind \in {"enforced", "scanning"} /\ copy'[r].enforced => Safe(ask.cluster)'
        BY <3>3, <3>5, <4>2, <4>3
      <4>5. ask.kind \in {"enforced", "scanning"} => copy'[r].kube = row'[ask.cluster].data.kube
        BY <3>1, <3>3
      <4>. QED BY <3>1, <3>3, <4>1, <4>4, <4>5 DEF ReadsFit, Safe, HookOf
    <3>. QED BY <3>6, <3>7, <3>8 DEF EnforcedInv
  <2>2. ASSUME NEW r \in Requests, Insert(r) PROVE EnforcedInv'
    <3>1. PICK c \in Clusters, data \in Columns, ask \in Asks :
            /\ row[c].state = "none"
            /\ row' = [row EXCEPT ![c] = [state |-> "live", data |-> data]]
            /\ request' = [request EXCEPT ![r] = ask]
            /\ ask.kind = "create"
            /\ doubt' = IF data.enforced THEN doubt \cup {c} ELSE doubt
      BY <2>2, InsertIs
    <3>2. /\ UNCHANGED <<webhook, copy>> /\ \A q \in Requests \ {r} : pc'[q] = pc[q]
      BY <2>0, <2>2 DEF Insert, Goes
    <3>3. /\ request'[r] = ask /\ row'[c].data = data
          /\ \A q \in Requests \ {r} : request'[q] = request[q]
          /\ \A b \in Clusters \ {c} : row'[b] = row[b]
      BY <2>0, <3>1
    <3>4. doubt \subseteq doubt' /\ (data.enforced => c \in doubt')
      BY <3>1
    <3>5. \A b \in Clusters \ {c} : HookOf(b)' = HookOf(b) /\ (Safe(b) => Safe(b)')
      BY <3>2, <3>3, <3>4 DEF HookOf, Safe
    <3>6. EnforcedHasWebhook'
      <4>. SUFFICES ASSUME NEW b \in Clusters, (b \in Live \ doubt)', row'[b].data.enforced
                    PROVE  HookOf(b)' \in webhook'
        BY DEF EnforcedHasWebhook, Live
      <4>1. b # c /\ b \in Live \ doubt /\ row[b].data.enforced
        BY <3>3, <3>4 DEF Live
      <4>. QED BY <2>0, <3>2, <3>5, <4>1 DEF EnforcedHasWebhook
    <3>7. ASSUME NEW q \in Requests, q # r PROVE ReadsFit(q)'
      <4>1. Busy(q) => Cluster(q) \in Clusters \ {c}
        BY <2>0, <3>1 DEF RequestFits
      <4>. QED BY <2>0, <3>2, <3>3, <3>4, <3>5, <3>7, <4>1, StaysRead
    <3>8. ReadsFit(r)'
      BY <3>1, <3>3 DEF ReadsFit, Switches
    <3>. QED BY <3>6, <3>7, <3>8 DEF EnforcedInv
  <2>3. ASSUME NEW r \in Requests, Write(r) PROVE EnforcedInv'
    <3>. DEFINE c == Cluster(r)   d == Written(r)
    <3>1. /\ c \in Clusters /\ d \in Columns
          /\ row' = [row EXCEPT ![c] = [state |-> row[c].state, data |-> d]]
          /\ doubt' = IF Unsettles(r) THEN doubt \cup {c} ELSE doubt
      BY <2>3, WriteIs
    <3>2. /\ UNCHANGED <<request, copy, webhook>> /\ doubt \subseteq doubt'
          /\ pc[r] = "write" /\ pc'[r] \in {"hook", "idle"}
          /\ pc'[r] = "hook" => ~Switches(r)
          /\ \A q \in Requests \ {r} : pc'[q] = pc[q]
      BY <2>0, <2>3, <3>1 DEF Write, At, Goes, Switches
    <3>3. Busy(r) /\ ReadsFit(r)
      BY <2>0, <3>2 DEF Busy
    <3>4. c \notin doubt' => d.kube = row[c].data.kube
      <4>1. CASE Switches(r)
        <5>1. d.kube = copy[r].kube
          BY <2>3, <4>1, WriteIs
        <5>. QED BY <3>2, <3>3, <4>1, <5>1 DEF ReadsFit
      <4>2. CASE ~Switches(r)
        <5>1. request[r].kind = "update"
          BY <2>3, <4>2, WriteIs DEF Switches
        <5>. QED BY <3>1, <5>1 DEF Unsettles
      <4>. QED BY <4>1, <4>2
    <3>5. d.enforced /\ row[c].state = "live" => c \in doubt' \/ HookOf(c) \in webhook
      <4>1. CASE Switches(r)
        <5>1. d.enforced => \/ copy[r].enforced
                            \/ request[r].kind = "enforced" /\ request[r].changes.enforced = TRUE
          BY <2>3, <4>1, WriteIs DEF Base, Switches
        <5>2. d.enforced => Safe(c)
          BY <3>2, <3>3, <4>1, <5>1 DEF ReadsFit
        <5>. QED BY <3>2, <5>2 DEF Safe
      <4>2. CASE ~Switches(r)
        <5>1. request[r].kind = "update"
          BY <2>3, <4>2, WriteIs DEF Switches
        <5>2. d.enforced /\ c \notin doubt' => row[c].data.enforced
          BY <3>1, <5>1 DEF Unsettles
        <5>. QED BY <2>0, <3>1, <3>2, <5>2 DEF EnforcedHasWebhook, Live
      <4>. QED BY <4>1, <4>2
    <3>. HIDE DEF c, d
    <3>6. /\ row'[c].state = row[c].state /\ row'[c].data = d
          /\ \A b \in Clusters \ {c} : row'[b] = row[b]
      BY <2>0, <3>1
    <3>7. \A b \in Clusters : b \in doubt' \/ HookOf(b)' = HookOf(b)
      BY <3>4, <3>6 DEF HookOf
    <3>8. \A b \in Clusters : row'[b].state = row[b].state /\ (Safe(b) => Safe(b)')
      BY <3>2, <3>6, <3>7 DEF Safe
    <3>9. EnforcedHasWebhook'
      <4>. SUFFICES ASSUME NEW b \in Clusters, (b \in Live \ doubt)', row'[b].data.enforced
                    PROVE  HookOf(b)' \in webhook'
        BY DEF EnforcedHasWebhook, Live
      <4>1. b \in Live \ doubt /\ HookOf(b)' = HookOf(b) /\ b \notin doubt'
        BY <3>2, <3>7, <3>8 DEF Live
      <4>2. CASE b = c
        BY <3>2, <3>5, <3>6, <4>1, <4>2 DEF Live
      <4>3. CASE b # c
        BY <2>0, <3>2, <3>6, <4>1, <4>3 DEF EnforcedHasWebhook
      <4>. QED BY <4>2, <4>3
    <3>10. ASSUME NEW q \in Requests, q # r PROVE ReadsFit(q)'
      <4>1. CASE Cluster(q) = c /\ Unsettles(r)
        <5>1. c \in doubt' /\ pc'[q] = pc[q]
          BY <3>1, <3>2, <3>10, <4>1
        <5>2. Cluster(q)' = c
          BY <3>2, <4>1 DEF Cluster
        <5>. QED BY <5>1, <5>2 DEF ReadsFit, Safe
      <4>2. CASE ~(Cluster(q) = c /\ Unsettles(r))
        <5>1. Cluster(q) \in Clusters /\ ReadsFit(q)
          BY <2>0
        <5>2. Cluster(q) \notin doubt => Cluster(q) \notin doubt'
          BY <3>1, <4>2
        <5>3. Cluster(q) \in doubt \/ row'[Cluster(q)].data.kube = row[Cluster(q)].data.kube
          BY <3>4, <3>6, <5>1, <5>2
        <5>. QED BY <3>2, <3>8, <3>10, <5>1, <5>3, StaysRead
      <4>. QED BY <4>1, <4>2
    <3>11. ReadsFit(r)'
      BY <3>2 DEF ReadsFit, Busy, Switches
    <3>. QED BY <3>9, <3>10, <3>11 DEF EnforcedInv
  <2>4. ASSUME NEW r \in Requests, HookStep(r) PROVE EnforcedInv'
    <3>0. PICK c \in Clusters : c = Cluster(r)
      BY <2>0
    <3>1. /\ UNCHANGED <<row, request, copy, met>>
          /\ pc[r] \in {"hook", "install"} /\ pc'[r] \in {"idle", "install", "write"}
          /\ \A q \in Requests \ {r} : pc'[q] = pc[q]
          /\ webhook \subseteq webhook'
      BY <2>0, <2>4 DEF HookStep, Goes, AfterHook
    <3>2. \/ pc'[r] # "write" /\ UNCHANGED doubt
          \/ HookOf(c) \in webhook' /\ doubt' = IF r \in met THEN doubt ELSE doubt \ {c}
          \/ doubt' = doubt \cup {c}
      BY <2>0, <2>4, <3>0 DEF HookStep, Goes, Sure
    <3>3. \A q \in Requests \ {r} : Busy(q) /\ Cluster(q) = c => r \in met
      BY <2>0, <3>0, <3>1 DEF AloneInv, Apart, Busy
    <3>4. /\ c \in doubt /\ c \notin doubt' => r \notin met /\ HookOf(c) \in webhook'
          /\ \A b \in Clusters \ {c} : b \in doubt <=> b \in doubt'
          /\ pc'[r] = "write" => HookOf(c) \in webhook' \/ c \in doubt'
      BY <3>2
    <3>5. Busy(r)
      BY <3>1 DEF Busy
    <3>6. Cluster(r)' = c
      BY <3>0, <3>1 DEF Cluster
    <3>7. Switches(r) /\ c \notin doubt' => copy[r].kube = row[c].data.kube
      BY <2>0, <3>0, <3>4, <3>5 DEF AloneFits, ReadsFit
    <3>8. Switches(r) /\ copy[r].enforced => Safe(c)
      BY <2>0, <3>0, <3>5 DEF ReadsFit
    <3>9. \A b \in Clusters : HookOf(b)' = HookOf(b)
      BY <3>1 DEF HookOf
    <3>10. \A b \in Clusters : Safe(b) => Safe(b)'
      BY <3>1, <3>4, <3>9 DEF Safe
    <3>11. EnforcedHasWebhook'
      <4>. SUFFICES ASSUME NEW b \in Clusters, (b \in Live \ doubt)', row'[b].data.enforced
                    PROVE  HookOf(b)' \in webhook'
        BY DEF EnforcedHasWebhook, Live
      <4>1. b \in Live /\ row[b].data.enforced /\ b \notin doubt'
        BY <3>1 DEF Live
      <4>2. CASE b \in doubt
        BY <3>4, <3>9, <4>1, <4>2
      <4>3. CASE b \notin doubt
        BY <2>0, <3>1, <3>9, <4>1, <4>3 DEF EnforcedHasWebhook
      <4>. QED BY <4>2, <4>3
    <3>12. ASSUME NEW q \in Requests, q # r PROVE ReadsFit(q)'
      <4>1. Busy(q) /\ Cluster(q) \in doubt => Cluster(q) \in doubt'
        BY <2>0, <3>3, <3>4, <3>12
      <4>. QED BY <2>0, <3>1, <3>10, <3>12, <4>1, StaysRead
    <3>13. ReadsFit(r)'
      <4>1. (Switches(r)' <=> Switches(r)) /\ Cluster(r)' = c
        BY <3>1, <3>6 DEF Switches
      <4>2. Switches(r) /\ copy[r].enforced => Safe(c)'
        BY <3>1, <3>10, <3>8
      <4>3. pc'[r] = "write" => Safe(c)'
        BY <3>1, <3>4, <3>9 DEF Safe
      <4>4. Busy(r)' /\ Switches(r)' =>
              /\ c \notin doubt' => copy'[r].kube = row'[c].data.kube
              /\ copy'[r].enforced => Safe(c)'
              /\ pc'[r] = "write" => Safe(c)'
        BY <3>1, <3>7, <4>1, <4>2, <4>3
      <4>. QED BY <4>1, <4>4 DEF ReadsFit, Safe, HookOf
    <3>. QED BY <3>11, <3>12, <3>13 DEF EnforcedInv
  <2>5. ASSUME NEW r \in Requests, Drop(r) PROVE EnforcedInv'
    <3>. DEFINE c == Cluster(r)
    <3>1. /\ c \in Clusters
          /\ row' = [row EXCEPT ![c] = [state |-> "deleted", data |-> row[c].data]]
      BY <2>0, <2>5, DropIs
    <3>2. /\ UNCHANGED <<request, copy, webhook, doubt>>
          /\ \A q \in Requests : pc'[q] \in {pc[q], "idle"}
      BY <2>0, <2>5 DEF Drop, Goes, history
    <3>. HIDE DEF c
    <3>3. /\ \A b \in Clusters : row'[b].data = row[b].data
          /\ row'[c].state = "deleted" /\ \A b \in Clusters \ {c} : row'[b] = row[b]
      BY <2>0, <3>1
    <3>4. \A b \in Clusters : HookOf(b)' = HookOf(b) /\ (Safe(b) => Safe(b)')
      BY <3>2, <3>3 DEF HookOf, Safe
    <3>5. EnforcedHasWebhook'
      <4>. SUFFICES ASSUME NEW b \in Clusters, (b \in Live \ doubt)', row'[b].data.enforced
                    PROVE  HookOf(b)' \in webhook'
        BY DEF EnforcedHasWebhook, Live
      <4>1. b \in Live \ doubt /\ row[b].data.enforced
        BY <3>2, <3>3 DEF Live
      <4>. QED BY <2>0, <3>2, <3>4, <4>1 DEF EnforcedHasWebhook
    <3>6. ASSUME NEW q \in Requests PROVE ReadsFit(q)'
      BY <2>0, <3>2, <3>3, <3>4, StaysRead
    <3>. QED BY <3>5, <3>6 DEF EnforcedInv
  <2>6. CASE StopStep
    <3>1. /\ UNCHANGED <<row, request, copy, webhook, doubt>>
          /\ \A q \in Requests : pc'[q] \in {pc[q], "idle"}
      BY <2>6 DEF StopStep, history
    <3>2. \A b \in Clusters : Safe(b) => Safe(b)'
      BY <3>1 DEF HookOf, Safe
    <3>3. EnforcedHasWebhook'
      BY <2>0, <3>1 DEF EnforcedHasWebhook, Live, HookOf
    <3>4. ASSUME NEW q \in Requests PROVE ReadsFit(q)'
      BY <2>0, <3>1, <3>2, StaysRead
    <3>. QED BY <3>3, <3>4 DEF EnforcedInv
  <2>. QED BY <2>0, <2>1, <2>2, <2>3, <2>4, <2>5, <2>6, StepIs
<1>3. EnforcedInv => EnforcedHasWebhook
  BY DEF EnforcedInv
<1>. QED BY <1>1, <1>2, <1>3, TypeInvariance, AloneInvariance, PTL DEF Spec


-----------------------------------------------------------------------------
(* Names.  A request looks for the name once, and writes it later: a new   *)
(* cluster, an update, and a switch, which writes the name that it has     *)
(* read.  Two requests meet in a name if both are about to write it and    *)
(* not into the same row.                                                  *)
Renames(r) ==
  \/ pc[r] \in {"insert", "write"}
  \/ pc[r] \in {"hook", "install"} /\ request[r].kind = "enforced"
NameOf(r) == IF Switches(r) THEN copy[r].name ELSE request[r].changes.name
Own(r, c) == pc[r] # "insert" /\ Cluster(r) = c

NoNameRace ==
  \A q, r \in Requests :
    q # r /\ Renames(q) /\ Renames(r) /\ NameOf(q) = NameOf(r)
      => Own(q, Cluster(r)) /\ Own(r, Cluster(q))

NamesDiffer == \A b, c \in Live : b # c => row[b].data.name # row[c].data.name

(* The name that a request is going to write is free, but for its own row. *)
NameIsFree(r) ==
  Renames(r) => \A c \in Live : Own(r, c) \/ row[c].data.name # NameOf(r)

NameInv == NamesDiffer /\ \A r \in Requests : NameIsFree(r)

(* Every other request is where it was, or has ended, and the rows only    *)
(* lose live ones.                                                         *)
Stays(q) == pc'[q] \in {pc[q], "idle"} /\ request'[q] = request[q] /\ copy'[q] = copy[q]

LEMMA StaysFree ==
  ASSUME NEW q \in Requests, NameIsFree(q), Stays(q),
         Live' \subseteq Live, \A c \in Live' : row'[c].data = row[c].data
  PROVE  NameIsFree(q)'
<1>1. CASE pc'[q] = "idle"
  BY <1>1 DEF NameIsFree, Renames
<1>2. CASE pc'[q] = pc[q]
  <2>1. /\ Renames(q)' <=> Renames(q)
        /\ NameOf(q)' = NameOf(q)
        /\ \A c : Own(q, c)' <=> Own(q, c)
    BY <1>2 DEF Stays, Renames, NameOf, Own, Cluster, Switches
  <2>. QED BY <2>1 DEF NameIsFree
<1>. QED BY <1>1, <1>2 DEF Stays

LEMMA NamesStay ==
  ASSUME NamesDiffer, Live' \subseteq Live, \A c \in Live' : row'[c].data = row[c].data
  PROVE  NamesDiffer'
  BY DEF NamesDiffer

(* A request begins, or goes on, with a name that is free.                 *)
LEMMA BeginsFree ==
  ASSUME NameInv, NEW r \in Requests, row' = row,
         \A q \in Requests \ {r} : Stays(q), NameIsFree(r)'
  PROVE  NameInv'
<1>1. Live' = Live
  BY DEF Live
<1>2. \A q \in Requests \ {r} : NameIsFree(q)'
  BY <1>1, StaysFree DEF NameInv
<1>. QED BY <1>1, <1>2, NamesStay DEF NameInv

LEMMA InsertKeepsNames ==
  ASSUME TypeInv, NameInv, NoNameRace, NEW r \in Requests, Insert(r)
  PROVE  NameInv'
<1>1. PICK c \in Clusters, data \in Columns, ask \in Asks :
        /\ row[c].state = "none"
        /\ row' = [row EXCEPT ![c] = [state |-> "live", data |-> data]]
        /\ request' = [request EXCEPT ![r] = ask]
        /\ ask.kind = "create" /\ request[r].kind = "create"
        /\ data.name = request[r].changes.name
  BY InsertIs
<1>2. /\ pc[r] = "insert" /\ pc'[r] \in {"hook", "idle"} /\ copy' = copy
      /\ \A q \in Requests \ {r} : pc'[q] = pc[q]
  BY DEF Insert, At, Goes, TypeInv, TypeOK
<1>3. /\ request'[r].kind = "create"
      /\ \A q \in Requests \ {r} : request'[q] = request[q]
  BY <1>1 DEF TypeInv, TypeOK
<1>4. /\ row'[c].state = "live" /\ row'[c].data.name = NameOf(r)
      /\ \A b \in Clusters \ {c} : row'[b] = row[b]
  BY <1>1 DEF TypeInv, TypeOK, NameOf, Switches
<1>5. Live' = Live \cup {c} /\ c \notin Live
  BY <1>1, <1>4 DEF Live
<1>6. Renames(r) /\ \A b \in Clusters : ~Own(r, b)
  BY <1>2 DEF Renames, Own
<1>7. \A b \in Live : row[b].data.name # NameOf(r)
  BY <1>6 DEF NameInv, NameIsFree, Live
<1>8. NamesDiffer'
  BY <1>4, <1>5, <1>7 DEF NameInv, NamesDiffer, Live
<1>9. ASSUME NEW q \in Requests, q # r PROVE NameIsFree(q)'
  <2>1. /\ Renames(q)' <=> Renames(q)
        /\ NameOf(q)' = NameOf(q)
        /\ \A b : Own(q, b)' <=> Own(q, b)
    BY <1>2, <1>3, <1>9 DEF Renames, NameOf, Own, Cluster, Switches
  <2>2. Renames(q) => NameOf(q) # NameOf(r)
    <3>1. Cluster(q) \in Clusters
      BY DEF Cluster, TypeInv, TypeOK, Asks
    <3>. QED BY <1>6, <1>9, <3>1 DEF NoNameRace
  <2>. QED BY <1>4, <1>5, <2>1, <2>2 DEF NameInv, NameIsFree, Live
<1>10. NameIsFree(r)'
  BY <1>2, <1>3 DEF NameIsFree, Renames
<1>. QED BY <1>8, <1>9, <1>10 DEF NameInv

LEMMA WriteKeepsNames ==
  ASSUME TypeInv, NameInv, NoNameRace, NEW r \in Requests, Write(r)
  PROVE  NameInv'
<1>1. PICK c \in Clusters : c = Cluster(r)
  BY DEF TypeInv, TypeOK, Asks, Cluster
<1>2. /\ pc[r] = "write" /\ UNCHANGED <<request, copy>>
      /\ request[r].kind \in {"update", "enforced", "scanning"}
      /\ pc'[r] \in {"hook", "idle"} /\ (pc'[r] = "hook" => request[r].kind = "update")
      /\ \A q \in Requests \ {r} : pc'[q] = pc[q]
  BY DEF Write, At, Goes, TypeInv, TypeOK, RequestsFit, RequestFits
<1>3. /\ row' = [row EXCEPT ![c] = [state |-> row[c].state, data |-> Written(r)]]
      /\ request[r].kind = "update" => Written(r).name = request[r].changes.name
      /\ Switches(r) => Written(r).name = copy[r].name
  BY <1>1, WriteIs
<1>4. /\ row'[c].state = row[c].state /\ row'[c].data.name = NameOf(r)
      /\ \A b \in Clusters \ {c} : row'[b] = row[b]
  BY <1>2, <1>3 DEF TypeInv, TypeOK, NameOf, Switches
<1>5. Live' = Live
  BY <1>4 DEF Live
<1>6. Renames(r) /\ \A b \in Live \ {c} : row[b].data.name # NameOf(r)
  BY <1>1, <1>2 DEF Renames, Own, NameInv, NameIsFree
<1>7. NamesDiffer'
  BY <1>4, <1>5, <1>6 DEF NameInv, NamesDiffer, Live
<1>8. ASSUME NEW q \in Requests, q # r PROVE NameIsFree(q)'
  <2>1. /\ Renames(q)' <=> Renames(q)
        /\ NameOf(q)' = NameOf(q)
        /\ \A b : Own(q, b)' <=> Own(q, b)
    BY <1>2, <1>8 DEF Renames, NameOf, Own, Cluster, Switches
  <2>2. Renames(q) /\ NameOf(q) = NameOf(r) => Own(q, c)
    BY <1>1, <1>6, <1>8 DEF NoNameRace
  <2>. QED BY <1>4, <1>5, <2>1, <2>2 DEF NameInv, NameIsFree, Live
<1>9. NameIsFree(r)'
  BY <1>2 DEF NameIsFree, Renames
<1>. QED BY <1>7, <1>8, <1>9 DEF NameInv

LEMMA NameStep ==
  ASSUME TypeInv, NameInv, NoNameRace, [Next]_vars
  PROVE  NameInv'
<1>0. TypeOK /\ pc \in [Requests -> Steps] /\ request \in [Requests -> Asks]
  BY DEF TypeInv, TypeOK, Steps
<1>1. ASSUME NEW r \in Requests, NEW ask \in Asks, NEW to \in {"insert", "write", "hook", "drop"},
             BeginsWith(r, ask, to)
      PROVE  NameInv'
  <2>1. /\ pc'[r] = to /\ request'[r] = ask /\ row' = row
        /\ \A q \in Requests \ {r} : Stays(q)
    BY <1>0, <1>1 DEF BeginsWith, Enters, Goes, Stays
  <2>2. /\ ask.kind \in Kinds
        /\ to = "insert" <=> ask.kind = "create"
        /\ ask.kind = "delete" => to = "drop"
        /\ ask.kind # "create" => ask.cluster \in Live
        /\ ask.kind \in {"enforced", "scanning"} => copy'[r] = row[ask.cluster].data
    BY <1>1 DEF BeginsWith, Asks, Kinds
  <2>3. /\ ask.kind = "create" => ~NameTaken(ask.changes.name, Clusters)
        /\ ask.kind = "update" => ~NameTaken(ask.changes.name, Clusters \ {ask.cluster})
    BY <1>1 DEF BeginsWith
  <2>4. NameIsFree(r)'
    <3>1. CASE ask.kind = "delete"
      BY <2>1, <2>2, <3>1 DEF NameIsFree, Renames
    <3>2. CASE ask.kind = "create"
      <4>1. NameOf(r)' = ask.changes.name
        BY <2>1, <3>2 DEF NameOf, Switches
      <4>. QED BY <2>1, <2>3, <3>2, <4>1 DEF NameIsFree, NameTaken, Live
    <3>3. CASE ask.kind = "update"
      <4>1. NameOf(r)' = ask.changes.name /\ \A c : Own(r, c)' <=> c = ask.cluster
        BY <2>1, <2>2, <3>3 DEF NameOf, Switches, Own, Cluster
      <4>. QED BY <2>1, <2>3, <3>3, <4>1 DEF NameIsFree, NameTaken, Live
    <3>4. CASE ask.kind \in {"enforced", "scanning"}
      <4>1. /\ NameOf(r)' = row[ask.cluster].data.name
            /\ \A c : Own(r, c)' <=> c = ask.cluster
        BY <2>1, <2>2, <3>4 DEF NameOf, Switches, Own, Cluster
      <4>2. \A c \in Live : c = ask.cluster \/ row[c].data.name # row[ask.cluster].data.name
        BY <2>2, <3>4 DEF NameInv, NamesDiffer
      <4>. QED BY <2>1, <4>1, <4>2 DEF NameIsFree, Live
    <3>. QED BY <2>2, <3>1, <3>2, <3>3, <3>4 DEF Kinds
  <2>. QED BY <2>1, <2>4, BeginsFree
<1>2. ASSUME NEW r \in Requests, HookStep(r) PROVE NameInv'
  <2>1. /\ UNCHANGED <<row, request, copy>> /\ \A q \in Requests \ {r} : Stays(q)
        /\ pc[r] \in {"hook", "install"} /\ pc'[r] \in {"idle", "install", "write"}
        /\ pc'[r] = "write" => request[r].kind = "enforced"
    BY <1>0, <1>2 DEF HookStep, Goes, AfterHook, Stays
  <2>2. NameIsFree(r)'
    <3>1. Renames(r)' => Renames(r)
      BY <2>1 DEF Renames
    <3>2. NameOf(r)' = NameOf(r) /\ \A c : Own(r, c) => Own(r, c)'
      BY <2>1 DEF NameOf, Switches, Own, Cluster
    <3>. QED BY <2>1, <3>1, <3>2 DEF NameInv, NameIsFree, Live
  <2>. QED BY <2>1, <2>2, BeginsFree
<1>3. ASSUME NEW r \in Requests, Drop(r) PROVE NameInv'
  <2>1. \A q \in Requests : Stays(q)
    BY <1>0, <1>3 DEF Drop, Goes, Stays
  <2>2. Live' \subseteq Live /\ \A c \in Live' : row'[c].data = row[c].data
    BY <1>0, <1>3, DropIs DEF Live, TypeOK
  <2>. QED BY <2>1, <2>2, StaysFree, NamesStay DEF NameInv
<1>4. CASE StopStep
  <2>1. row' = row /\ \A q \in Requests : Stays(q)
    BY <1>4 DEF StopStep, Stays
  <2>2. Live' = Live
    BY <2>1 DEF Live
  <2>. QED BY <2>1, <2>2, StaysFree, NamesStay DEF NameInv
<1>. QED BY <1>0, <1>1, <1>2, <1>3, <1>4, StepIs, InsertKeepsNames, WriteKeepsNames

(* Two live clusters have one name only if two requests that were about to *)
(* write it overlapped - two creations, two edits, or a switch that still  *)
(* holds the old name of its cluster - for any clusters and requests,      *)
(* whatever fails or crashes between the search and the write.             *)
THEOREM OnlyRacesShareNames == Spec /\ []NoNameRace => []NamesDiffer
<1>1. Init => NameInv
  BY DEF Init, NameInv, NamesDiffer, NameIsFree, Renames, Live
<1>2. TypeInv /\ NameInv /\ NoNameRace /\ [Next]_vars => NameInv'
  BY NameStep
<1>3. NameInv => NamesDiffer
  BY DEF NameInv
<1>. QED BY <1>1, <1>2, <1>3, TypeInvariance, PTL DEF Spec
=============================================================================
