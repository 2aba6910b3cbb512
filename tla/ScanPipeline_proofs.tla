------------------------ MODULE ScanPipeline_proofs -------------------------
(* Theorems about ScanPipeline, for every value of its constants. *)
EXTENDS ScanPipeline, SequenceTheorems, TLAPS

(* What a queue holds after a delivery was appended to it.                 *)
LEMMA AppendHolds ==
  ASSUME NEW S, NEW s \in Seq(S), NEW e \in S
  PROVE  /\ Range(Append(s, e)) = Range(s) \cup {e}
         /\ IsInjective(s) /\ e \notin Range(s) => IsInjective(Append(s, e))
<1>. DEFINE t == Append(s, e)
<1>1. /\ t \in Seq(S) /\ Len(t) = Len(s) + 1
      /\ \A k \in 1 .. Len(s) : t[k] = s[k]
      /\ t[Len(s) + 1] = e
  BY AppendProperties
<1>2. DOMAIN s = 1 .. Len(s) /\ DOMAIN t = 1 .. (Len(s) + 1) /\ Len(s) \in Nat
  BY <1>1
<1>. HIDE DEF t
<1>3. Range(t) = Range(s) \cup {e}
  BY <1>1, <1>2 DEF Range
<1>4. ASSUME IsInjective(s), e \notin Range(s) PROVE IsInjective(t)
  BY <1>1, <1>2, <1>4 DEF Range, IsInjective
<1>. QED BY <1>3, <1>4 DEF t

(* What a queue holds after its head was taken.                            *)
LEMMA TailHolds ==
  ASSUME NEW S, NEW s \in Seq(S), s # <<>>
  PROVE  /\ Head(s) \in S /\ Tail(s) \in Seq(S)
         /\ Range(s) = {Head(s)} \cup Range(Tail(s))
         /\ IsInjective(s) => IsInjective(Tail(s)) /\ Head(s) \notin Range(Tail(s))
<1>. DEFINE t == Tail(s)
<1>1. /\ Head(s) \in S /\ Head(s) = s[1] /\ t \in Seq(S) /\ Len(t) = Len(s) - 1
      /\ \A k \in 1 .. Len(t) : t[k] = s[k + 1]
  BY HeadTailProperties
<1>2. DOMAIN s = 1 .. Len(s) /\ DOMAIN t = 1 .. Len(t) /\ Len(s) \in Nat \ {0}
  BY <1>1
<1>. HIDE DEF t
<1>3. Range(s) = {s[1]} \cup Range(t)
  <2>1. \A k \in DOMAIN s : k = 1 \/ (k - 1 \in DOMAIN t /\ s[k] = t[k - 1])
    BY <1>1, <1>2
  <2>2. \A k \in DOMAIN t : k + 1 \in DOMAIN s /\ t[k] = s[k + 1]
    BY <1>1, <1>2
  <2>3. 1 \in DOMAIN s
    BY <1>2
  <2>4. Range(s) \subseteq {s[1]} \cup Range(t)
    BY <2>1 DEF Range
  <2>5. {s[1]} \cup Range(t) \subseteq Range(s)
    BY <2>2, <2>3 DEF Range
  <2>. QED BY <2>4, <2>5
<1>4. ASSUME IsInjective(s) PROVE IsInjective(t) /\ s[1] \notin Range(t)
  <2>1. \A k \in DOMAIN t : k + 1 \in DOMAIN s /\ t[k] = s[k + 1] /\ k + 1 # 1
    BY <1>1, <1>2
  <2>2. ASSUME NEW k \in DOMAIN t, NEW l \in DOMAIN t, t[k] = t[l] PROVE k = l
    <3>1. k + 1 = l + 1
      BY <1>4, <2>1, <2>2 DEF IsInjective
    <3>. QED BY <1>2, <3>1
  <2>3. s[1] \notin Range(t)
    <3>1. 1 \in DOMAIN s
      BY <1>2
    <3>. QED BY <1>4, <2>1, <3>1 DEF IsInjective, Range
  <2>. QED BY <2>2, <2>3 DEF IsInjective
<1>. QED BY <1>1, <1>3, <1>4 DEF t

(* The pipeline keeps every variable within its type, whatever requests,   *)
(* deliveries, saves, failures and crashes interleave.                     *)
THEOREM TypeCorrect == Spec => []TypeOK
<1>1. Init => TypeOK
  <2>. SUFFICES ASSUME Init PROVE TypeOK
    OBVIOUS
  <2>1. hash \in [ImageIds -> Hashes \cup {NoHash, TmpHash, Absent}]
    BY DEF Init
  <2>2. broker \in Seq(Jobs) /\ inbox \in [Trawlers -> Seq(Jobs)]
    BY DEF Init
  <2>. QED
    BY <2>1, <2>2 DEF Init, TypeOK, RequestStates, SaveStates, TxStates,
                      ScanResults
<1>2. TypeOK /\ [Next]_vars => TypeOK'
  <2>. SUFFICES ASSUME TypeOK, [Next]_vars PROVE TypeOK'
    OBVIOUS
  <2>. USE DEF imageVars, requestVars, trawlerVars, txVars
  <2>1. ASSUME NEW p \in Policies, SetPolicyEnabled(p) PROVE TypeOK'
    BY <2>1 DEF TypeOK, SetPolicyEnabled
  <2>2. ASSUME NEW j \in Jobs, NEW i \in ImageIds, RequestScan(j, i)
        PROVE TypeOK'
    BY <2>2 DEF TypeOK, RequestScan, RequestStates
  <2>3. ASSUME NEW j \in Jobs, HandleRequest(j) PROVE TypeOK'
    <3>1. CASE Publish(j)
      BY <3>1 DEF TypeOK, Publish, RequestStates
    <3>2. CASE PublishFails(j)
      BY <3>2 DEF TypeOK, PublishFails, RequestStates
    <3>3. CASE SetQueued(j)
      BY <3>3 DEF TypeOK, SetQueued, RequestStates
    <3>. QED BY <2>3, <3>1, <3>2, <3>3 DEF HandleRequest
  <2>4. ASSUME NEW j \in Jobs, HandleSave(j) PROVE TypeOK'
    <3>1. CASE TargetIsJobImage(j)
      BY <3>1 DEF TypeOK, TargetIsJobImage, SaveStep, SaveStates
    <3>2. CASE TargetByHash(j)
      BY <3>2 DEF TypeOK, TargetByHash, SaveStep, SaveStates
    <3>3. CASE FindByHash(j)
      <4>1. /\ save' \in [Jobs -> SaveStates]
            /\ target' \in [Jobs -> ImageIds \cup {0}]
        <5>1. CASE \E i \in ImageIds : /\ SaveStep(j, "byHash", "evaluate")
                                     /\ target' = [target EXCEPT ![j] = i]
          BY <5>1 DEF TypeOK, SaveStep, SaveStates
        <5>2. CASE SaveStep(j, "byHash", "check") /\ UNCHANGED target
          BY <5>2 DEF TypeOK, SaveStep, SaveStates
        <5>. QED BY <3>3, <5>1, <5>2 DEF FindByHash, WithHash
      <4>. QED BY <3>3, <4>1 DEF TypeOK, FindByHash
    <3>4. CASE CheckNewImage(j)
      BY <3>4 DEF TypeOK, CheckNewImage, SaveStep, SaveStates
    <3>5. CASE InsertNewImage(j)
      BY <3>5 DEF TypeOK, InsertNewImage, SaveStep, SaveStates, WithHash
    <3>6. ASSUME NEW ok \in SUBSET Policies, Evaluate(j, ok) PROVE TypeOK'
      BY <3>6 DEF TypeOK, Evaluate, SaveStep, SaveStates, TxStates, Rows
    <3>7. CASE AllSaved(j)
      BY <3>7 DEF TypeOK, AllSaved, SaveStep, SaveStates
    <3>8. CASE UpdateImage(j)
      BY <3>8 DEF TypeOK, UpdateImage, SaveStep, SaveStates, ScanResults
    <3>9. CASE ClearQueued(j)
      BY <3>9 DEF TypeOK, ClearQueued, SaveStep, SaveStates
    <3>10. CASE SaveFails(j)
      BY <3>10 DEF TypeOK, SaveFails, SaveStates
    <3>. QED
      BY <2>4, <3>1, <3>2, <3>3, <3>4, <3>5, <3>6, <3>7, <3>8, <3>9, <3>10
      DEF HandleSave
  <2>5. ASSUME NEW r \in Rows, HandleRow(r) PROVE TypeOK'
    <3>. r[1] \in Jobs
      BY DEF Rows
    <3>1. CASE ClearLatest(r)
      BY <3>1 DEF TypeOK, ClearLatest, RowsOf, TxStates
    <3>2. CASE CommitRow(r)
      BY <3>2 DEF TypeOK, CommitRow, TxStates
    <3>3. CASE FailRow(r)
      BY <3>3 DEF TypeOK, FailRow, TxStates, SaveStates
    <3>. QED BY <2>5, <3>1, <3>2, <3>3 DEF HandleRow
  <2>6. ASSUME NEW w \in Trawlers, Deliver(w) PROVE TypeOK'
    BY <2>6 DEF TypeOK, Deliver
  <2>7. ASSUME NEW w \in Trawlers, HandleDelivery(w) PROVE TypeOK'
    <3>1. CASE StartScan(w)
      <4>1. Head(inbox[w]) \in Jobs /\ Tail(inbox[w]) \in Seq(Jobs)
        BY <3>1 DEF TypeOK, StartScan
      <4>. QED BY <3>1, <4>1 DEF TypeOK, StartScan
    <3>2. CASE DropJob(w)
      BY <3>2 DEF TypeOK, DropJob
    <3>3. CASE FinishDelivery(w)
      BY <3>3 DEF TypeOK, FinishDelivery
    <3>4. ASSUME NEW h \in Hashes \cup {NoHash}, PostResults(w, h)
          PROVE TypeOK'
      BY <3>4 DEF TypeOK, PostResults, SaveStates
    <3>. QED BY <2>7, <3>1, <3>2, <3>3, <3>4 DEF HandleDelivery
  <2>8. ASSUME NEW w \in Trawlers, TrawlerCrash(w) PROVE TypeOK'
    BY <2>8 DEF TypeOK, TrawlerCrash
  <2>9. CASE BackendCrash
    BY <2>9 DEF TypeOK, BackendCrash, RequestStates, SaveStates, TxStates
  <2>10. CASE UNCHANGED vars
    BY <2>10 DEF TypeOK, vars
  <2>. QED
    BY <2>1, <2>2, <2>3, <2>4, <2>5, <2>6, <2>7, <2>8, <2>9, <2>10 DEF Next
<1>. QED
  BY <1>1, <1>2, PTL DEF Spec

-----------------------------------------------------------------------------
(* A step that leaves the queue and the trawlers alone, takes back no      *)
(* acceptance, posts no job and writes only for posted jobs.               *)
LEMMA ElsewhereKeepsDelivery ==
  ASSUME DeliveryInv, UNCHANGED <<broker, inbox, scanning>>,
         \A j \in Jobs : request[j] \in {"flagging", "done"} =>
                            request'[j] \in {"flagging", "done"},
         \A j \in Jobs : save'[j] = "none" <=> save[j] = "none",
         \A r \in Rows : tx'[r] # "none" => save'[r[1]] # "none",
         TypeOK
  PROVE  DeliveryInv'
<1>1. Waiting' = Waiting /\ Waiting \subseteq Jobs
  BY DEF TypeOK, Waiting, Range
<1>2. OneDelivery'
  BY <1>1 DEF DeliveryInv, OneDelivery
<1>3. \A w \in Trawlers : scanning[w] \in Jobs \cup {Idle}
  BY DEF TypeOK
<1>. QED BY <1>2, <1>3 DEF DeliveryInv

(* Every step of a save keeps "not posted" apart from the rest.            *)
LEMMA SaveKeepsDelivery ==
  ASSUME TypeOK, DeliveryInv, NEW j \in Jobs, HandleSave(j)
  PROVE  DeliveryInv'
<1>. USE DEF requestVars, trawlerVars, txVars
<1>1. UNCHANGED <<broker, inbox, scanning, request>>
  BY DEF HandleSave, TargetIsJobImage, TargetByHash, FindByHash, CheckNewImage,
         InsertNewImage, Evaluate, AllSaved, UpdateImage, ClearQueued, SaveFails
<1>2. /\ save[j] # "none"
      /\ \E s \in SaveStates \ {"none"} : save' = [save EXCEPT ![j] = s]
  BY DEF HandleSave, TargetIsJobImage, TargetByHash, FindByHash, CheckNewImage,
         InsertNewImage, Evaluate, AllSaved, UpdateImage, ClearQueued,
         SaveFails, SaveStep, SaveStates
<1>3. \A r \in Rows : tx'[r] # tx[r] => r[1] = j
  BY DEF TypeOK, HandleSave, TargetIsJobImage, TargetByHash, FindByHash,
         CheckNewImage, InsertNewImage, Evaluate, AllSaved, UpdateImage,
         ClearQueued, SaveFails, SaveStep
<1>4. \A k \in Jobs : save'[k] = "none" <=> save[k] = "none"
  BY <1>2 DEF TypeOK
<1>5. \A r \in Rows : r[1] \in Jobs
  BY DEF Rows
<1>6. \A r \in Rows : tx'[r] # "none" => save'[r[1]] # "none"
  BY <1>2, <1>3, <1>4, <1>5 DEF DeliveryInv
<1>. QED BY <1>1, <1>4, <1>6, ElsewhereKeepsDelivery

(* A step of a row transaction neither adds nor moves a delivery.          *)
LEMMA RowKeepsDelivery ==
  ASSUME TypeOK, DeliveryInv, NEW r \in Rows, HandleRow(r)
  PROVE  DeliveryInv'
<1>. USE DEF requestVars, trawlerVars
<1>1. UNCHANGED <<broker, inbox, scanning, request>> /\ tx[r] # "none"
  BY DEF HandleRow, ClearLatest, CommitRow, FailRow
<1>2. r[1] \in Jobs /\ save[r[1]] # "none"
  BY <1>1 DEF DeliveryInv, Rows
<1>3. UNCHANGED save \/ save' = [save EXCEPT ![r[1]] = "failed"]
  BY DEF HandleRow, ClearLatest, CommitRow, FailRow
<1>4. \A k \in Jobs : save'[k] = "none" <=> save[k] = "none"
  BY <1>2, <1>3 DEF TypeOK
<1>5. \A q \in Rows : q[1] \in Jobs /\ (tx'[q] # tx[q] => q = r)
  BY DEF TypeOK, HandleRow, ClearLatest, CommitRow, FailRow, Rows
<1>6. \A q \in Rows : tx'[q] # "none" => save'[q[1]] # "none"
  BY <1>2, <1>4, <1>5 DEF DeliveryInv
<1>. QED BY <1>1, <1>4, <1>6, ElsewhereKeepsDelivery

(* A published job is new to the queue, the inboxes and the trawlers.      *)
LEMMA PublishKeepsDelivery ==
  ASSUME TypeOK, DeliveryInv, NEW j \in Jobs, Publish(j)
  PROVE  DeliveryInv'
<1>. USE DEF trawlerVars, txVars
<1>1. /\ broker \in Seq(Jobs) /\ broker' = Append(broker, j)
      /\ UNCHANGED <<inbox, scanning, save, tx>>
      /\ \A k \in Jobs : request'[k] = IF k = j THEN "flagging" ELSE request[k]
  BY DEF TypeOK, Publish
<1>2. /\ j \notin Waiting /\ save[j] = "none"
      /\ \A w \in Trawlers : scanning[w] # j
  BY IdleAssumption DEF DeliveryInv, OneDelivery, Publish
<1>3. /\ Range(broker') = Range(broker) \cup {j}
      /\ IsInjective(broker')
  BY <1>1, <1>2, AppendHolds DEF DeliveryInv, OneDelivery, Waiting
<1>4. Waiting' = Waiting \cup {j}
  BY <1>1, <1>3 DEF Waiting
<1>5. OneDelivery'
  <2>1. \A w \in Trawlers :
          IsInjective(inbox'[w]) /\ Range(inbox'[w]) \cap Range(broker') = {}
    <3>1. \A w \in Trawlers : j \notin Range(inbox[w])
      BY <1>2 DEF Waiting
    <3>. QED BY <1>1, <1>3, <3>1 DEF DeliveryInv, OneDelivery
  <2>2. \A w \in Trawlers : scanning'[w] \notin Waiting'
    BY <1>1, <1>2, <1>4 DEF DeliveryInv, OneDelivery
  <2>3. \A k \in Waiting' :
          request'[k] \in {"flagging", "done"} /\ save'[k] = "none"
    <3>1. Waiting \subseteq Jobs
      BY DEF TypeOK, Waiting, Range
    <3>. QED BY <1>1, <1>2, <1>4, <3>1 DEF DeliveryInv, OneDelivery
  <2>. QED BY <1>1, <1>3, <2>1, <2>2, <2>3 DEF DeliveryInv, OneDelivery
<1>. QED
  BY <1>1, <1>5 DEF DeliveryInv, TypeOK

(* A delivery moves a job from the queue to one inbox.                     *)
LEMMA DeliverKeepsDelivery ==
  ASSUME TypeOK, DeliveryInv, NEW w \in Trawlers, Deliver(w)
  PROVE  DeliveryInv'
<1>. USE DEF requestVars, txVars
<1>. DEFINE j == Head(broker)
<1>1. /\ broker \in Seq(Jobs) /\ broker # <<>> /\ broker' = Tail(broker)
      /\ inbox[w] \in Seq(Jobs)
      /\ \A v \in Trawlers :
           inbox'[v] = IF v = w THEN Append(inbox[w], j) ELSE inbox[v]
      /\ UNCHANGED <<scanning, save, tx, request>>
  BY DEF TypeOK, Deliver
<1>2. /\ j \in Jobs /\ Range(broker) = {j} \cup Range(broker')
      /\ IsInjective(broker') /\ j \notin Range(broker')
  BY <1>1, TailHolds DEF DeliveryInv, OneDelivery
<1>. HIDE DEF j
<1>3. /\ Range(inbox'[w]) = Range(inbox[w]) \cup {j}
      /\ IsInjective(inbox'[w])
  <2>1. j \notin Range(inbox[w]) /\ IsInjective(inbox[w])
    BY <1>2 DEF DeliveryInv, OneDelivery
  <2>. QED BY <1>1, <1>2, <2>1, AppendHolds
<1>4. Waiting' = Waiting
  BY <1>1, <1>2, <1>3 DEF Waiting
<1>5. OneDelivery'
  <2>1. \A v \in Trawlers :
          IsInjective(inbox'[v]) /\ Range(inbox'[v]) \cap Range(broker') = {}
    BY <1>1, <1>2, <1>3 DEF DeliveryInv, OneDelivery
  <2>2. \A u, v \in Trawlers :
          u # v => Range(inbox'[u]) \cap Range(inbox'[v]) = {}
    BY <1>1, <1>2, <1>3 DEF DeliveryInv, OneDelivery
  <2>. QED BY <1>1, <1>2, <1>4, <2>1, <2>2 DEF DeliveryInv, OneDelivery
<1>. QED
  BY <1>1, <1>5 DEF DeliveryInv

(* A trawler takes the head of its buffer, to scan it or to drop it.       *)
LEMMA TakeHolds ==
  ASSUME TypeOK, DeliveryInv, NEW w \in Trawlers, inbox[w] # <<>>,
         inbox' = [inbox EXCEPT ![w] = Tail(@)], UNCHANGED broker
  PROVE  /\ Head(inbox[w]) \in Waiting
         /\ Waiting' = Waiting \ {Head(inbox[w])}
         /\ \A v \in Trawlers : /\ IsInjective(inbox'[v])
                                 /\ Range(inbox'[v]) \subseteq Range(inbox[v])
<1>. DEFINE j == Head(inbox[w])
<1>1. /\ Range(inbox[w]) = {j} \cup Range(Tail(inbox[w]))
      /\ IsInjective(Tail(inbox[w])) /\ j \notin Range(Tail(inbox[w]))
  BY TailHolds DEF TypeOK, DeliveryInv, OneDelivery
<1>2. \A v \in Trawlers : inbox'[v] = IF v = w THEN Tail(inbox[w]) ELSE inbox[v]
  BY DEF TypeOK
<1>. HIDE DEF j
<1>3. j \notin Range(broker) /\ \A v \in Trawlers : v # w => j \notin Range(inbox[v])
  BY <1>1 DEF DeliveryInv, OneDelivery
<1>4. Waiting' = Waiting \ {j} /\ j \in Waiting
  BY <1>1, <1>2, <1>3 DEF Waiting
<1>5. \A v \in Trawlers : /\ IsInjective(inbox'[v])
                          /\ Range(inbox'[v]) \subseteq Range(inbox[v])
  BY <1>1, <1>2 DEF DeliveryInv, OneDelivery
<1>. QED BY <1>4, <1>5 DEF j

(* A trawler takes a job from its own inbox, gives it up, or dies with it. *)
LEMMA TrawlerKeepsDelivery ==
  ASSUME TypeOK, DeliveryInv, NEW w \in Trawlers,
         HandleDelivery(w) \/ TrawlerCrash(w)
  PROVE  DeliveryInv'
<1>. USE DEF requestVars, trawlerVars, txVars
<1>. Waiting \subseteq Jobs /\ \A v \in Trawlers : scanning[v] \in Jobs \cup {Idle}
  BY DEF TypeOK, Waiting, Range
<1>1. CASE StartScan(w)
  <2>1. /\ inbox[w] # <<>> /\ inbox' = [inbox EXCEPT ![w] = Tail(@)]
        /\ UNCHANGED <<broker, request, save, tx>>
        /\ \A v \in Trawlers :
             scanning'[v] = IF v = w THEN Head(inbox[w]) ELSE scanning[v]
    BY <1>1 DEF StartScan, TypeOK
  <2>2. /\ Head(inbox[w]) \in Waiting /\ Waiting' = Waiting \ {Head(inbox[w])}
        /\ \A v \in Trawlers : /\ IsInjective(inbox'[v])
                                /\ Range(inbox'[v]) \subseteq Range(inbox[v])
    BY <2>1, TakeHolds
  <2>3. OneDelivery'
    <3>1. \A v \in Trawlers : Range(inbox'[v]) \cap Range(broker') = {}
      BY <2>1, <2>2 DEF DeliveryInv, OneDelivery
    <3>2. \A u, v \in Trawlers :
            u # v => Range(inbox'[u]) \cap Range(inbox'[v]) = {}
      BY <2>2 DEF DeliveryInv, OneDelivery
    <3>3. \A u, v \in Trawlers :
            scanning'[u] = scanning'[v] => u = v \/ scanning'[u] = Idle
      BY <2>1, <2>2 DEF DeliveryInv, OneDelivery
    <3>4. \A v \in Trawlers : scanning'[v] \notin Waiting'
      <4>1. ASSUME NEW v \in Trawlers PROVE scanning'[v] \notin Waiting'
        <5>1. CASE v = w
          BY <2>1, <2>2, <5>1
        <5>2. CASE v # w
          <6>1. scanning'[v] = scanning[v] /\ scanning[v] \notin Waiting
            BY <2>1, <5>2 DEF DeliveryInv, OneDelivery
          <6>. QED BY <2>2, <6>1
        <5>. QED BY <5>1, <5>2
      <4>. QED BY <4>1
    <3>5. \A j \in Waiting' : request'[j] \in {"flagging", "done"} /\ save'[j] = "none"
      BY <2>1, <2>2 DEF DeliveryInv, OneDelivery
    <3>6. IsInjective(broker') /\ \A v \in Trawlers : IsInjective(inbox'[v])
      BY <2>1, <2>2 DEF DeliveryInv, OneDelivery
    <3>. HIDE DEF trawlerVars, requestVars, txVars
    <3>. QED BY <3>1, <3>2, <3>3, <3>4, <3>5, <3>6 DEF OneDelivery
  <2>4. \A v \in Trawlers : scanning'[v] # Idle =>
           request'[scanning'[v]] \in {"flagging", "done"}
    BY <2>1, <2>2 DEF DeliveryInv, OneDelivery
  <2>5. /\ \A j \in Jobs : save'[j] # "none" => request'[j] \in {"flagging", "done"}
        /\ \A r \in Rows : tx'[r] # "none" => save'[r[1]] # "none"
    BY <2>1 DEF DeliveryInv
  <2>. QED BY <2>3, <2>4, <2>5 DEF DeliveryInv
<1>2. CASE DropJob(w)
  <2>1. /\ inbox[w] # <<>> /\ inbox' = [inbox EXCEPT ![w] = Tail(@)]
        /\ UNCHANGED <<broker, request, save, tx, scanning>>
    BY <1>2 DEF DropJob
  <2>2. /\ Waiting' = Waiting \ {Head(inbox[w])}
        /\ \A v \in Trawlers : /\ IsInjective(inbox'[v])
                                /\ Range(inbox'[v]) \subseteq Range(inbox[v])
    BY <2>1, TakeHolds
  <2>3. OneDelivery'
    BY <2>1, <2>2 DEF DeliveryInv, OneDelivery
  <2>. QED BY <2>1, <2>3 DEF DeliveryInv
<1>3. CASE FinishDelivery(w)
  <2>1. /\ UNCHANGED <<broker, inbox, request, save, tx>>
        /\ \A v \in Trawlers : scanning'[v] = IF v = w THEN Idle ELSE scanning[v]
    BY <1>3 DEF FinishDelivery, TypeOK
  <2>2. Waiting' = Waiting /\ Idle \notin Waiting
    BY <2>1, IdleAssumption DEF Waiting
  <2>3. OneDelivery'
    BY <2>1, <2>2 DEF DeliveryInv, OneDelivery
  <2>. QED BY <2>1, <2>3 DEF DeliveryInv
<1>4. ASSUME NEW h \in Hashes \cup {NoHash}, PostResults(w, h)
      PROVE  DeliveryInv'
  <2>1. /\ UNCHANGED <<broker, inbox, scanning, request, tx>>
        /\ scanning[w] # Idle
        /\ \A k \in Jobs : save'[k] = IF k = scanning[w] THEN "lookup" ELSE save[k]
    BY <1>4 DEF PostResults, TypeOK
  <2>2. Waiting' = Waiting
    BY <2>1 DEF Waiting
  <2>3. OneDelivery'
    BY <2>1, <2>2 DEF DeliveryInv, OneDelivery
  <2>4. \A r \in Rows : r[1] \in Jobs
    BY DEF Rows
  <2>. QED BY <2>1, <2>3, <2>4 DEF DeliveryInv
<1>5. CASE TrawlerCrash(w)
  <2>1. /\ UNCHANGED <<broker, request, save, tx>>
        /\ \A v \in Trawlers :
             /\ scanning'[v] = IF v = w THEN Idle ELSE scanning[v]
             /\ inbox'[v] = IF v = w THEN <<>> ELSE inbox[v]
    BY <1>5 DEF TrawlerCrash, TypeOK
  <2>2. Range(<<>>) = {} /\ IsInjective(<<>>)
    BY DEF Range, IsInjective
  <2>3. Waiting' \subseteq Waiting /\ Idle \notin Waiting
    BY <2>1, <2>2, IdleAssumption DEF Waiting
  <2>4. OneDelivery'
    <3>0. /\ \A v \in Trawlers : IsInjective(inbox[v])
          /\ \A v \in Trawlers : Range(inbox[v]) \cap Range(broker) = {}
          /\ \A u, v \in Trawlers : u # v => Range(inbox[u]) \cap Range(inbox[v]) = {}
      BY DEF DeliveryInv, OneDelivery
    <3>1. \A v \in Trawlers : /\ IsInjective(inbox'[v])
                              /\ Range(inbox'[v]) \subseteq Range(inbox[v])
      BY <2>1, <2>2, <3>0
    <3>2. /\ \A v \in Trawlers : Range(inbox'[v]) \cap Range(broker') = {}
          /\ \A u, v \in Trawlers :
               u # v => Range(inbox'[u]) \cap Range(inbox'[v]) = {}
      BY <2>1, <3>0, <3>1
    <3>3. /\ \A u, v \in Trawlers :
               scanning'[u] = scanning'[v] => u = v \/ scanning'[u] = Idle
          /\ \A v \in Trawlers : scanning'[v] \notin Waiting'
      BY <2>1, <2>3 DEF DeliveryInv, OneDelivery
    <3>. QED BY <2>1, <2>3, <3>1, <3>2, <3>3 DEF DeliveryInv, OneDelivery
  <2>. QED BY <2>1, <2>4 DEF DeliveryInv
<1>. QED BY <1>1, <1>2, <1>3, <1>4, <1>5 DEF HandleDelivery

(* Nothing is requested, queued or handled at first.                       *)
LEMMA DeliveryInit == Init => DeliveryInv
<1>. SUFFICES ASSUME Init PROVE DeliveryInv
  OBVIOUS
<1>1. Range(<<>>) = {} /\ IsInjective(<<>>)
  BY DEF Range, IsInjective
<1>2. Waiting = {}
  BY <1>1 DEF Init, Waiting
<1>3. OneDelivery
  BY <1>1, <1>2 DEF Init, OneDelivery
<1>4. \A r \in Rows : r[1] \in Jobs
  BY DEF Rows
<1>. QED BY <1>3, <1>4 DEF Init, DeliveryInv

(* Every step keeps each job in one place.                                 *)
LEMMA DeliveryStep == TypeOK /\ DeliveryInv /\ [Next]_vars => DeliveryInv'
<1>. SUFFICES ASSUME TypeOK, DeliveryInv, [Next]_vars PROVE DeliveryInv'
  OBVIOUS
<1>. USE DEF imageVars, requestVars, trawlerVars, txVars
<1>1. ASSUME NEW p \in Policies, SetPolicyEnabled(p) PROVE DeliveryInv'
  BY <1>1, ElsewhereKeepsDelivery DEF SetPolicyEnabled, DeliveryInv
<1>2. ASSUME NEW j \in Jobs, NEW i \in ImageIds, RequestScan(j, i)
      PROVE  DeliveryInv'
  <2>1. UNCHANGED <<broker, inbox, scanning, save, tx>>
    BY <1>2 DEF RequestScan
  <2>2. \A k \in Jobs : request[k] \in {"flagging", "done"} =>
                         request'[k] \in {"flagging", "done"}
    BY <1>2 DEF RequestScan, TypeOK
  <2>. QED BY <2>1, <2>2, ElsewhereKeepsDelivery DEF DeliveryInv
<1>3. ASSUME NEW j \in Jobs, HandleRequest(j) PROVE DeliveryInv'
  <2>1. CASE Publish(j)
    BY <2>1, PublishKeepsDelivery
  <2>2. CASE PublishFails(j) \/ SetQueued(j)
    <3>1. UNCHANGED <<broker, inbox, scanning, save, tx>>
      BY <2>2 DEF PublishFails, SetQueued
    <3>2. \A k \in Jobs : request[k] \in {"flagging", "done"} =>
                           request'[k] \in {"flagging", "done"}
      BY <2>2 DEF PublishFails, SetQueued, TypeOK
    <3>. QED BY <3>1, <3>2, ElsewhereKeepsDelivery DEF DeliveryInv
  <2>. QED BY <1>3, <2>1, <2>2 DEF HandleRequest
<1>4. ASSUME NEW j \in Jobs, HandleSave(j) PROVE DeliveryInv'
  BY <1>4, SaveKeepsDelivery
<1>5. ASSUME NEW r \in Rows, HandleRow(r) PROVE DeliveryInv'
  BY <1>5, RowKeepsDelivery
<1>6. ASSUME NEW w \in Trawlers, Deliver(w) PROVE DeliveryInv'
  BY <1>6, DeliverKeepsDelivery
<1>7. ASSUME NEW w \in Trawlers, HandleDelivery(w) \/ TrawlerCrash(w)
      PROVE  DeliveryInv'
  BY <1>7, TrawlerKeepsDelivery
<1>8. CASE BackendCrash
  <2>1. UNCHANGED <<broker, inbox, scanning>>
    BY <1>8 DEF BackendCrash
  <2>2. /\ \A j \in Jobs : request[j] \in {"flagging", "done"} =>
                            request'[j] \in {"flagging", "done"}
        /\ \A j \in Jobs : save'[j] = "none" <=> save[j] = "none"
    BY <1>8 DEF BackendCrash, TypeOK
  <2>3. \A r \in Rows : tx'[r] # "none" => save'[r[1]] # "none"
    BY <1>8, <2>2 DEF BackendCrash, DeliveryInv, Rows
  <2>. QED BY <2>1, <2>2, <2>3, ElsewhereKeepsDelivery
<1>9. CASE UNCHANGED vars
  BY <1>9, ElsewhereKeepsDelivery DEF vars, DeliveryInv
<1>. QED
  BY <1>1, <1>2, <1>3, <1>4, <1>5, <1>6, <1>7, <1>8, <1>9 DEF Next

(* However many trawlers consume the queue, and whatever fails or crashes, *)
(* no scan job is held twice: autoAck delivers every message at most once. *)
THEOREM JobsAreDeliveredOnce == Spec => []OneDelivery
<1>1. DeliveryInv => OneDelivery
  BY DEF DeliveryInv
<1>. QED
  BY <1>1, DeliveryInit, DeliveryStep, TypeCorrect, PTL DEF Spec

-----------------------------------------------------------------------------
(* A verdict keeps its job as long as finished saves stay finished and     *)
(* what they decided is left alone.                                        *)
LEMMA VerdictKeepsJob ==
  ASSUME VerdictHasJob, UNCHANGED scanResults,
         \A j \in Jobs : save[j] \in {"unflag", "done"} =>
           /\ save'[j] \in {"unflag", "done"}
           /\ target'[j] = target[j]
           /\ passed'[j] = passed[j]
           /\ policies'[j] = policies[j]
  PROVE  VerdictHasJob'
BY DEF VerdictHasJob

(* The steps that touch neither a save nor what it scans for.              *)
LEMMA ElsewhereKeepsVerdict ==
  ASSUME TypeOK, VerdictInv,
         UNCHANGED <<scanResults, policies, save, tx, target, passed>>,
         \A w \in Trawlers : scanning'[w] \in {scanning[w], Idle}
  PROVE  VerdictInv'
<1>1. VerdictHasJob'
  BY VerdictKeepsJob DEF VerdictInv
<1>. QED BY <1>1 DEF VerdictInv, RowsFollowSave

(* Taking a job fixes its policies before anything is posted for it.       *)
LEMMA StartKeepsVerdict ==
  ASSUME TypeOK, DeliveryInv, VerdictInv, NEW w \in Trawlers, StartScan(w)
  PROVE  VerdictInv'
<1>. USE DEF imageVars, requestVars, txVars
<1>. DEFINE j == Head(inbox[w])
<1>1. /\ inbox[w] \in Seq(Jobs) /\ inbox[w] # <<>> /\ enabled # {}
      /\ UNCHANGED <<scanResults, save, tx, target, passed>>
      /\ \A v \in Trawlers : scanning'[v] = IF v = w THEN j ELSE scanning[v]
      /\ policies' = [policies EXCEPT ![j] = enabled]
  BY DEF StartScan, TypeOK
<1>2. j \in Jobs /\ j \in Waiting
  BY <1>1, TailHolds DEF Waiting
<1>. HIDE DEF j
<1>3. /\ save[j] = "none"
      /\ \A v \in Trawlers : scanning[v] # j
      /\ \A r \in Rows : tx[r] # "none" => r[1] # j
  BY <1>2 DEF DeliveryInv, OneDelivery
<1>4. \A k \in Jobs : policies'[k] = IF k = j THEN enabled ELSE policies[k]
  BY <1>1 DEF TypeOK
<1>5. VerdictHasJob'
  BY <1>1, <1>3, <1>4, VerdictKeepsJob DEF VerdictInv
<1>6. \A v \in Trawlers : scanning[v] \in Jobs \cup {Idle}
  BY DEF TypeOK
<1>7. \A r \in Rows : r[1] \in Jobs
  BY DEF Rows
<1>8. RowsFollowSave'
  BY <1>1, <1>2, <1>3, <1>4, <1>6, <1>7 DEF VerdictInv, RowsFollowSave
<1>. QED BY <1>5, <1>8 DEF VerdictInv

(* A save begins without rows and leaves older verdicts alone.             *)
LEMMA PostKeepsVerdict ==
  ASSUME TypeOK, VerdictInv, NEW w \in Trawlers,
         NEW h \in Hashes \cup {NoHash}, PostResults(w, h)
  PROVE  VerdictInv'
<1>. USE DEF imageVars, requestVars, txVars
<1>1. /\ UNCHANGED <<scanResults, policies, tx, target, passed, scanning>>
      /\ scanning[w] \in Jobs /\ save[scanning[w]] = "none"
      /\ \A k \in Jobs : save'[k] = IF k = scanning[w] THEN "lookup" ELSE save[k]
      /\ policies[scanning[w]] # {}
  BY DEF PostResults, TypeOK, VerdictInv, RowsFollowSave
<1>2. VerdictHasJob'
  BY <1>1, VerdictKeepsJob DEF VerdictInv
<1>3. RowsFollowSave'
  BY <1>1 DEF VerdictInv, RowsFollowSave
<1>. QED BY <1>2, <1>3 DEF VerdictInv

(* Choosing the target: the save is not finished before or after.          *)
LEMMA TargetKeepsVerdict ==
  ASSUME TypeOK, VerdictInv, NEW j \in Jobs,
         \/ TargetIsJobImage(j) \/ TargetByHash(j) \/ FindByHash(j)
         \/ CheckNewImage(j) \/ InsertNewImage(j)
  PROVE  VerdictInv'
<1>. USE DEF imageVars, requestVars, trawlerVars, txVars
<1>. DEFINE early == {"lookup", "byHash", "check", "insert", "evaluate", "failed"}
<1>1. /\ UNCHANGED <<scanResults, policies, tx, passed, scanning>>
      /\ save[j] \in early
      /\ \E s \in early : save' = [save EXCEPT ![j] = s]
      /\ UNCHANGED target \/ \E i \in ImageIds \cup {0} : target' = [target EXCEPT ![j] = i]
  <2>1. UNCHANGED <<scanResults, policies, tx, passed, scanning>>
    BY DEF TargetIsJobImage, TargetByHash, FindByHash, CheckNewImage,
           InsertNewImage
  <2>2. \E s \in early : save' = [save EXCEPT ![j] = s]
    BY DEF TargetIsJobImage, TargetByHash, FindByHash, CheckNewImage,
           InsertNewImage, SaveStep
  <2>3. save[j] \in early
    BY DEF TargetIsJobImage, TargetByHash, FindByHash, CheckNewImage,
           InsertNewImage, SaveStep
  <2>4. UNCHANGED target \/ \E i \in ImageIds \cup {0} : target' = [target EXCEPT ![j] = i]
    <3>1. CASE TargetIsJobImage(j)
      <4>1. target' = [target EXCEPT ![j] = jobImage[j]]
        BY <3>1 DEF TargetIsJobImage
      <4>. QED BY <3>1, <4>1 DEF TargetIsJobImage, TypeOK
    <3>2. CASE TargetByHash(j) \/ CheckNewImage(j)
      BY <3>2 DEF TargetByHash, CheckNewImage
    <3>3. CASE FindByHash(j) \/ InsertNewImage(j)
      BY <3>3 DEF FindByHash, InsertNewImage, WithHash
    <3>. QED BY <3>1, <3>2, <3>3
  <2>. QED BY <2>1, <2>2, <2>3, <2>4
<1>2. /\ save'[j] \in early
      /\ \A k \in Jobs : k # j => save'[k] = save[k] /\ target'[k] = target[k]
  BY <1>1 DEF TypeOK
<1>3. VerdictHasJob'
  <2>1. \A k \in Jobs : save[k] \in {"unflag", "done"} => k # j
    BY <1>1
  <2>. QED BY <1>1, <1>2, <2>1, VerdictKeepsJob DEF VerdictInv
<1>4. RowsFollowSave'
  BY <1>1, <1>2 DEF VerdictInv, RowsFollowSave
<1>. QED BY <1>3, <1>4 DEF VerdictInv

(* Opening the transactions of a save, one per policy it was scanned for.  *)
LEMMA EvaluateKeepsVerdict ==
  ASSUME TypeOK, VerdictInv, NEW j \in Jobs, NEW ok \in SUBSET Policies,
         Evaluate(j, ok)
  PROVE  VerdictInv'
<1>. USE DEF imageVars, requestVars, trawlerVars, txVars
<1>1. /\ UNCHANGED <<scanResults, policies, target, scanning>>
      /\ save[j] = "evaluate"
      /\ \A k \in Jobs : save'[k] = IF k = j THEN "writing" ELSE save[k]
      /\ \A k \in Jobs : passed'[k] = IF k = j THEN ok ELSE passed[k]
      /\ \A r \in Rows : tx'[r] = IF r[1] = j /\ r[2] \in policies[j]
                                   THEN "pending" ELSE tx[r]
  BY DEF Evaluate, SaveStep, TypeOK
<1>2. VerdictHasJob'
  BY <1>1, VerdictKeepsJob DEF VerdictInv
<1>3. \A k \in Jobs : \A p \in policies[k] :
        <<k, p>> \in Rows /\ <<k, p>>[1] = k
  BY DEF Rows, TypeOK
<1>4. \A k \in Jobs : save'[k] \in {"summary", "unflag", "done"} =>
        \A p \in policies'[k] : tx'[<<k, p>>] = "done"
  BY <1>1, <1>3 DEF VerdictInv, RowsFollowSave
<1>5. RowsFollowSave'
  BY <1>1, <1>4 DEF VerdictInv, RowsFollowSave
<1>. QED BY <1>2, <1>5 DEF VerdictInv

(* The end of a save: its rows are written, then the verdict, the flag.    *)
LEMMA FinishKeepsVerdict ==
  ASSUME TypeOK, VerdictInv, NEW j \in Jobs,
         AllSaved(j) \/ UpdateImage(j) \/ ClearQueued(j) \/ SaveFails(j)
  PROVE  VerdictInv'
<1>. USE DEF imageVars, requestVars, trawlerVars, txVars
<1>1. UNCHANGED <<policies, tx, passed, target, scanning>>
  BY DEF AllSaved, UpdateImage, ClearQueued, SaveFails
<1>2. CASE AllSaved(j)
  <2>1. /\ save[j] = "writing" /\ UNCHANGED scanResults
        /\ \A k \in Jobs : save'[k] = IF k = j THEN "summary" ELSE save[k]
        /\ \A p \in policies[j] : tx[<<j, p>>] = "done"
    BY <1>2 DEF AllSaved, SaveStep, TypeOK
  <2>2. VerdictHasJob'
    BY <1>1, <2>1, VerdictKeepsJob DEF VerdictInv
  <2>. QED BY <1>1, <2>1, <2>2 DEF VerdictInv, RowsFollowSave
<1>3. CASE UpdateImage(j)
  <2>. DEFINE verdict == IF passed[j] = policies[j] THEN "Compliant"
                                                    ELSE "Non-compliant"
  <2>1. /\ save[j] = "summary"
        /\ \A k \in Jobs : save'[k] = IF k = j THEN "unflag" ELSE save[k]
        /\ \A i \in ImageIds :
             scanResults'[i] = IF i = target[j] THEN verdict ELSE scanResults[i]
    BY <1>3 DEF UpdateImage, SaveStep, TypeOK
  <2>2. ASSUME NEW i \in ImageIds, scanResults'[i] # "Unscanned"
        PROVE  \E k \in Jobs :
                 /\ target'[k] = i
                 /\ save'[k] \in {"unflag", "done"}
                 /\ (scanResults'[i] = "Compliant") = (passed'[k] = policies'[k])
    <3>1. CASE i = target[j]
      BY <1>1, <2>1, <3>1
    <3>2. CASE i # target[j]
      <4>1. PICK k \in Jobs :
              /\ target[k] = i
              /\ save[k] \in {"unflag", "done"}
              /\ (scanResults[i] = "Compliant") = (passed[k] = policies[k])
        BY <2>1, <2>2, <3>2 DEF VerdictInv, VerdictHasJob
      <4>. QED BY <1>1, <2>1, <3>2, <4>1
    <3>. QED BY <3>1, <3>2
  <2>3. VerdictHasJob'
    BY <2>2 DEF VerdictHasJob
  <2>. QED BY <1>1, <2>1, <2>3 DEF VerdictInv, RowsFollowSave
<1>4. CASE ClearQueued(j)
  <2>1. /\ save[j] = "unflag" /\ UNCHANGED scanResults
        /\ \A k \in Jobs : save'[k] = IF k = j THEN "done" ELSE save[k]
    BY <1>4 DEF ClearQueued, SaveStep, TypeOK
  <2>2. VerdictHasJob'
    BY <1>1, <2>1, VerdictKeepsJob DEF VerdictInv
  <2>. QED BY <1>1, <2>1, <2>2 DEF VerdictInv, RowsFollowSave
<1>5. CASE SaveFails(j)
  <2>1. /\ save[j] \notin {"none", "done"} /\ UNCHANGED scanResults
        /\ \A k \in Jobs : save'[k] = IF k # j THEN save[k]
                                 ELSE IF save[j] = "unflag" THEN "done"
                                 ELSE "failed"
    BY <1>5 DEF SaveFails, TypeOK
  <2>2. VerdictHasJob'
    BY <1>1, <2>1, VerdictKeepsJob DEF VerdictInv
  <2>. QED BY <1>1, <2>1, <2>2 DEF VerdictInv, RowsFollowSave
<1>. QED BY <1>2, <1>3, <1>4, <1>5

(* A transaction that has not ended belongs to a save that has not either. *)
LEMMA RowKeepsVerdict ==
  ASSUME TypeOK, DeliveryInv, VerdictInv, NEW r \in Rows, HandleRow(r)
  PROVE  VerdictInv'
<1>. USE DEF imageVars, requestVars, trawlerVars
<1>1. PICK j \in Jobs, p \in Policies : r = <<j, p>> /\ r[1] = j
  BY DEF Rows
<1>2. /\ UNCHANGED <<scanResults, policies, passed, target, scanning>>
      /\ tx[r] \in {"pending", "open"} \/ (tx[r] = "done" /\ save[j] = "writing")
      /\ tx'[r] \in TxStates \ {"none"}
      /\ \A q \in Rows : q # r => tx'[q] = tx[q]
      /\ UNCHANGED save \/ save' = [save EXCEPT ![j] = "failed"]
  <2>1. CASE FailRow(r)
    BY <1>1, <2>1 DEF FailRow, TypeOK, TxStates
  <2>2. CASE ~FailRow(r)
    BY <2>2 DEF HandleRow, ClearLatest, CommitRow, TypeOK, TxStates
  <2>. QED BY <2>1, <2>2
<1>3. save[j] \notin {"none", "summary", "unflag", "done"} /\ p \in policies[j]
  BY <1>1, <1>2 DEF DeliveryInv, VerdictInv, RowsFollowSave
<1>4. \A k \in Jobs : /\ save'[k] = save[k] \/ (k = j /\ save'[k] = "failed")
                      /\ save[k] \in {"summary", "unflag", "done"} => k # j
  BY <1>2, <1>3 DEF TypeOK
<1>5. VerdictHasJob'
  BY <1>2, <1>4, VerdictKeepsJob DEF VerdictInv
<1>6. ASSUME NEW k \in Jobs, save'[k] \in {"summary", "unflag", "done"},
             NEW q \in policies'[k]
      PROVE  tx'[<<k, q>>] = "done"
  <2>1. <<k, q>> \in Rows /\ k # j /\ save[k] = save'[k]
    BY <1>2, <1>3, <1>4, <1>6 DEF Rows, TypeOK
  <2>. QED BY <1>1, <1>2, <1>6, <2>1 DEF VerdictInv, RowsFollowSave
<1>7. \A k \in Jobs : save'[k] # "none" => policies'[k] # {}
  BY <1>2, <1>3, <1>4 DEF VerdictInv, RowsFollowSave
<1>8. \A q \in Rows : tx'[q] # "none" => q[2] \in policies'[q[1]]
  BY <1>1, <1>2, <1>3 DEF VerdictInv, RowsFollowSave
<1>9. RowsFollowSave'
  BY <1>2, <1>6, <1>7, <1>8 DEF VerdictInv, RowsFollowSave
<1>. QED BY <1>5, <1>9 DEF VerdictInv

(* A crash ends the saves that had not written their rows and keeps those  *)
(* that had.                                                               *)
LEMMA CrashKeepsVerdict ==
  ASSUME TypeOK, VerdictInv, BackendCrash
  PROVE  VerdictInv'
<1>. USE DEF imageVars, requestVars, trawlerVars, txVars
<1>1. /\ UNCHANGED <<scanResults, policies, passed, target, scanning>>
      /\ \A j \in Jobs : save'[j] = IF save[j] = "none" THEN "none"
                                   ELSE IF save[j] \in {"unflag", "done"}
                                     THEN "done" ELSE "failed"
      /\ \A r \in Rows : tx'[r] = IF tx[r] \in {"pending", "open"}
                                   THEN "failed" ELSE tx[r]
  BY DEF BackendCrash
<1>2. VerdictHasJob'
  BY <1>1, VerdictKeepsJob DEF VerdictInv
<1>3. \A j \in Jobs : \A p \in policies[j] : <<j, p>> \in Rows
  BY DEF Rows, TypeOK
<1>4. \A j \in Jobs : save'[j] \in {"summary", "unflag", "done"} =>
        \A p \in policies'[j] : tx'[<<j, p>>] = "done"
  BY <1>1, <1>3 DEF VerdictInv, RowsFollowSave
<1>5. RowsFollowSave'
  BY <1>1, <1>4 DEF VerdictInv, RowsFollowSave
<1>. QED BY <1>2, <1>5 DEF VerdictInv

(* No image has a verdict at first.                                        *)
LEMMA VerdictInit == Init => VerdictInv
BY DEF Init, VerdictInv, RowsFollowSave, VerdictHasJob, Rows

(* Every step keeps verdicts backed by stored rows.                        *)
LEMMA VerdictStep ==
  TypeOK /\ DeliveryInv /\ VerdictInv /\ [Next]_vars => VerdictInv'
<1>. SUFFICES ASSUME TypeOK, DeliveryInv, VerdictInv, [Next]_vars
     PROVE  VerdictInv'
  OBVIOUS
<1>. USE DEF imageVars, requestVars, trawlerVars, txVars
<1>1. ASSUME NEW p \in Policies, SetPolicyEnabled(p) PROVE VerdictInv'
  BY <1>1, ElsewhereKeepsVerdict DEF SetPolicyEnabled
<1>2. ASSUME NEW j \in Jobs, NEW i \in ImageIds, RequestScan(j, i)
      PROVE  VerdictInv'
  BY <1>2, ElsewhereKeepsVerdict DEF RequestScan
<1>3. ASSUME NEW j \in Jobs, HandleRequest(j) PROVE VerdictInv'
  BY <1>3, ElsewhereKeepsVerdict
  DEF HandleRequest, Publish, PublishFails, SetQueued
<1>4. ASSUME NEW j \in Jobs, HandleSave(j) PROVE VerdictInv'
  BY <1>4, TargetKeepsVerdict, EvaluateKeepsVerdict, FinishKeepsVerdict
  DEF HandleSave
<1>5. ASSUME NEW r \in Rows, HandleRow(r) PROVE VerdictInv'
  BY <1>5, RowKeepsVerdict
<1>6. ASSUME NEW w \in Trawlers, Deliver(w) PROVE VerdictInv'
  BY <1>6, ElsewhereKeepsVerdict DEF Deliver
<1>7. ASSUME NEW w \in Trawlers, HandleDelivery(w) \/ TrawlerCrash(w)
      PROVE  VerdictInv'
  <2>1. CASE DropJob(w) \/ FinishDelivery(w) \/ TrawlerCrash(w)
    <3>1. UNCHANGED <<scanResults, policies, save, tx, target, passed>>
      BY <2>1 DEF DropJob, FinishDelivery, TrawlerCrash
    <3>2. \A v \in Trawlers : scanning'[v] \in {scanning[v], Idle}
      BY <2>1 DEF DropJob, FinishDelivery, TrawlerCrash, TypeOK
    <3>. QED BY <3>1, <3>2, ElsewhereKeepsVerdict
  <2>2. CASE StartScan(w)
    BY <2>2, StartKeepsVerdict
  <2>3. ASSUME NEW h \in Hashes \cup {NoHash}, PostResults(w, h)
        PROVE  VerdictInv'
    BY <2>3, PostKeepsVerdict
  <2>. QED BY <1>7, <2>1, <2>2, <2>3 DEF HandleDelivery
<1>8. CASE BackendCrash
  BY <1>8, CrashKeepsVerdict
<1>9. CASE UNCHANGED vars
  BY <1>9, ElsewhereKeepsVerdict DEF vars
<1>. QED
  BY <1>1, <1>2, <1>3, <1>4, <1>5, <1>6, <1>7, <1>8, <1>9 DEF Next

(* An image never shows a verdict without the complete rows of a scan      *)
(* behind it, for any number of policies, trawlers, jobs and images.       *)
THEOREM VerdictsAreBacked == Spec => []VerdictHasRows
<1>1. VerdictInv => VerdictHasRows
  BY DEF VerdictInv, VerdictHasJob, RowsFollowSave, VerdictHasRows
<1>. QED
  BY <1>1, TypeCorrect, DeliveryInit, DeliveryStep, VerdictInit, VerdictStep,
     PTL DEF Spec

-----------------------------------------------------------------------------
(* The job behind a queue flag keeps its request, and only a save that has *)
(* not ended moves: a job that is owed a scan stays so until its own save  *)
(* clears the flag or leaves it behind.                                    *)
Owed(j, i) ==
  /\ jobImage[j] = i /\ request[j] = "done"
  /\ save[j] = "done" => target[j] # i \/ j \in flagLeft

LEMMA OwedStays ==
  ASSUME NEW j \in Jobs, NEW i, Owed(j, i),
         jobImage'[j] = jobImage[j], request'[j] = "done",
         flagLeft \subseteq flagLeft',
         save'[j] = "done" => \/ save[j] = "done" /\ target'[j] = target[j]
                             \/ target'[j] # i \/ j \in flagLeft'
  PROVE  Owed(j, i)'
  BY DEF Owed

(* A save that ends clears the flag of its target or leaves it behind, and *)
(* until then it has not ended.                                            *)
LEMMA SaveOwes ==
  ASSUME TypeOK, QueuedIsOwed, NEW m \in Jobs, HandleSave(m)
  PROVE  QueuedIsOwed'
<1>. USE DEF imageVars, requestVars, trawlerVars, txVars
<1>1. /\ UNCHANGED <<request, jobImage>> /\ flagLeft \subseteq flagLeft'
      /\ \A j \in Jobs \ {m} : save'[j] = save[j] /\ target'[j] = target[j]
  BY DEF HandleSave, TargetIsJobImage, TargetByHash, FindByHash, CheckNewImage,
         InsertNewImage, Evaluate, AllSaved, UpdateImage, ClearQueued, SaveFails,
         SaveStep, TypeOK
<1>2. /\ \A i \in ImageIds : scanQueued'[i] => scanQueued[i]
      /\ save'[m] = "done" =>
           m \in flagLeft' \/ \A i \in ImageIds : scanQueued'[i] => target'[m] # i
  <2>1. CASE ClearQueued(m)
    BY <2>1 DEF ClearQueued, TypeOK
  <2>2. CASE SaveFails(m)
    BY <2>2 DEF SaveFails, TypeOK
  <2>3. CASE ~ClearQueued(m) /\ ~SaveFails(m)
    BY <2>3 DEF HandleSave, TargetIsJobImage, TargetByHash, FindByHash, CheckNewImage,
                InsertNewImage, Evaluate, AllSaved, UpdateImage, SaveStep, TypeOK
  <2>. QED BY <2>1, <2>2, <2>3
<1>3. ASSUME NEW i \in ImageIds, scanQueued'[i], NEW j \in Jobs, Owed(j, i) PROVE Owed(j, i)'
  <2>1. request'[j] = "done" /\ jobImage'[j] = jobImage[j]
    BY <1>1, <1>3 DEF Owed
  <2>2. save'[j] = "done" => \/ save[j] = "done" /\ target'[j] = target[j]
                             \/ target'[j] # i \/ j \in flagLeft'
    BY <1>1, <1>2, <1>3
  <2>. QED BY <1>1, <1>3, <2>1, <2>2, OwedStays
<1>. QED BY <1>2, <1>3 DEF QueuedIsOwed, Owed

(* An image that is shown as queued is owed a scan, or its flag was left   *)
(* on by a write that nobody awaited or a save that broke off              *)
(* (setImageScanQueueStatus), whatever scans of it end meanwhile.          *)
THEOREM QueuedHasReason == Spec => []QueuedIsOwed
<1>1. Init => QueuedIsOwed
  BY DEF Init, QueuedIsOwed
<1>2. TypeOK /\ QueuedIsOwed /\ [Next]_vars => QueuedIsOwed'
  <2>. SUFFICES ASSUME TypeOK, QueuedIsOwed, [Next]_vars PROVE QueuedIsOwed'
    OBVIOUS
  <2>. USE DEF imageVars, requestVars, trawlerVars, txVars
  <2>1. CASE \E m \in Jobs : HandleSave(m)
    BY <2>1, SaveOwes
  <2>2. ASSUME NEW m \in Jobs, SetQueued(m) PROVE QueuedIsOwed'
    <3>1. /\ UNCHANGED <<jobImage, save, target>> /\ flagLeft \subseteq flagLeft'
          /\ request'[m] = "done" /\ \A j \in Jobs \ {m} : request'[j] = request[j]
          /\ save[m] = "done" => m \in flagLeft'
          /\ \A i \in ImageIds : scanQueued'[i] => scanQueued[i] \/ i = jobImage[m]
      BY <2>2 DEF SetQueued, TypeOK
    <3>2. Owed(m, jobImage[m])'
      BY <3>1 DEF Owed
    <3>3. ASSUME NEW i \in ImageIds, NEW j \in Jobs, Owed(j, i) PROVE Owed(j, i)'
      <4>1. request'[j] = "done"
        BY <3>1, <3>3 DEF Owed
      <4>. QED BY <3>1, <3>3, <4>1, OwedStays
    <3>. QED BY <3>1, <3>2, <3>3 DEF QueuedIsOwed, Owed
  <2>3. CASE ~(\E m \in Jobs : HandleSave(m) \/ SetQueued(m))
    <3>1. /\ UNCHANGED <<scanQueued, target>> /\ flagLeft \subseteq flagLeft'
          /\ \A j \in Jobs : request[j] = "done" => /\ request'[j] = "done"
                                                    /\ jobImage'[j] = jobImage[j]
          /\ \A j \in Jobs : save'[j] = "done" => save[j] = "done" \/ j \in flagLeft'
      <4>1. CASE \E j \in Jobs, i \in ImageIds : RequestScan(j, i)
        BY <4>1 DEF RequestScan, TypeOK
      <4>2. CASE \E j \in Jobs : Publish(j) \/ PublishFails(j)
        BY <4>2 DEF Publish, PublishFails, TypeOK
      <4>3. CASE BackendCrash
        BY <4>3 DEF BackendCrash, TypeOK
      <4>4. CASE \E r \in Rows : HandleRow(r)
        BY <4>4 DEF HandleRow, ClearLatest, CommitRow, FailRow, Rows, TypeOK
      <4>5. CASE \/ \E p \in Policies : SetPolicyEnabled(p)
                 \/ \E w \in Trawlers : Deliver(w) \/ HandleDelivery(w) \/ TrawlerCrash(w)
                 \/ UNCHANGED vars
        BY <4>5 DEF SetPolicyEnabled, Deliver, HandleDelivery, StartScan, DropJob,
                    FinishDelivery, PostResults, TrawlerCrash, vars, TypeOK
      <4>. QED BY <2>3, <4>1, <4>2, <4>3, <4>4, <4>5 DEF Next, HandleRequest
    <3>2. ASSUME NEW i \in ImageIds, NEW j \in Jobs, Owed(j, i) PROVE Owed(j, i)'
      <4>1. request'[j] = "done" /\ jobImage'[j] = jobImage[j]
        BY <3>1, <3>2 DEF Owed
      <4>. QED BY <3>1, <3>2, <4>1, OwedStays
    <3>. QED BY <3>1, <3>2 DEF QueuedIsOwed, Owed
  <2>. QED BY <2>1, <2>2, <2>3
<1>. QED BY <1>1, <1>2, TypeCorrect, PTL DEF Spec

-----------------------------------------------------------------------------
(* A row is only written for a target that has been chosen for good, and   *)
(* the marks it will clear are those of stored rows of the same image.     *)
Late == {"writing", "summary", "unflag", "done", "failed"}

LatestInv ==
  /\ SomeRowIsLatest
  /\ \A r \in Rows : tx[r] # "none" => save[r[1]] \in Late
  /\ \A r \in Rows : tx[r] = "open" => snapshot[r] \subseteq RowsOf(target[r[1]])

(* A step that stores no row.                                              *)
LEMMA ElsewhereKeepsLatest ==
  ASSUME LatestInv, UNCHANGED latest,
         \A r \in Rows : tx'[r] = "done" <=> tx[r] = "done",
         \A r \in Rows : tx'[r] # "none" => save'[r[1]] \in Late,
         \A r \in Rows : tx'[r] = "open" =>
           \/ tx[r] = "open" /\ snapshot'[r] = snapshot[r]
           \/ tx[r] # "none" /\ snapshot'[r] = RowsOf(target[r[1]]),
         \A j \in Jobs : save[j] \in Late => target'[j] = target[j]
  PROVE  LatestInv'
<1>1. \A r \in Rows : r[1] \in Jobs
  BY DEF Rows
<1>2. \A r \in Rows : tx[r] # "none" => target'[r[1]] = target[r[1]]
  BY <1>1 DEF LatestInv
<1>3. \A i : RowsOf(i)' = RowsOf(i)
  BY <1>2 DEF RowsOf
<1>4. SomeRowIsLatest'
  BY <1>3 DEF LatestInv, SomeRowIsLatest
<1>5. ASSUME NEW r \in Rows, tx'[r] = "open"
      PROVE  snapshot'[r] \subseteq RowsOf(target[r[1]])'
  <2>1. /\ snapshot'[r] \subseteq RowsOf(target[r[1]])
        /\ target'[r[1]] = target[r[1]]
    BY <1>2, <1>5 DEF LatestInv
  <2>. QED BY <1>2, <2>1 DEF RowsOf
<1>. QED BY <1>4, <1>5 DEF LatestInv

LEMMA SaveKeepsLatest ==
  ASSUME TypeOK, LatestInv, NEW j \in Jobs, HandleSave(j)
  PROVE  LatestInv'
<1>. USE DEF imageVars, requestVars, trawlerVars, txVars
<1>1. UNCHANGED <<latest, snapshot>>
  BY DEF HandleSave, TargetIsJobImage, TargetByHash, FindByHash, CheckNewImage,
         InsertNewImage, Evaluate, AllSaved, UpdateImage, ClearQueued, SaveFails
<1>2. /\ \A k \in Jobs : k # j => save'[k] = save[k]
      /\ save[j] \in Late => save'[j] \in Late
  BY DEF HandleSave, TargetIsJobImage, TargetByHash, FindByHash, CheckNewImage,
         InsertNewImage, Evaluate, AllSaved, UpdateImage, ClearQueued, SaveFails,
         SaveStep, TypeOK, Late
<1>3. \A k \in Jobs : save[k] \in Late => target'[k] = target[k]
  BY DEF HandleSave, TargetIsJobImage, TargetByHash, FindByHash, CheckNewImage,
         InsertNewImage, Evaluate, AllSaved, UpdateImage, ClearQueued, SaveFails,
         SaveStep, TypeOK, Late
<1>4. \A r \in Rows : r[1] \in Jobs
  BY DEF Rows
<1>5. CASE \E ok \in SUBSET Policies : Evaluate(j, ok)
  <2>1. /\ save[j] = "evaluate" /\ save'[j] = "writing"
        /\ \A r \in Rows : tx'[r] = tx[r] \/ (tx'[r] = "pending" /\ r[1] = j)
    <3>1. SaveStep(j, "evaluate", "writing")
      BY <1>5 DEF Evaluate
    <3>2. tx' = [r \in Rows |-> IF r[1] = j /\ r[2] \in policies[j]
                                THEN "pending" ELSE tx[r]]
      BY <1>5 DEF Evaluate
    <3>3. \A r \in Rows : tx'[r] = tx[r] \/ (tx'[r] = "pending" /\ r[1] = j)
      BY <3>2
    <3>. QED BY <3>1, <3>3 DEF SaveStep, TypeOK
  <2>2. \A r \in Rows : r[1] = j => tx[r] = "none"
    BY <2>1 DEF LatestInv, Late
  <2>3. \A r \in Rows : tx'[r] # "none" => save'[r[1]] \in Late
    BY <1>2, <1>4, <2>1, <2>2 DEF LatestInv, Late
  <2>. QED BY <1>1, <1>3, <2>1, <2>2, <2>3, ElsewhereKeepsLatest
<1>6. CASE ~\E ok \in SUBSET Policies : Evaluate(j, ok)
  <2>1. UNCHANGED tx
    BY <1>6 DEF HandleSave, TargetIsJobImage, TargetByHash, FindByHash,
       CheckNewImage, InsertNewImage, AllSaved, UpdateImage, ClearQueued, SaveFails
  <2>2. \A r \in Rows : tx'[r] # "none" => save'[r[1]] \in Late
    BY <1>2, <1>4, <2>1 DEF LatestInv
  <2>. QED BY <1>1, <1>3, <2>1, <2>2, ElsewhereKeepsLatest
<1>. QED BY <1>5, <1>6

LEMMA RowKeepsLatest ==
  ASSUME TypeOK, LatestInv, NEW r \in Rows, HandleRow(r)
  PROVE  LatestInv'
<1>. USE DEF imageVars, requestVars, trawlerVars
<1>1. \A q \in Rows : q[1] \in Jobs
  BY DEF Rows
<1>2. CASE ClearLatest(r)
  <2>1. /\ UNCHANGED <<latest, save, target>> /\ tx[r] = "pending"
        /\ \A q \in Rows : /\ tx'[q] = IF q = r THEN "open" ELSE tx[q]
                           /\ snapshot'[q] = IF q = r THEN RowsOf(target[r[1]])
                                                      ELSE snapshot[q]
    BY <1>2 DEF ClearLatest, TypeOK
  <2>2. \A q \in Rows : tx'[q] # "none" => save'[q[1]] \in Late
    BY <2>1 DEF LatestInv
  <2>. QED BY <2>1, <2>2, ElsewhereKeepsLatest
<1>3. CASE FailRow(r)
  <2>1. /\ UNCHANGED <<latest, snapshot, target>> /\ tx[r] # "none"
        /\ \A q \in Rows : \/ tx'[q] = tx[q]
                           \/ q = r /\ tx'[q] = "failed" /\ tx[q] \in {"pending", "open"}
        /\ \A k \in Jobs : save'[k] = IF k = r[1] THEN "failed" ELSE save[k]
    BY <1>1, <1>3 DEF FailRow, TypeOK
  <2>2. \A q \in Rows : tx'[q] # "none" => save'[q[1]] \in Late
    BY <1>1, <2>1 DEF LatestInv, Late
  <2>. QED BY <2>1, <2>2, ElsewhereKeepsLatest
<1>4. CASE CommitRow(r)
  <2>1. /\ UNCHANGED <<snapshot, save, target>> /\ tx[r] = "open"
        /\ \A q \in Rows : tx'[q] = IF q = r THEN "done" ELSE tx[q]
        /\ latest' = (latest \ snapshot[r]) \cup {r}
    BY <1>4 DEF CommitRow, TypeOK
  <2>2. \A i : RowsOf(i)' = IF target[r[1]] = i THEN RowsOf(i) \cup {r} ELSE RowsOf(i)
    BY <2>1 DEF RowsOf
  <2>3. ASSUME NEW i \in ImageIds, RowsOf(i)' # {}
        PROVE  RowsOf(i)' \cap latest' # {}
    <3>1. CASE target[r[1]] = i
      BY <2>1, <2>2, <3>1
    <3>2. CASE target[r[1]] # i
      <4>1. PICK q \in RowsOf(i) : q \in latest
        BY <2>2, <2>3, <3>2 DEF LatestInv, SomeRowIsLatest
      <4>2. q \notin snapshot[r]
        BY <2>1, <3>2, <4>1 DEF LatestInv, RowsOf
      <4>. QED BY <2>1, <2>2, <3>2, <4>1, <4>2
    <3>. QED BY <3>1, <3>2
  <2>4. \A q \in Rows : tx'[q] # "none" => save'[q[1]] \in Late
    BY <2>1 DEF LatestInv
  <2>5. ASSUME NEW q \in Rows, tx'[q] = "open"
        PROVE  snapshot'[q] \subseteq RowsOf(target[q[1]])'
    <3>1. snapshot[q] \subseteq RowsOf(target[q[1]])
      BY <2>1, <2>5 DEF LatestInv
    <3>. QED BY <2>1, <3>1 DEF RowsOf
  <2>6. SomeRowIsLatest'
    BY <2>3 DEF SomeRowIsLatest
  <2>. QED BY <2>4, <2>5, <2>6 DEF LatestInv
<1>. QED BY <1>2, <1>3, <1>4 DEF HandleRow

LEMMA LatestInvariance == Spec => []LatestInv
<1>1. Init => LatestInv
  BY DEF Init, LatestInv, SomeRowIsLatest, RowsOf, Rows
<1>2. TypeOK /\ DeliveryInv /\ LatestInv /\ [Next]_vars => LatestInv'
  <2>. SUFFICES ASSUME TypeOK, DeliveryInv, LatestInv, [Next]_vars PROVE LatestInv'
    OBVIOUS
  <2>. USE DEF imageVars, requestVars, trawlerVars, txVars
  <2>1. CASE \E j \in Jobs : HandleSave(j)
    BY <2>1, SaveKeepsLatest
  <2>2. CASE \E r \in Rows : HandleRow(r)
    BY <2>2, RowKeepsLatest
  <2>3. CASE BackendCrash
    <3>1. /\ UNCHANGED <<latest, snapshot, target>>
          /\ \A j \in Jobs : save[j] \in Late => save'[j] \in Late
          /\ \A r \in Rows : tx'[r] = IF tx[r] \in {"pending", "open"}
                                       THEN "failed" ELSE tx[r]
      BY <2>3 DEF BackendCrash, Late
    <3>2. \A r \in Rows : tx'[r] # "none" => save'[r[1]] \in Late
      BY <3>1 DEF LatestInv, Rows
    <3>. QED BY <3>1, <3>2, ElsewhereKeepsLatest
  <2>4. CASE \E w \in Trawlers, h \in Hashes \cup {NoHash} : PostResults(w, h)
    <3>1. PICK w \in Trawlers, h \in Hashes \cup {NoHash} : PostResults(w, h)
      BY <2>4
    <3>2. /\ UNCHANGED <<latest, tx, snapshot, target>>
          /\ \A k \in Jobs : save[k] \in Late => save'[k] = save[k]
      BY <3>1 DEF PostResults, TypeOK, Late
    <3>3. \A r \in Rows : tx'[r] # "none" => save'[r[1]] \in Late
      BY <3>2 DEF LatestInv, Rows
    <3>. QED BY <3>2, <3>3, ElsewhereKeepsLatest
  <2>5. CASE UNCHANGED <<latest, save, tx, snapshot, target>>
    BY <2>5, ElsewhereKeepsLatest DEF LatestInv
  <2>. QED
    BY <2>1, <2>2, <2>3, <2>4, <2>5 DEF Next, SetPolicyEnabled, RequestScan,
       HandleRequest, Publish, PublishFails, SetQueued, Deliver, HandleDelivery,
       StartScan, DropJob, FinishDelivery, TrawlerCrash, vars
<1>. QED BY <1>1, <1>2, TypeCorrect, DeliveryInit, DeliveryStep, PTL DEF Spec

(* Whatever transactions of whatever scans overlap, an image with stored   *)
(* results has one that is marked latest (saveImageScanByImageId).         *)
THEOREM ALatestRowRemains == Spec => []SomeRowIsLatest
<1>1. LatestInv => SomeRowIsLatest
  BY DEF LatestInv
<1>. QED BY <1>1, LatestInvariance, PTL

-----------------------------------------------------------------------------
(* A save that evaluates has chosen an image, since its job has one.       *)
Chosen == {"evaluate", "writing", "summary", "unflag", "done"}

TargetInv ==
  /\ \A j \in Jobs : request[j] # "idle" => jobImage[j] \in ImageIds
  /\ \A j \in Jobs : save[j] \in Chosen => target[j] \in ImageIds

(* A step that asks for nothing and chooses nothing.                       *)
LEMMA ElsewhereKeepsTarget ==
  ASSUME TargetInv, UNCHANGED <<jobImage, target>>,
         \A j \in Jobs : request'[j] # "idle" => request[j] # "idle",
         \A j \in Jobs : save'[j] \in Chosen => save[j] \in Chosen
  PROVE  TargetInv'
BY DEF TargetInv

LEMMA SaveKeepsTarget ==
  ASSUME TypeOK, DeliveryInv, TargetInv, NEW j \in Jobs, HandleSave(j)
  PROVE  TargetInv'
<1>. USE DEF imageVars, requestVars, trawlerVars, txVars
<1>1. /\ UNCHANGED <<request, jobImage>>
      /\ \A k \in Jobs \ {j} : save'[k] = save[k] /\ target'[k] = target[k]
  BY DEF HandleSave, TargetIsJobImage, TargetByHash, FindByHash, CheckNewImage,
         InsertNewImage, Evaluate, AllSaved, UpdateImage, ClearQueued, SaveFails,
         SaveStep, TypeOK
<1>2. save'[j] \in Chosen => target'[j] \in ImageIds
  <2>1. CASE TargetIsJobImage(j)
    <3>1. target'[j] = jobImage[j] /\ save[j] = "lookup"
      BY <2>1 DEF TargetIsJobImage, SaveStep, TypeOK
    <3>. QED BY <3>1 DEF TargetInv, DeliveryInv
  <2>2. CASE FindByHash(j) \/ InsertNewImage(j)
    BY <2>2 DEF FindByHash, InsertNewImage, WithHash, SaveStep, Chosen, TypeOK
  <2>3. CASE TargetByHash(j) \/ CheckNewImage(j)
    BY <2>3 DEF TargetByHash, CheckNewImage, SaveStep, Chosen, TypeOK
  <2>4. CASE \/ \E ok \in SUBSET Policies : Evaluate(j, ok)
             \/ AllSaved(j) \/ UpdateImage(j) \/ ClearQueued(j) \/ SaveFails(j)
    <3>1. UNCHANGED target /\ (save'[j] \in Chosen => save[j] \in Chosen)
      BY <2>4 DEF Evaluate, AllSaved, UpdateImage, ClearQueued, SaveFails,
                  SaveStep, Chosen, TypeOK
    <3>. QED BY <3>1 DEF TargetInv
  <2>. QED BY <2>1, <2>2, <2>3, <2>4 DEF HandleSave
<1>. QED BY <1>1, <1>2 DEF TargetInv

LEMMA TargetInvariance == Spec => []TargetInv
<1>1. Init => TargetInv
  BY DEF Init, TargetInv, Chosen
<1>2. TypeOK /\ DeliveryInv /\ TargetInv /\ [Next]_vars => TargetInv'
  <2>. SUFFICES ASSUME TypeOK, DeliveryInv, TargetInv, [Next]_vars PROVE TargetInv'
    OBVIOUS
  <2>. USE DEF imageVars, requestVars, trawlerVars, txVars
  <2>1. CASE \E j \in Jobs, i \in ImageIds : RequestScan(j, i)
    BY <2>1 DEF RequestScan, TargetInv, TypeOK
  <2>2. CASE \E j \in Jobs : HandleRequest(j)
    <3>1. \A j \in Jobs : request'[j] # "idle" => request[j] # "idle"
      BY <2>2 DEF HandleRequest, Publish, PublishFails, SetQueued, TypeOK
    <3>2. UNCHANGED <<jobImage, target, save>>
      BY <2>2 DEF HandleRequest, Publish, PublishFails, SetQueued
    <3>. QED BY <3>1, <3>2, ElsewhereKeepsTarget
  <2>3. CASE \E j \in Jobs : HandleSave(j)
    BY <2>3, SaveKeepsTarget
  <2>4. CASE \E r \in Rows : HandleRow(r)
    <3>1. PICK r \in Rows : HandleRow(r)
      BY <2>4
    <3>2. UNCHANGED <<request, jobImage, target>>
      BY <3>1 DEF HandleRow, ClearLatest, CommitRow, FailRow
    <3>3. \A j \in Jobs : save'[j] \in Chosen => save[j] \in Chosen
      BY <3>1 DEF HandleRow, ClearLatest, CommitRow, FailRow, Chosen, TypeOK, Rows
    <3>. QED BY <3>2, <3>3, ElsewhereKeepsTarget
  <2>5. CASE \E w \in Trawlers, h \in Hashes \cup {NoHash} : PostResults(w, h)
    <3>1. PICK w \in Trawlers, h \in Hashes \cup {NoHash} : PostResults(w, h)
      BY <2>5
    <3>2. UNCHANGED <<request, jobImage, target>>
      BY <3>1 DEF PostResults
    <3>3. \A j \in Jobs : save'[j] \in Chosen => save[j] \in Chosen
      BY <3>1 DEF PostResults, Chosen, TypeOK
    <3>. QED BY <3>2, <3>3, ElsewhereKeepsTarget
  <2>6. CASE BackendCrash
    BY <2>6, ElsewhereKeepsTarget DEF BackendCrash, Chosen
  <2>7. CASE UNCHANGED <<request, jobImage, save, target>>
    BY <2>7, ElsewhereKeepsTarget
  <2>. QED
    BY <2>1, <2>2, <2>3, <2>4, <2>5, <2>6, <2>7 DEF Next, SetPolicyEnabled,
       Deliver, HandleDelivery, StartScan, DropJob, FinishDelivery,
       TrawlerCrash, vars
<1>. QED BY <1>1, <1>2, TypeCorrect, DeliveryInit, DeliveryStep, PTL DEF Spec

-----------------------------------------------------------------------------
(* Two scans store results of one image at a time when both have chosen it *)
(* and neither has updated it, or rows of a scan that failed are still     *)
(* being written.  That, and nothing else, is what duplicates the latest   *)
(* row of a policy and overwrites the digest of an image.                  *)
Storing(j) ==
  \/ save[j] \in {"evaluate", "writing", "summary"}
  \/ \E p \in Policies : tx[<<j, p>>] \in {"pending", "open"}

OneAtATime ==
  \A j, k \in Jobs : Storing(j) /\ Storing(k) /\ target[j] = target[k] => j = k

(* The latest rows are stored ones, and a transaction whose UPDATE has run *)
(* has matched every stored row of its image and policy.                   *)
UniqueInv ==
  /\ LatestIsUnique
  /\ \A r \in latest : r \in Rows /\ tx[r] = "done"
  /\ \A r, s \in Rows :
       /\ tx[r] = "open" /\ tx[s] = "done"
       /\ r[2] = s[2] /\ target[r[1]] = target[s[1]]
       => s \in snapshot[r]

LEMMA RowsAreStoring ==
  ASSUME TypeOK, NEW r \in Rows, tx[r] \in {"pending", "open"}
  PROVE  r[1] \in Jobs /\ Storing(r[1])
<1>1. PICK j \in Jobs, p \in Policies : r = <<j, p>>
  BY DEF Rows
<1>. QED BY <1>1 DEF Storing

(* A step that stores no row and starts no UPDATE but a complete one.      *)
LEMMA ElsewhereKeepsUnique ==
  ASSUME UniqueInv, LatestInv, UNCHANGED latest,
         \A r \in Rows : tx'[r] = "done" <=> tx[r] = "done",
         \A r \in Rows : tx'[r] = "open" =>
           \/ tx[r] = "open" /\ snapshot'[r] = snapshot[r]
           \/ tx[r] # "none" /\ snapshot'[r] = RowsOf(target[r[1]]),
         \A j \in Jobs : save[j] \in Late => target'[j] = target[j]
  PROVE  UniqueInv'
<1>1. \A r \in Rows : r[1] \in Jobs
  BY DEF Rows
<1>2. \A r \in Rows : tx[r] # "none" => target'[r[1]] = target[r[1]]
  BY <1>1 DEF LatestInv
<1>3. LatestIsUnique'
  BY <1>2 DEF UniqueInv, LatestIsUnique
<1>4. \A r \in latest' : r \in Rows /\ tx'[r] = "done"
  BY DEF UniqueInv
<1>5. ASSUME NEW r \in Rows, NEW s \in Rows,
             tx'[r] = "open", tx'[s] = "done",
             r[2] = s[2], target'[r[1]] = target'[s[1]]
      PROVE  s \in snapshot'[r]
  <2>1. /\ tx[s] = "done" /\ tx[r] # "none"
        /\ r[2] = s[2] /\ target[r[1]] = target[s[1]]
    BY <1>2, <1>5
  <2>2. CASE tx[r] = "open" /\ snapshot'[r] = snapshot[r]
    BY <2>1, <2>2 DEF UniqueInv
  <2>3. CASE snapshot'[r] = RowsOf(target[r[1]])
    BY <2>1, <2>3 DEF RowsOf
  <2>. QED BY <1>5, <2>2, <2>3
<1>. QED BY <1>3, <1>4, <1>5 DEF UniqueInv

LEMMA RowKeepsUnique ==
  ASSUME TypeOK, LatestInv, UniqueInv, OneAtATime, NEW r \in Rows, HandleRow(r)
  PROVE  UniqueInv'
<1>. USE DEF imageVars, requestVars, trawlerVars
<1>1. \A q \in Rows : q[1] \in Jobs
  BY DEF Rows
<1>2. CASE ClearLatest(r)
  <2>1. /\ UNCHANGED <<latest, save, target>> /\ tx[r] = "pending"
        /\ \A q \in Rows : /\ tx'[q] = IF q = r THEN "open" ELSE tx[q]
                           /\ snapshot'[q] = IF q = r THEN RowsOf(target[r[1]])
                                                      ELSE snapshot[q]
    BY <1>2 DEF ClearLatest, TypeOK
  <2>. QED BY <2>1, ElsewhereKeepsUnique
<1>3. CASE FailRow(r)
  <2>1. /\ UNCHANGED <<latest, snapshot, target>> /\ tx[r] # "none"
        /\ \A q \in Rows : \/ tx'[q] = tx[q]
                           \/ q = r /\ tx'[q] = "failed" /\ tx[q] \in {"pending", "open"}
    BY <1>3 DEF FailRow, TypeOK
  <2>. QED BY <2>1, ElsewhereKeepsUnique
<1>4. CASE CommitRow(r)
  <2>1. /\ UNCHANGED <<snapshot, save, target>> /\ tx[r] = "open"
        /\ \A q \in Rows : tx'[q] = IF q = r THEN "done" ELSE tx[q]
        /\ latest' = (latest \ snapshot[r]) \cup {r}
    BY <1>4 DEF CommitRow, TypeOK
  <2>2. \A s \in latest' \ {r} :
          s \in latest /\ ~(s[2] = r[2] /\ target[s[1]] = target[r[1]])
    BY <2>1 DEF UniqueInv
  <2>3. LatestIsUnique'
    <3>. SUFFICES ASSUME NEW s \in latest', NEW q \in latest', s[2] = q[2],
                         target[s[1]] = target[q[1]]
                  PROVE  s = q
      BY <2>1 DEF LatestIsUnique
    <3>1. CASE s \in latest /\ q \in latest
      BY <3>1 DEF UniqueInv, LatestIsUnique
    <3>2. CASE s = r \/ q = r
      BY <2>2, <3>2
    <3>. QED BY <2>2, <3>1, <3>2
  <2>4. \A s \in latest' : s \in Rows /\ tx'[s] = "done"
    BY <2>1 DEF UniqueInv
  <2>5. ASSUME NEW q \in Rows, NEW s \in Rows,
               tx'[q] = "open", tx'[s] = "done",
               q[2] = s[2], target'[q[1]] = target'[s[1]]
        PROVE  s \in snapshot'[q]
    <3>1. tx[q] = "open" /\ q # r /\ target[q[1]] = target[s[1]]
      BY <2>1, <2>5
    <3>2. CASE s # r
      BY <2>1, <2>5, <3>1, <3>2 DEF UniqueInv
    <3>3. CASE s = r
      <4>1. q[1] = r[1]
        BY <2>1, <3>1, <3>3, RowsAreStoring DEF OneAtATime
      <4>. QED BY <2>5, <3>1, <3>3, <4>1 DEF Rows
    <3>. QED BY <3>2, <3>3
  <2>. QED BY <2>3, <2>4, <2>5 DEF UniqueInv
<1>. QED BY <1>2, <1>3, <1>4 DEF HandleRow

(* An image whose scans store their results one at a time has at most one  *)
(* latest row per policy, whatever fails or crashes (the UPDATE and the    *)
(* INSERT of saveImageScanByImageId).                                      *)
THEOREM OnlyOverlapDuplicates == Spec /\ []OneAtATime => []LatestIsUnique
<1>1. Init => UniqueInv
  BY DEF Init, UniqueInv, LatestIsUnique
<1>2. TypeOK /\ LatestInv /\ UniqueInv /\ OneAtATime /\ [Next]_vars => UniqueInv'
  <2>. SUFFICES ASSUME TypeOK, LatestInv, UniqueInv, OneAtATime, [Next]_vars
                PROVE  UniqueInv'
    OBVIOUS
  <2>. USE DEF imageVars, requestVars, trawlerVars, txVars
  <2>1. CASE \E j \in Jobs : HandleSave(j)
    <3>1. PICK j \in Jobs : HandleSave(j)
      BY <2>1
    <3>2. /\ UNCHANGED <<latest, snapshot>>
          /\ \A k \in Jobs : save[k] \in Late => target'[k] = target[k]
      BY <3>1 DEF HandleSave, TargetIsJobImage, TargetByHash, FindByHash,
         CheckNewImage, InsertNewImage, Evaluate, AllSaved, UpdateImage,
         ClearQueued, SaveFails, SaveStep, TypeOK, Late
    <3>3. CASE \E ok \in SUBSET Policies : Evaluate(j, ok)
      <4>1. /\ save[j] = "evaluate"
            /\ \A r \in Rows : tx'[r] = tx[r] \/ (tx'[r] = "pending" /\ r[1] = j)
        BY <3>3 DEF Evaluate, SaveStep
      <4>2. \A r \in Rows : r[1] = j => tx[r] = "none"
        BY <4>1 DEF LatestInv, Late
      <4>. QED BY <3>2, <4>1, <4>2, ElsewhereKeepsUnique
    <3>4. CASE ~\E ok \in SUBSET Policies : Evaluate(j, ok)
      <4>1. UNCHANGED tx
        BY <3>1, <3>4 DEF HandleSave, TargetIsJobImage, TargetByHash, FindByHash,
           CheckNewImage, InsertNewImage, AllSaved, UpdateImage, ClearQueued,
           SaveFails
      <4>. QED BY <3>2, <4>1, ElsewhereKeepsUnique
    <3>. QED BY <3>3, <3>4
  <2>2. CASE \E r \in Rows : HandleRow(r)
    BY <2>2, RowKeepsUnique
  <2>3. CASE BackendCrash
    <3>1. /\ UNCHANGED <<latest, snapshot, target>>
          /\ \A r \in Rows : tx'[r] = IF tx[r] \in {"pending", "open"}
                                       THEN "failed" ELSE tx[r]
      BY <2>3 DEF BackendCrash
    <3>. QED BY <3>1, ElsewhereKeepsUnique
  <2>4. CASE UNCHANGED <<latest, tx, snapshot, target>>
    BY <2>4, ElsewhereKeepsUnique DEF LatestInv
  <2>. QED
    BY <2>1, <2>2, <2>3, <2>4 DEF Next, SetPolicyEnabled, RequestScan,
       HandleRequest, Publish, PublishFails, SetQueued, Deliver, HandleDelivery,
       StartScan, DropJob, PostResults, FinishDelivery, TrawlerCrash, vars
<1>3. UniqueInv => LatestIsUnique
  BY DEF UniqueInv
<1>. QED BY <1>1, <1>2, <1>3, TypeCorrect, LatestInvariance, PTL DEF Spec

-----------------------------------------------------------------------------
(* An image that a job asked for or a save has chosen is there, and until  *)
(* the save updates it, it still has the digest that made it the choice.   *)
Undecided == {"evaluate", "writing", "summary"}

HashInv ==
  /\ \A j \in Jobs : request[j] # "idle" => hash[jobImage[j]] # Absent
  /\ \A j \in Jobs : save[j] \in Undecided =>
       /\ hash[target[j]] # Absent
       /\ \/ newHash[j] = NoHash
          \/ newHash[j] = hash[target[j]]
          \/ hash[target[j]] = TmpHash

(* A step that touches no image and chooses none.                          *)
LEMMA ElsewhereKeepsHash ==
  ASSUME HashInv, UNCHANGED <<hash, jobImage, target>>,
         \A j \in Jobs : request'[j] # "idle" => request[j] # "idle",
         \A j \in Jobs : save'[j] \in Undecided =>
           save[j] \in Undecided /\ newHash'[j] = newHash[j]
  PROVE  HashInv'
BY DEF HashInv

(* The inserted row takes a free id, which nothing refers to.              *)
LEMMA InsertKeepsHash ==
  ASSUME TypeOK, TargetInv, HashInv, NEW j \in Jobs, InsertNewImage(j)
  PROVE  HashInv'
<1>. USE DEF imageVars, requestVars, trawlerVars, txVars
<1>1. PICK i \in ImageIds : /\ hash[i] = Absent
                            /\ hash' = [hash EXCEPT ![i] = newHash[j]]
                            /\ target' = [target EXCEPT ![j] = i]
  BY DEF InsertNewImage, WithHash
<1>2. UNCHANGED <<request, jobImage, newHash>>
  BY DEF InsertNewImage
<1>3. /\ save'[j] = "evaluate"
      /\ \A k \in Jobs \ {j} : save'[k] = save[k] /\ target'[k] = target[k]
      /\ target'[j] = i /\ hash'[i] = newHash[j]
      /\ \A k \in ImageIds : hash[k] # Absent => hash'[k] = hash[k]
  <2>1. SaveStep(j, "insert", "evaluate")
    BY DEF InsertNewImage
  <2>2. \A k \in ImageIds : hash[k] # Absent => hash'[k] = hash[k]
    BY <1>1 DEF TypeOK
  <2>. QED BY <1>1, <2>1, <2>2 DEF TypeOK, SaveStep
<1>4. newHash[j] # Absent
  BY PipelineAssumption DEF TypeOK
<1>5. \A k \in Jobs : request'[k] # "idle" => hash'[jobImage'[k]] # Absent
  BY <1>2, <1>3 DEF HashInv, TargetInv
<1>6. ASSUME NEW k \in Jobs, save'[k] \in Undecided
      PROVE  /\ hash'[target'[k]] # Absent
             /\ \/ newHash'[k] = NoHash
                \/ newHash'[k] = hash'[target'[k]]
                \/ hash'[target'[k]] = TmpHash
  <2>1. CASE k = j
    BY <1>2, <1>3, <1>4, <2>1
  <2>2. CASE k # j
    <3>1. save[k] \in Undecided /\ target[k] \in ImageIds /\ target'[k] = target[k]
      BY <1>3, <1>6, <2>2 DEF TargetInv, Undecided, Chosen
    <3>. QED BY <1>2, <1>3, <3>1 DEF HashInv
  <2>. QED BY <2>1, <2>2
<1>. QED BY <1>5, <1>6 DEF HashInv

(* What UpdateImage writes is the digest its image has, unless that is a   *)
(* temporary one; no other save has chosen the image.                      *)
LEMMA UpdateIs ==
  ASSUME TypeOK, TargetInv, HashInv, NEW j \in Jobs, UpdateImage(j)
  PROVE  /\ UNCHANGED <<request, jobImage, newHash, target>>
         /\ save[j] = "summary" /\ save' = [save EXCEPT ![j] = "unflag"]
         /\ target[j] \in ImageIds
         /\ \A i \in ImageIds \ {target[j]} : hash'[i] = hash[i]
         /\ hash'[target[j]] # Absent
         /\ hash'[target[j]] # hash[target[j]] => hash[target[j]] = TmpHash
<1>. USE DEF imageVars, requestVars, trawlerVars, txVars
<1>1. /\ UNCHANGED <<request, jobImage, newHash, target>>
      /\ save[j] = "summary" /\ save' = [save EXCEPT ![j] = "unflag"]
  BY DEF UpdateImage, SaveStep
<1>2. target[j] \in ImageIds
  BY <1>1 DEF TargetInv, Chosen
<1>3. /\ \A i \in ImageIds \ {target[j]} : hash'[i] = hash[i]
      /\ hash'[target[j]] = IF newHash[j] = NoHash THEN hash[target[j]]
                                                  ELSE newHash[j]
  BY <1>2 DEF UpdateImage, TypeOK
<1>4. newHash[j] # Absent
  BY PipelineAssumption DEF TypeOK
<1>5. /\ hash[target[j]] # Absent
      /\ \/ newHash[j] = NoHash
         \/ newHash[j] = hash[target[j]]
         \/ hash[target[j]] = TmpHash
  BY <1>1 DEF HashInv, Undecided
<1>. QED BY <1>1, <1>2, <1>3, <1>4, <1>5

LEMMA SaveKeepsHash ==
  ASSUME TypeOK, DeliveryInv, TargetInv, HashInv, OneAtATime,
         NEW j \in Jobs, HandleSave(j)
  PROVE  HashInv'
<1>. USE DEF imageVars, requestVars, trawlerVars, txVars
<1>1. CASE InsertNewImage(j)
  BY <1>1, InsertKeepsHash
<1>2. CASE UpdateImage(j)
  <2>1. /\ UNCHANGED <<request, jobImage, newHash, target>>
        /\ save[j] = "summary" /\ save' = [save EXCEPT ![j] = "unflag"]
        /\ target[j] \in ImageIds
        /\ \A i \in ImageIds \ {target[j]} : hash'[i] = hash[i]
        /\ hash'[target[j]] # Absent
    BY <1>2, UpdateIs
  <2>2. \A k \in Jobs : request'[k] # "idle" => hash'[jobImage'[k]] # Absent
    BY <2>1 DEF HashInv, TargetInv
  <2>3. ASSUME NEW k \in Jobs, save'[k] \in Undecided
        PROVE  /\ save[k] \in Undecided
               /\ hash'[target'[k]] = hash[target[k]]
    <3>1. k # j /\ save[k] \in Undecided
      BY <2>1, <2>3 DEF TypeOK, Undecided
    <3>2. target[k] # target[j]
      BY <2>1, <3>1 DEF OneAtATime, Storing, Undecided
    <3>3. target[k] \in ImageIds
      BY <3>1 DEF TargetInv, Undecided, Chosen
    <3>. QED BY <2>1, <3>1, <3>2, <3>3
  <2>. QED BY <2>1, <2>2, <2>3 DEF HashInv
<1>3. CASE TargetIsJobImage(j) \/ FindByHash(j)
  <2>1. /\ UNCHANGED <<hash, request, jobImage, newHash>>
        /\ save[j] # "none"
        /\ \A k \in Jobs \ {j} : save'[k] = save[k] /\ target'[k] = target[k]
    BY <1>3 DEF TargetIsJobImage, FindByHash, SaveStep, TypeOK
  <2>2. save'[j] \in Undecided =>
          /\ hash[target'[j]] # Absent
          /\ \/ newHash[j] = NoHash
             \/ newHash[j] = hash[target'[j]]
             \/ hash[target'[j]] = TmpHash
    <3>1. CASE TargetIsJobImage(j)
      <4>1. request[j] # "idle"
        BY <2>1 DEF DeliveryInv
      <4>2. target'[j] = jobImage[j]
        BY <3>1 DEF TargetIsJobImage, TypeOK
      <4>. QED BY <3>1, <4>1, <4>2 DEF TargetIsJobImage, HashInv
    <3>2. CASE FindByHash(j)
      <4>1. newHash[j] # Absent
        BY PipelineAssumption DEF TypeOK
      <4>2. CASE WithHash(newHash[j]) = {}
        BY <3>2, <4>2 DEF FindByHash, SaveStep, TypeOK, Undecided
      <4>3. CASE WithHash(newHash[j]) # {}
        <5>1. hash[target'[j]] = newHash[j]
          BY <3>2, <4>3 DEF FindByHash, WithHash, TypeOK
        <5>. QED BY <4>1, <5>1
      <4>. QED BY <4>2, <4>3
    <3>. QED BY <1>3, <3>1, <3>2
  <2>. QED BY <2>1, <2>2 DEF HashInv
<1>4. CASE \/ TargetByHash(j) \/ CheckNewImage(j)
           \/ \E ok \in SUBSET Policies : Evaluate(j, ok)
           \/ AllSaved(j) \/ ClearQueued(j) \/ SaveFails(j)
  <2>1. UNCHANGED <<hash, request, jobImage, newHash, target>>
    BY <1>4 DEF TargetByHash, CheckNewImage, Evaluate, AllSaved, ClearQueued,
                SaveFails
  <2>2. \A k \in Jobs : save'[k] \in Undecided => save[k] \in Undecided
    BY <1>4 DEF TargetByHash, CheckNewImage, Evaluate, AllSaved, ClearQueued,
                SaveFails, SaveStep, TypeOK, Undecided
  <2>. QED BY <2>1, <2>2, ElsewhereKeepsHash
<1>. QED BY <1>1, <1>2, <1>3, <1>4 DEF HandleSave

LEMMA HashInvariance == Spec /\ []OneAtATime => []HashInv
<1>1. Init => HashInv
  <2>. SUFFICES ASSUME Init PROVE HashInv
    OBVIOUS
  <2>1. /\ request = [j \in Jobs |-> "idle"] /\ save = [j \in Jobs |-> "none"]
    BY DEF Init
  <2>. QED BY <2>1 DEF HashInv, Undecided
<1>2. TypeOK /\ DeliveryInv /\ TargetInv /\ HashInv /\ OneAtATime /\ [Next]_vars
        => HashInv'
  <2>. SUFFICES ASSUME TypeOK, DeliveryInv, TargetInv, HashInv, OneAtATime, [Next]_vars
                PROVE  HashInv'
    OBVIOUS
  <2>. USE DEF imageVars, requestVars, trawlerVars, txVars
  <2>1. CASE \E j \in Jobs, i \in ImageIds : RequestScan(j, i)
    BY <2>1 DEF RequestScan, HashInv, TypeOK
  <2>2. CASE \E j \in Jobs : HandleRequest(j)
    <3>1. \A j \in Jobs : request'[j] # "idle" => request[j] # "idle"
      BY <2>2 DEF HandleRequest, Publish, PublishFails, SetQueued, TypeOK
    <3>2. UNCHANGED <<hash, jobImage, target, save, newHash>>
      BY <2>2 DEF HandleRequest, Publish, PublishFails, SetQueued
    <3>. QED BY <3>1, <3>2, ElsewhereKeepsHash
  <2>3. CASE \E j \in Jobs : HandleSave(j)
    BY <2>3, SaveKeepsHash
  <2>4. CASE \E r \in Rows : HandleRow(r)
    <3>1. PICK r \in Rows : HandleRow(r)
      BY <2>4
    <3>2. UNCHANGED <<hash, request, jobImage, target, newHash>>
      BY <3>1 DEF HandleRow, ClearLatest, CommitRow, FailRow
    <3>3. \A j \in Jobs : save'[j] \in Undecided => save[j] \in Undecided
      BY <3>1 DEF HandleRow, ClearLatest, CommitRow, FailRow, Undecided, TypeOK, Rows
    <3>. QED BY <3>2, <3>3, ElsewhereKeepsHash
  <2>5. CASE \E w \in Trawlers, h \in Hashes \cup {NoHash} : PostResults(w, h)
    <3>1. PICK w \in Trawlers, h \in Hashes \cup {NoHash} : PostResults(w, h)
      BY <2>5
    <3>2. UNCHANGED <<hash, request, jobImage, target>>
      BY <3>1 DEF PostResults
    <3>3. \A j \in Jobs : save'[j] \in Undecided =>
            save[j] \in Undecided /\ newHash'[j] = newHash[j]
      BY <3>1 DEF PostResults, Undecided, TypeOK
    <3>. QED BY <3>2, <3>3, ElsewhereKeepsHash
  <2>6. CASE BackendCrash
    <3>1. UNCHANGED <<hash, jobImage, target, newHash>>
      BY <2>6 DEF BackendCrash
    <3>2. \A j \in Jobs : /\ request'[j] # "idle" => request[j] # "idle"
                          /\ save'[j] \notin Undecided
      BY <2>6 DEF BackendCrash, Undecided
    <3>. QED BY <3>1, <3>2, ElsewhereKeepsHash
  <2>7. CASE UNCHANGED <<hash, request, jobImage, newHash, save, target>>
    BY <2>7, ElsewhereKeepsHash
  <2>. QED
    BY <2>1, <2>2, <2>3, <2>4, <2>5, <2>6, <2>7 DEF Next, SetPolicyEnabled,
       Deliver, HandleDelivery, StartScan, DropJob, FinishDelivery,
       TrawlerCrash, vars
<1>. QED BY <1>1, <1>2, TypeCorrect, DeliveryInit, DeliveryStep, TargetInvariance,
        PTL DEF Spec

(* An image whose scans store their results one at a time keeps its real   *)
(* digest, whatever fails or crashes (saveImageScanResults chooses the     *)
(* image by the digest and updates it at the very end).                    *)
THEOREM OnlyOverlapChangesDigests == Spec /\ []OneAtATime => HashIsKept
<1>. DEFINE Kept == \A i \in ImageIds : hash[i] \in Hashes => hash'[i] = hash[i]
<1>1. TypeOK /\ TargetInv /\ HashInv /\ [Next]_vars => [Kept]_vars
  <2>. SUFFICES ASSUME TypeOK, TargetInv, HashInv, [Next]_vars
                PROVE  Kept
    OBVIOUS
  <2>. USE DEF imageVars, requestVars, trawlerVars, txVars
  <2>1. CASE \E j \in Jobs : InsertNewImage(j)
    BY <2>1, PipelineAssumption DEF InsertNewImage, WithHash, TypeOK
  <2>2. CASE \E j \in Jobs : UpdateImage(j)
    <3>1. PICK j \in Jobs : UpdateImage(j)
      BY <2>2
    <3>2. /\ \A i \in ImageIds \ {target[j]} : hash'[i] = hash[i]
          /\ hash'[target[j]] # hash[target[j]] => hash[target[j]] = TmpHash
      BY <3>1, UpdateIs
    <3>. QED BY <3>2, PipelineAssumption
  <2>3. CASE UNCHANGED hash
    BY <2>3
  <2>. QED
    BY <2>1, <2>2, <2>3 DEF Next, SetPolicyEnabled, RequestScan, HandleRequest,
       Publish, PublishFails, SetQueued, HandleSave, TargetIsJobImage,
       TargetByHash, FindByHash, CheckNewImage, Evaluate, AllSaved, ClearQueued,
       SaveFails, HandleRow, ClearLatest, CommitRow, FailRow, Deliver,
       HandleDelivery, StartScan, DropJob, PostResults, FinishDelivery,
       TrawlerCrash, BackendCrash, vars
<1>. QED BY <1>1, TypeCorrect, TargetInvariance, HashInvariance, PTL
        DEF Spec, HashIsKept

-----------------------------------------------------------------------------
(* One trawler that waits for the answer has one scan stored at a time: a  *)
(* save is in progress only for the job in the trawler's callback, and the *)
(* rows are all stored before it goes on.                                  *)
SerialInv(w) ==
  /\ \A j \in Jobs : save[j] \notin {"none", "done", "failed"} => scanning[w] = j
  /\ \A r \in Rows : tx[r] \in {"pending", "open"} => save[r[1]] = "writing"

LEMMA SerialSaves ==
  ASSUME NEW w, TypeOK, SerialInv(w)
  PROVE  OneAtATime
<1>1. ASSUME NEW j \in Jobs, Storing(j)
      PROVE  scanning[w] = j
  <2>1. save[j] \notin {"none", "done", "failed"}
    <3>1. CASE save[j] \in {"evaluate", "writing", "summary"}
      BY <3>1
    <3>2. CASE \E p \in Policies : tx[<<j, p>>] \in {"pending", "open"}
      <4>1. PICK p \in Policies : tx[<<j, p>>] \in {"pending", "open"}
        BY <3>2
      <4>2. <<j, p>> \in Rows /\ <<j, p>>[1] = j
        BY DEF Rows
      <4>. QED BY <4>1, <4>2 DEF SerialInv
    <3>. QED BY <1>1, <3>1, <3>2 DEF Storing
  <2>. QED BY <2>1 DEF SerialInv
<1>. QED BY <1>1 DEF OneAtATime

LEMMA SaveKeepsSerial ==
  ASSUME NEW w \in Trawlers, ~Faults, TypeOK, RowsFollowSave, SerialInv(w),
         NEW j \in Jobs, HandleSave(j)
  PROVE  SerialInv(w)'
<1>. USE DEF imageVars, requestVars, trawlerVars, txVars
<1>1. ~SaveFails(j)
  BY DEF SaveFails
<1>2. /\ UNCHANGED scanning
      /\ save[j] \notin {"none", "done", "failed"}
      /\ \A k \in Jobs \ {j} : save'[k] = save[k]
  BY <1>1 DEF HandleSave, TargetIsJobImage, TargetByHash, FindByHash, CheckNewImage,
         InsertNewImage, Evaluate, AllSaved, UpdateImage, ClearQueued, SaveStep, TypeOK
<1>3. \A k \in Jobs : save'[k] \notin {"none", "done", "failed"} => scanning'[w] = k
  BY <1>2 DEF SerialInv
<1>4. ASSUME NEW r \in Rows, tx'[r] \in {"pending", "open"}
      PROVE  save'[r[1]] = "writing"
  <2>1. r[1] \in Jobs /\ r[2] \in Policies /\ r = <<r[1], r[2]>>
    BY DEF Rows
  <2>2. CASE \E ok \in SUBSET Policies : Evaluate(j, ok)
    <3>1. /\ SaveStep(j, "evaluate", "writing")
          /\ tx'[r] = tx[r] \/ r[1] = j
      BY <2>2 DEF Evaluate
    <3>. QED BY <1>2, <1>4, <2>1, <3>1 DEF SaveStep, SerialInv, TypeOK
  <2>3. CASE AllSaved(j)
    <3>1. /\ UNCHANGED tx
          /\ \A p \in policies[j] : tx[<<j, p>>] = "done"
      BY <2>3 DEF AllSaved
    <3>2. r[1] # j
      BY <1>4, <2>1, <3>1 DEF RowsFollowSave
    <3>. QED BY <1>2, <1>4, <2>1, <3>1, <3>2 DEF SerialInv
  <2>4. CASE ~AllSaved(j) /\ ~\E ok \in SUBSET Policies : Evaluate(j, ok)
    <3>1. UNCHANGED tx /\ save[j] # "writing"
      BY <1>1, <2>4 DEF HandleSave, TargetIsJobImage, TargetByHash, FindByHash,
         CheckNewImage, InsertNewImage, UpdateImage, ClearQueued, SaveStep
    <3>. QED BY <1>2, <1>4, <2>1, <3>1 DEF SerialInv
  <2>. QED BY <2>2, <2>3, <2>4
<1>. QED BY <1>3, <1>4 DEF SerialInv

LEMMA SerialInvariance ==
  ASSUME NEW w, Trawlers = {w}, ~SlowClient, ~Faults
  PROVE  Spec => []SerialInv(w)
<1>1. Init => SerialInv(w)
  BY DEF Init, SerialInv
<1>2. TypeOK /\ RowsFollowSave /\ SerialInv(w) /\ [Next]_vars => SerialInv(w)'
  <2>. SUFFICES ASSUME TypeOK, RowsFollowSave, SerialInv(w), [Next]_vars
                PROVE  SerialInv(w)'
    OBVIOUS
  <2>. USE DEF imageVars, requestVars, trawlerVars, txVars
  <2>0. /\ ~BackendCrash
        /\ \A v \in Trawlers : ~TrawlerCrash(v)
        /\ \A r \in Rows : ~FailRow(r)
    BY DEF BackendCrash, TrawlerCrash, FailRow
  <2>1. CASE \E j \in Jobs : HandleSave(j)
    BY <2>1, SaveKeepsSerial
  <2>2. CASE \E r \in Rows : HandleRow(r)
    <3>1. PICK r \in Rows : HandleRow(r)
      BY <2>2
    <3>2. /\ UNCHANGED <<save, scanning>>
          /\ \A q \in Rows : tx'[q] \in {"pending", "open"} => tx[q] \in {"pending", "open"}
      BY <2>0, <3>1 DEF HandleRow, ClearLatest, CommitRow, TypeOK
    <3>. QED BY <3>2 DEF SerialInv
  <2>3. CASE StartScan(w)
    <3>1. /\ UNCHANGED <<save, tx>> /\ scanning[w] = Idle
      BY <2>3 DEF StartScan
    <3>. QED BY <3>1, IdleAssumption DEF SerialInv
  <2>4. CASE \E h \in Hashes \cup {NoHash} : PostResults(w, h)
    <3>1. PICK h \in Hashes \cup {NoHash} : PostResults(w, h)
      BY <2>4
    <3>2. /\ UNCHANGED <<tx, scanning>> /\ save[scanning[w]] = "none"
          /\ \A k \in Jobs : save'[k] = IF k = scanning[w] THEN "lookup" ELSE save[k]
      BY <3>1 DEF PostResults, TypeOK
    <3>. QED BY <3>2 DEF SerialInv, Rows
  <2>5. CASE FinishDelivery(w)
    <3>1. UNCHANGED <<save, tx>> /\ save[scanning[w]] \in {"done", "failed"}
      BY <2>5 DEF FinishDelivery
    <3>. QED BY <3>1 DEF SerialInv
  <2>6. CASE UNCHANGED <<scanning, save, tx>>
    BY <2>6 DEF SerialInv
  <2>. QED
    BY <2>0, <2>1, <2>2, <2>3, <2>4, <2>5, <2>6 DEF Next, SetPolicyEnabled,
       RequestScan, HandleRequest, Publish, PublishFails, SetQueued, Deliver,
       HandleDelivery, DropJob, vars
<1>3. VerdictInv => RowsFollowSave
  BY DEF VerdictInv
<1>. QED BY <1>1, <1>2, <1>3, TypeCorrect, DeliveryInit, DeliveryStep,
        VerdictInit, VerdictStep, PTL DEF Spec

LEMMA SerialScans ==
  ASSUME NEW w, Trawlers = {w}, ~SlowClient, ~Faults
  PROVE  Spec => []OneAtATime
<1>1. TypeOK /\ SerialInv(w) => OneAtATime
  BY SerialSaves
<1>. QED BY <1>1, SerialInvariance, TypeCorrect, PTL

(* With one trawler, no call given up and nothing failing, an image never  *)
(* shows two latest rows for one policy, for any jobs, images, policies    *)
(* and policy changes.                                                     *)
THEOREM SerialScansAreUnique ==
  ASSUME NEW w, Trawlers = {w}, ~SlowClient, ~Faults
  PROVE  Spec => []LatestIsUnique
BY SerialScans, OnlyOverlapDuplicates, PTL

(* ... and an image with a real digest keeps it.                           *)
THEOREM SerialScansKeepDigests ==
  ASSUME NEW w, Trawlers = {w}, ~SlowClient, ~Faults
  PROVE  Spec => HashIsKept
BY SerialScans, OnlyOverlapChangesDigests, PTL

-----------------------------------------------------------------------------
(* The refinement.  What the abstract queue knows of one job               *)
Unsent == {"idle", "sending", "refused"}
Busy(j) == \E w \in Trawlers : scanning[w] = j
Phase(s) == IF s \in {"unflag", "done"} THEN "recorded"
            ELSE IF s \in {"none", "failed"} THEN s ELSE "saving"

State(j) ==
  IF request[j] \in Unsent THEN "unsent"
  ELSE IF j \in Waiting THEN "waiting"
  ELSE IF Phase(save[j]) \in {"recorded", "saving"} THEN Phase(save[j])
  ELSE IF save[j] = "none" /\ Busy(j) THEN "scanning" ELSE "lost"

LEMMA StateIs == JobState = [j \in Jobs |-> State(j)]
BY DEF JobState, State, Phase, Unsent, Busy

LEMMA StateIsNext == JobState' = [j \in Jobs |-> State(j)']
BY DEF JobState, State, Phase, Unsent, Busy

LEMMA AdvanceIs ==
  ASSUME NEW j \in Jobs, NEW from, NEW to, State(j) = from, State(j)' = to,
         \A k \in Jobs \ {j} : State(k)' = State(k)
  PROVE  AbstractJobs!Advance(j, from, to)
BY StateIs, StateIsNext DEF AbstractJobs!Advance

Losable == {"waiting", "scanning", "saving"}

LEMMA LoseIs ==
  ASSUME \A k \in Jobs : \/ State(k)' = State(k)
                         \/ State(k)' = "lost" /\ State(k) \in Losable,
         UNCHANGED scanResults
  PROVE  AbstractJobs!JobNext
<1>. DEFINE S == {k \in Jobs : State(k)' # State(k)}
<1>1. Scanned' = Scanned
  BY DEF Scanned
<1>2. \A k \in S : JobState[k] \in Losable
  BY StateIs
<1>3. JobState' = [k \in Jobs |-> IF k \in S THEN "lost" ELSE JobState[k]]
  BY StateIs, StateIsNext
<1>4. AbstractJobs!Lose(S)
  BY <1>1, <1>2, <1>3 DEF AbstractJobs!Lose, Losable
<1>. QED BY <1>4 DEF AbstractJobs!JobNext

(* A step that publishes, takes, posts and records nothing may lose jobs.  *)
LEMMA OnlyLoses ==
  ASSUME TypeOK, DeliveryInv, UNCHANGED scanResults,
         \A k \in Jobs : request'[k] \in Unsent <=> request[k] \in Unsent,
         Waiting' \subseteq Waiting,
         \A k \in Jobs : \/ Phase(save'[k]) = Phase(save[k])
                         \/ save'[k] = "failed" /\ Phase(save[k]) = "saving",
         \A k \in Jobs : Busy(k)' => Busy(k)
  PROVE  AbstractJobs!JobNext
<1>1. ASSUME NEW k \in Jobs
      PROVE  \/ State(k)' = State(k)
             \/ State(k)' = "lost" /\ State(k) \in Losable
  <2>1. CASE request[k] \in Unsent
    BY <2>1 DEF State
  <2>2. CASE request[k] \notin Unsent /\ k \in Waiting
    <3>1. save[k] = "none" /\ ~Busy(k)
      BY <2>2 DEF DeliveryInv, OneDelivery, Busy
    <3>. QED BY <2>2, <3>1 DEF State, Losable, Phase
  <2>3. CASE request[k] \notin Unsent /\ k \notin Waiting
    BY <2>3 DEF State, Losable, Phase
  <2>. QED BY <2>1, <2>2, <2>3
<1>. QED BY <1>1, LoseIs

(* Requests: only a publication tells the queue anything.                  *)
LEMMA RequestImplements ==
  ASSUME TypeOK, DeliveryInv, NEW j \in Jobs,
         HandleRequest(j) \/ \E i \in ImageIds : RequestScan(j, i)
  PROVE  AbstractJobs!JobNext
<1>. USE DEF imageVars, requestVars, trawlerVars, txVars
<1>1. CASE Publish(j)
  <2>1. /\ broker \in Seq(Jobs) /\ broker' = Append(broker, j)
        /\ UNCHANGED <<inbox, scanning, save, scanResults>>
        /\ request[j] = "sending"
        /\ \A k \in Jobs : request'[k] = IF k = j THEN "flagging" ELSE request[k]
    BY <1>1 DEF TypeOK, Publish
  <2>2. Waiting' = Waiting \cup {j}
    BY <2>1, AppendHolds DEF Waiting
  <2>3. \A k \in Jobs : Busy(k)' <=> Busy(k)
    BY <2>1 DEF Busy
  <2>4. State(j) = "unsent" /\ State(j)' = "waiting"
    BY <2>1, <2>2 DEF State, Unsent
  <2>5. \A k \in Jobs \ {j} : State(k)' = State(k)
    BY <2>1, <2>2, <2>3 DEF State
  <2>6. AbstractJobs!Accept(j)
    BY <2>1, <2>4, <2>5, AdvanceIs DEF AbstractJobs!Accept, Scanned
  <2>. QED BY <2>6 DEF AbstractJobs!JobNext
<1>2. CASE PublishFails(j) \/ SetQueued(j) \/ \E i \in ImageIds : RequestScan(j, i)
  <2>1. UNCHANGED <<broker, inbox, scanning, save, scanResults>>
    BY <1>2 DEF PublishFails, SetQueued, RequestScan
  <2>2. \A k \in Jobs : request'[k] \in Unsent <=> request[k] \in Unsent
    BY <1>2 DEF PublishFails, SetQueued, RequestScan, TypeOK, Unsent
  <2>3. Waiting' = Waiting /\ \A k \in Jobs : Busy(k)' <=> Busy(k)
    BY <2>1 DEF Waiting, Busy
  <2>. QED BY <2>1, <2>2, <2>3, OnlyLoses
<1>. QED BY <1>1, <1>2 DEF HandleRequest

(* Trawlers: a job is taken, posted or lost.                               *)
LEMMA TrawlerImplements ==
  ASSUME TypeOK, DeliveryInv, NEW w \in Trawlers,
         Deliver(w) \/ HandleDelivery(w) \/ TrawlerCrash(w)
  PROVE  AbstractJobs!JobNext
<1>. USE DEF imageVars, requestVars, trawlerVars, txVars
<1>1. \A v \in Trawlers : scanning[v] \in Jobs \cup {Idle}
  BY DEF TypeOK
<1>2. CASE StartScan(w)
  <2>1. /\ inbox[w] \in Seq(Jobs) /\ inbox[w] # <<>>
        /\ inbox' = [inbox EXCEPT ![w] = Tail(@)]
        /\ UNCHANGED <<broker, request, save, scanResults>>
        /\ scanning[w] = Idle
        /\ scanning' = [scanning EXCEPT ![w] = Head(inbox[w])]
    BY <1>2 DEF StartScan, TypeOK
  <2>2. PICK j \in Jobs : j = Head(inbox[w])
    BY <2>1, TailHolds
  <2>3. j \in Waiting /\ Waiting' = Waiting \ {j}
    BY <2>1, <2>2, TakeHolds
  <2>4. \A v \in Trawlers : scanning'[v] = IF v = w THEN j ELSE scanning[v]
    BY <2>1, <2>2 DEF TypeOK
  <2>5. Busy(j)' /\ \A k \in Jobs \ {j} : Busy(k)' <=> Busy(k)
    BY <2>1, <2>4, IdleAssumption DEF Busy
  <2>6. request[j] \notin Unsent /\ save[j] = "none"
    BY <2>3 DEF DeliveryInv, OneDelivery, Unsent
  <2>7. State(j) = "waiting" /\ State(j)' = "scanning"
    BY <2>1, <2>3, <2>5, <2>6 DEF State, Phase
  <2>8. \A k \in Jobs \ {j} : State(k)' = State(k)
    BY <2>1, <2>3, <2>5 DEF State
  <2>9. AbstractJobs!Take(j)
    BY <2>1, <2>7, <2>8, AdvanceIs DEF AbstractJobs!Take, Scanned
  <2>. QED BY <2>9 DEF AbstractJobs!JobNext
<1>3. ASSUME NEW h \in Hashes \cup {NoHash}, PostResults(w, h)
      PROVE  AbstractJobs!JobNext
  <2>1. PICK k \in Jobs : k = scanning[w]
    BY <1>1, <1>3 DEF PostResults
  <2>2. /\ UNCHANGED <<broker, inbox, scanning, request, scanResults>>
        /\ save[k] = "none"
        /\ \A l \in Jobs : save'[l] = IF l = k THEN "lookup" ELSE save[l]
    BY <1>3, <2>1 DEF PostResults, TypeOK
  <2>3. Waiting' = Waiting /\ \A l \in Jobs : Busy(l)' <=> Busy(l)
    BY <2>2 DEF Waiting, Busy
  <2>4. k \notin Waiting /\ request[k] \notin Unsent /\ Busy(k)
    BY <2>1, IdleAssumption DEF DeliveryInv, OneDelivery, Unsent, Busy
  <2>5. State(k) = "scanning" /\ State(k)' = "saving"
    BY <2>2, <2>3, <2>4 DEF State, Phase
  <2>6. \A l \in Jobs \ {k} : State(l)' = State(l)
    BY <2>2, <2>3 DEF State
  <2>7. AbstractJobs!Post(k)
    BY <2>2, <2>5, <2>6, AdvanceIs DEF AbstractJobs!Post, Scanned
  <2>. QED BY <2>7 DEF AbstractJobs!JobNext
<1>4. CASE Deliver(w)
  <2>1. /\ broker \in Seq(Jobs) /\ broker # <<>> /\ broker' = Tail(broker)
        /\ inbox[w] \in Seq(Jobs)
        /\ \A v \in Trawlers : inbox'[v] = IF v = w THEN Append(inbox[w], Head(broker))
                                                    ELSE inbox[v]
        /\ UNCHANGED <<scanning, save, request, scanResults>>
    BY <1>4 DEF TypeOK, Deliver
  <2>2. /\ Head(broker) \in Jobs
        /\ Range(broker) = {Head(broker)} \cup Range(broker')
        /\ Range(inbox'[w]) = Range(inbox[w]) \cup {Head(broker)}
    BY <2>1, TailHolds, AppendHolds
  <2>3. Waiting' \subseteq Waiting
    BY <2>1, <2>2 DEF Waiting
  <2>4. \A k \in Jobs : Busy(k)' <=> Busy(k)
    BY <2>1 DEF Busy
  <2>. QED BY <2>1, <2>3, <2>4, OnlyLoses
<1>5. CASE DropJob(w)
  <2>1. /\ inbox[w] # <<>> /\ inbox' = [inbox EXCEPT ![w] = Tail(@)]
        /\ UNCHANGED <<broker, request, save, scanning, scanResults>>
    BY <1>5 DEF DropJob
  <2>2. Waiting' \subseteq Waiting
    BY <2>1, TakeHolds
  <2>3. \A k \in Jobs : Busy(k)' <=> Busy(k)
    BY <2>1 DEF Busy
  <2>. QED BY <2>1, <2>2, <2>3, OnlyLoses
<1>6. CASE FinishDelivery(w) \/ TrawlerCrash(w)
  <2>1. /\ UNCHANGED <<broker, request, save, scanResults>>
        /\ \A v \in Trawlers : /\ scanning'[v] \in {scanning[v], Idle}
                               /\ inbox'[v] \in {inbox[v], <<>>}
    BY <1>6 DEF FinishDelivery, TrawlerCrash, TypeOK
  <2>2. Waiting' \subseteq Waiting
    <3>1. Range(<<>>) = {}
      BY DEF Range
    <3>. QED BY <2>1, <3>1 DEF Waiting
  <2>3. \A k \in Jobs : Busy(k)' => Busy(k)
    BY <2>1, IdleAssumption DEF Busy
  <2>. QED BY <2>1, <2>2, <2>3, OnlyLoses
<1>. QED BY <1>2, <1>3, <1>4, <1>5, <1>6 DEF HandleDelivery

(* Saves: the update of the image records the job, the rest may fail.      *)
LEMMA SaveImplements ==
  ASSUME TypeOK, DeliveryInv, TargetInv, NEW j \in Jobs, HandleSave(j)
  PROVE  AbstractJobs!JobNext
<1>. USE DEF imageVars, requestVars, trawlerVars, txVars
<1>1. UNCHANGED <<broker, inbox, scanning, request>>
  BY DEF HandleSave, TargetIsJobImage, TargetByHash, FindByHash, CheckNewImage,
         InsertNewImage, Evaluate, AllSaved, UpdateImage, ClearQueued, SaveFails
<1>2. Waiting' = Waiting /\ \A k \in Jobs : Busy(k)' <=> Busy(k)
  BY <1>1 DEF Waiting, Busy
<1>3. CASE UpdateImage(j)
  <2>1. /\ save[j] = "summary"
        /\ \A k \in Jobs : save'[k] = IF k = j THEN "unflag" ELSE save[k]
        /\ target[j] \in ImageIds
        /\ scanResults'[target[j]] # "Unscanned"
        /\ \A i \in ImageIds \ {target[j]} : scanResults'[i] = scanResults[i]
    BY <1>3 DEF UpdateImage, SaveStep, TypeOK, TargetInv, Chosen
  <2>2. j \notin Waiting /\ request[j] \notin Unsent
    BY <2>1 DEF DeliveryInv, OneDelivery, Unsent
  <2>3. State(j) = "saving" /\ State(j)' = "recorded"
    BY <1>1, <1>2, <2>1, <2>2 DEF State, Phase
  <2>4. \A k \in Jobs \ {j} : State(k)' = State(k)
    BY <1>1, <1>2, <2>1 DEF State
  <2>5. Scanned' = Scanned \cup {target[j]}
    BY <2>1 DEF Scanned
  <2>6. AbstractJobs!Record(j, target[j])
    BY <2>3, <2>4, <2>5, AdvanceIs DEF AbstractJobs!Record
  <2>. QED BY <2>1, <2>6 DEF AbstractJobs!JobNext
<1>4. CASE ~UpdateImage(j)
  <2>1. UNCHANGED scanResults
    BY <1>4 DEF HandleSave, TargetIsJobImage, TargetByHash, FindByHash,
       CheckNewImage, InsertNewImage, Evaluate, AllSaved, ClearQueued, SaveFails
  <2>2. /\ \A k \in Jobs \ {j} : save'[k] = save[k]
        /\ \/ Phase(save'[j]) = Phase(save[j])
           \/ save'[j] = "failed" /\ Phase(save[j]) = "saving"
    BY <1>4 DEF HandleSave, TargetIsJobImage, TargetByHash, FindByHash,
       CheckNewImage, InsertNewImage, Evaluate, AllSaved, ClearQueued,
       SaveFails, SaveStep, TypeOK, Phase
  <2>. QED BY <1>1, <1>2, <2>1, <2>2, OnlyLoses
<1>. QED BY <1>3, <1>4

LEMMA RowImplements ==
  ASSUME TypeOK, DeliveryInv, VerdictInv, NEW r \in Rows, HandleRow(r)
  PROVE  AbstractJobs!JobNext
<1>. USE DEF imageVars, requestVars, trawlerVars
<1>1. PICK j \in Jobs, p \in Policies : r = <<j, p>> /\ r[1] = j
  BY DEF Rows
<1>2. /\ UNCHANGED <<broker, inbox, scanning, request, scanResults>>
      /\ tx[r] \in {"pending", "open"} \/ (tx[r] = "done" /\ save[j] = "writing")
      /\ UNCHANGED save \/ save' = [save EXCEPT ![j] = "failed"]
  <2>1. CASE FailRow(r)
    BY <1>1, <2>1 DEF FailRow
  <2>2. CASE ~FailRow(r)
    BY <2>2 DEF HandleRow, ClearLatest, CommitRow
  <2>. QED BY <2>1, <2>2
<1>3. save[j] \notin {"none", "summary", "unflag", "done"}
  BY <1>1, <1>2 DEF DeliveryInv, VerdictInv, RowsFollowSave
<1>4. \A k \in Jobs : \/ Phase(save'[k]) = Phase(save[k])
                      \/ save'[k] = "failed" /\ Phase(save[k]) = "saving"
  BY <1>2, <1>3 DEF TypeOK, Phase
<1>5. Waiting' = Waiting /\ \A k \in Jobs : Busy(k)' <=> Busy(k)
  BY <1>2 DEF Waiting, Busy
<1>. QED BY <1>2, <1>4, <1>5, OnlyLoses

(* The pipeline implements the at-most-once queue, for any number of jobs, *)
(* images, policies and trawlers, and whatever crashes, times out or fails.*)
THEOREM PipelineImplementsJobs == Spec => ImplementsScanJobs
<1>1. Init => AbstractJobs!JobInit
  <2>. SUFFICES ASSUME Init PROVE AbstractJobs!JobInit
    OBVIOUS
  <2>1. \A j \in Jobs : State(j) = "unsent"
    BY DEF Init, State, Unsent
  <2>2. Scanned = {}
    BY DEF Init, Scanned
  <2>. QED BY <2>1, <2>2, StateIs DEF AbstractJobs!JobInit
<1>2. TypeOK /\ DeliveryInv /\ VerdictInv /\ TargetInv /\ [Next]_vars
        => [AbstractJobs!JobNext]_(AbstractJobs!jobVars)
  <2>. SUFFICES ASSUME TypeOK, DeliveryInv, VerdictInv, TargetInv, [Next]_vars
       PROVE  AbstractJobs!JobNext \/ UNCHANGED AbstractJobs!jobVars
    OBVIOUS
  <2>. USE DEF imageVars, requestVars, trawlerVars, txVars
  <2>1. CASE \/ \E j \in Jobs : HandleRequest(j)
             \/ \E j \in Jobs : \E i \in ImageIds : RequestScan(j, i)
    BY <2>1, RequestImplements
  <2>2. CASE \E j \in Jobs : HandleSave(j)
    BY <2>2, SaveImplements
  <2>3. CASE \E r \in Rows : HandleRow(r)
    BY <2>3, RowImplements
  <2>4. CASE \E w \in Trawlers : Deliver(w) \/ HandleDelivery(w) \/ TrawlerCrash(w)
    BY <2>4, TrawlerImplements
  <2>5. CASE BackendCrash
    <3>1. /\ UNCHANGED <<broker, inbox, scanning, scanResults>>
          /\ \A k \in Jobs : request'[k] \in Unsent <=> request[k] \in Unsent
          /\ \A k \in Jobs : \/ Phase(save'[k]) = Phase(save[k])
                             \/ save'[k] = "failed" /\ Phase(save[k]) = "saving"
      BY <2>5 DEF BackendCrash, Unsent, Phase
    <3>2. Waiting' = Waiting /\ \A k \in Jobs : Busy(k)' <=> Busy(k)
      BY <3>1 DEF Waiting, Busy
    <3>. QED BY <3>1, <3>2, OnlyLoses
  <2>6. CASE UNCHANGED vars \/ \E p \in Policies : SetPolicyEnabled(p)
    <3>1. UNCHANGED <<broker, inbox, scanning, request, save, scanResults>>
      BY <2>6 DEF vars, SetPolicyEnabled
    <3>2. Waiting' = Waiting /\ \A k \in Jobs : Busy(k)' <=> Busy(k)
      BY <3>1 DEF Waiting, Busy
    <3>. QED BY <3>1, <3>2, OnlyLoses
  <2>. QED BY <2>1, <2>2, <2>3, <2>4, <2>5, <2>6 DEF Next
<1>. QED
  BY <1>1, <1>2, TypeCorrect, DeliveryInit, DeliveryStep, VerdictInit,
     VerdictStep, TargetInvariance, PTL
  DEF Spec, ImplementsScanJobs, AbstractJobs!JobSpec

-----------------------------------------------------------------------------
(* The safety half of JobsAreSaved *)

(* No accepted job has left the broker and the trawlers without a save     *)
(* that goes on or has recorded it.                                        *)
NoJobIsLost == \A j \in Jobs : JobState[j] # "lost"

(* While a save that found no row with the posted digest is about to       *)
(* create one, no other save or scan gives that digest to a row: the only  *)
(* way createImage can find the image it was told is not there.            *)
NoInsertRace ==
  \A j \in Jobs : save[j] = "check" => WithHash(newHash[j]) = {}

KeptInv ==
  /\ \A j \in Jobs : save[j] # "failed"
  /\ \A j \in Jobs : request[j] \notin Unsent /\ save[j] = "none"
       => j \in Waiting \/ Busy(j)

LEMMA KeptIsNotLost == KeptInv => NoJobIsLost
BY StateIs DEF KeptInv, NoJobIsLost, State, Phase

LEMMA ElsewhereKeepsJobs ==
  ASSUME KeptInv, UNCHANGED <<request, broker, inbox, scanning, save>>
  PROVE  KeptInv'
BY DEF KeptInv, Waiting, Busy

(* The saves: nothing fails, and the image to create is not there.         *)
LEMMA SaveKeepsJobs ==
  ASSUME ~Faults, NoInsertRace, TypeOK, KeptInv, NEW j \in Jobs, HandleSave(j)
  PROVE  KeptInv'
<1>. USE DEF imageVars, requestVars, trawlerVars, txVars
<1>1. ~SaveFails(j)
  BY DEF SaveFails
<1>2. UNCHANGED <<request, broker, inbox, scanning>>
  BY <1>1 DEF HandleSave, TargetIsJobImage, TargetByHash, FindByHash, CheckNewImage,
         InsertNewImage, Evaluate, AllSaved, UpdateImage, ClearQueued
<1>3. save'[j] \notin {"none", "failed"} /\ \A k \in Jobs \ {j} : save'[k] = save[k]
  <2>1. CASE CheckNewImage(j)
    BY <2>1 DEF CheckNewImage, SaveStep, NoInsertRace, TypeOK
  <2>2. CASE ~CheckNewImage(j)
    BY <1>1, <2>2 DEF HandleSave, TargetIsJobImage, TargetByHash, FindByHash,
       InsertNewImage, Evaluate, AllSaved, UpdateImage, ClearQueued, SaveStep, TypeOK
  <2>. QED BY <2>1, <2>2
<1>. QED BY <1>2, <1>3 DEF KeptInv, Waiting, Busy

(* The trawlers: a job goes from the broker to the callback and on.        *)
LEMMA TrawlerKeepsJobs ==
  ASSUME ~Faults, enabled # {}, TypeOK, KeptInv, NEW w \in Trawlers,
         Deliver(w) \/ HandleDelivery(w)
  PROVE  KeptInv'
<1>. USE DEF imageVars, requestVars, trawlerVars, txVars
<1>1. CASE Deliver(w)
  <2>1. /\ broker \in Seq(Jobs) /\ broker # <<>> /\ broker' = Tail(broker)
        /\ inbox[w] \in Seq(Jobs)
        /\ \A v \in Trawlers : inbox'[v] = IF v = w THEN Append(inbox[w], Head(broker))
                                                    ELSE inbox[v]
        /\ UNCHANGED <<scanning, save, request>>
    BY <1>1 DEF TypeOK, Deliver
  <2>2. /\ Range(broker) = {Head(broker)} \cup Range(broker')
        /\ Range(inbox'[w]) = Range(inbox[w]) \cup {Head(broker)}
    BY <2>1, TailHolds, AppendHolds
  <2>3. Waiting \subseteq Waiting'
    BY <2>1, <2>2 DEF Waiting
  <2>. QED BY <2>1, <2>3 DEF KeptInv, Busy
<1>2. CASE StartScan(w)
  <2>1. /\ inbox[w] \in Seq(Jobs) /\ inbox[w] # <<>>
        /\ \A v \in Trawlers : inbox'[v] = IF v = w THEN Tail(inbox[w]) ELSE inbox[v]
        /\ UNCHANGED <<broker, request, save>>
        /\ scanning[w] = Idle
        /\ \A v \in Trawlers : scanning'[v] = IF v = w THEN Head(inbox[w])
                                                       ELSE scanning[v]
    BY <1>2 DEF StartScan, TypeOK
  <2>2. PICK j \in Jobs : j = Head(inbox[w])
    BY <2>1, TailHolds
  <2>3. Range(inbox[w]) = {j} \cup Range(Tail(inbox[w]))
    BY <2>1, <2>2, TailHolds
  <2>4. \A k \in Waiting : k \in Waiting' \/ k = j
    BY <2>1, <2>3 DEF Waiting
  <2>5. Busy(j)' /\ \A k \in Jobs : Busy(k) => Busy(k)'
    BY <2>1, <2>2, IdleAssumption DEF Busy
  <2>. QED BY <2>1, <2>4, <2>5 DEF KeptInv
<1>3. ASSUME NEW h \in Hashes \cup {NoHash}, PostResults(w, h) PROVE KeptInv'
  <2>1. /\ UNCHANGED <<broker, inbox, scanning, request>>
        /\ \A l \in Jobs : save'[l] \in {save[l], "lookup"}
    BY <1>3 DEF PostResults, TypeOK
  <2>. QED BY <2>1 DEF KeptInv, Waiting, Busy
<1>4. CASE FinishDelivery(w)
  <2>1. /\ UNCHANGED <<broker, inbox, request, save>>
        /\ save[scanning[w]] # "none"
        /\ \A v \in Trawlers \ {w} : scanning'[v] = scanning[v]
    BY <1>4 DEF FinishDelivery, TypeOK
  <2>2. \A k \in Jobs : save[k] = "none" /\ Busy(k) => Busy(k)'
    BY <2>1 DEF Busy
  <2>. QED BY <2>1, <2>2 DEF KeptInv, Waiting
<1>. QED BY <1>1, <1>2, <1>3, <1>4 DEF HandleDelivery, DropJob

LEMMA KeptStep ==
  ASSUME ~Faults, enabled # {}, NoInsertRace, TypeOK, KeptInv, [Next]_vars
  PROVE  KeptInv'
<1>. USE DEF imageVars, requestVars, trawlerVars, txVars
<1>1. ASSUME NEW j \in Jobs, HandleRequest(j) PROVE KeptInv'
  <2>1. CASE Publish(j)
    <3>1. /\ broker \in Seq(Jobs) /\ broker' = Append(broker, j)
          /\ UNCHANGED <<inbox, scanning, save>>
          /\ \A k \in Jobs : request'[k] = IF k = j THEN "flagging" ELSE request[k]
      BY <2>1 DEF TypeOK, Publish
    <3>2. Waiting' = Waiting \cup {j}
      BY <3>1, AppendHolds DEF Waiting
    <3>. QED BY <3>1, <3>2 DEF KeptInv, Busy
  <2>2. CASE SetQueued(j)
    <3>1. /\ UNCHANGED <<broker, inbox, scanning, save>>
          /\ \A k \in Jobs : request'[k] \notin Unsent => request[k] \notin Unsent
      BY <2>2 DEF TypeOK, SetQueued, Unsent
    <3>. QED BY <3>1 DEF KeptInv, Waiting, Busy
  <2>. QED BY <1>1, <2>1, <2>2 DEF HandleRequest, PublishFails
<1>2. ASSUME NEW j \in Jobs, NEW i \in ImageIds, RequestScan(j, i) PROVE KeptInv'
  <2>1. /\ UNCHANGED <<broker, inbox, scanning, save>>
        /\ \A k \in Jobs : request'[k] \notin Unsent => request[k] \notin Unsent
    BY <1>2 DEF TypeOK, RequestScan, Unsent
  <2>. QED BY <2>1 DEF KeptInv, Waiting, Busy
<1>3. CASE UNCHANGED <<request, broker, inbox, scanning, save>>
  BY <1>3, ElsewhereKeepsJobs
<1>. QED
  BY <1>1, <1>2, <1>3, SaveKeepsJobs, TrawlerKeepsJobs DEF Next, HandleRow,
     SetPolicyEnabled, ClearLatest, CommitRow, FailRow, TrawlerCrash,
     BackendCrash, vars

(* Without failures, and while the cluster has an enabled policy, the only *)
(* thing that costs an accepted job its results is another save that       *)
(* creates the image between the lookup and createImage, for any trawlers, *)
(* timeouts of their calls, jobs, images and policy changes.               *)
THEOREM OnlyInsertRacesLoseJobs ==
  ASSUME ~Faults
  PROVE  Spec /\ [](enabled # {}) /\ []NoInsertRace => []NoJobIsLost
<1>1. Init => KeptInv
  BY DEF Init, KeptInv, Unsent
<1>2. enabled # {} /\ NoInsertRace /\ TypeOK /\ KeptInv /\ [Next]_vars => KeptInv'
  BY KeptStep
<1>. QED BY <1>1, <1>2, KeptIsNotLost, TypeCorrect, PTL DEF Spec

(* With one trawler that waits for the answers no row changes between the  *)
(* lookup by digest and createImage.                                       *)
LEMMA SerialInserts ==
  ASSUME NEW w, Trawlers = {w}, ~SlowClient, ~Faults
  PROVE  Spec => []NoInsertRace
<1>1. Init => NoInsertRace
  BY DEF Init, NoInsertRace
<1>2. TypeOK /\ SerialInv(w) /\ NoInsertRace /\ [Next]_vars => NoInsertRace'
  <2>. SUFFICES ASSUME TypeOK, SerialInv(w), NoInsertRace, [Next]_vars
                PROVE  NoInsertRace'
    OBVIOUS
  <2>. USE DEF imageVars, requestVars, trawlerVars, txVars
  <2>1. ASSUME NEW j \in Jobs, HandleSave(j) PROVE NoInsertRace'
    <3>1. ~SaveFails(j) /\ UNCHANGED newHash
      BY <2>1 DEF SaveFails, HandleSave, TargetIsJobImage, TargetByHash, FindByHash,
         CheckNewImage, InsertNewImage, Evaluate, AllSaved, UpdateImage, ClearQueued
    <3>2. save[j] \notin {"none", "done", "failed"}
      BY <2>1, <3>1 DEF HandleSave, TargetIsJobImage, TargetByHash, FindByHash,
         CheckNewImage, InsertNewImage, Evaluate, AllSaved, UpdateImage,
         ClearQueued, SaveStep
    <3>3. \A k \in Jobs \ {j} : save'[k] # "check"
      <4>1. \A k \in Jobs \ {j} : save'[k] = save[k]
        BY <2>1, <3>1 DEF HandleSave, TargetIsJobImage, TargetByHash, FindByHash,
           CheckNewImage, InsertNewImage, Evaluate, AllSaved, UpdateImage,
           ClearQueued, SaveStep, TypeOK
      <4>. QED BY <3>2, <4>1 DEF SerialInv
    <3>4. save'[j] = "check" => FindByHash(j)
      BY <2>1, <3>1 DEF HandleSave, TargetIsJobImage, TargetByHash, CheckNewImage,
         InsertNewImage, Evaluate, AllSaved, UpdateImage, ClearQueued, SaveStep, TypeOK
    <3>5. ASSUME FindByHash(j), save'[j] = "check"
          PROVE  WithHash(newHash[j]) = {} /\ UNCHANGED hash
      BY <3>5 DEF FindByHash, SaveStep, TypeOK
    <3>. QED BY <3>1, <3>3, <3>4, <3>5 DEF NoInsertRace, WithHash
  <2>2. ASSUME NEW h \in Hashes \cup {NoHash}, PostResults(w, h) PROVE NoInsertRace'
    <3>1. /\ UNCHANGED hash
          /\ \A k \in Jobs : save'[k] = "check" => save[k] = "check" /\ k # scanning[w]
          /\ \A k \in Jobs : k # scanning[w] => newHash'[k] = newHash[k]
      BY <2>2 DEF PostResults, TypeOK
    <3>. QED BY <3>1 DEF NoInsertRace, WithHash
  <2>3. CASE UNCHANGED <<hash, newHash, save>>
    BY <2>3 DEF NoInsertRace, WithHash
  <2>4. \A r \in Rows : HandleRow(r) => UNCHANGED <<hash, newHash, save>>
    BY DEF HandleRow, ClearLatest, CommitRow, FailRow
  <2>. QED
    BY <2>1, <2>2, <2>3, <2>4 DEF Next, SetPolicyEnabled, RequestScan, HandleRequest,
       Publish, PublishFails, SetQueued, Deliver, HandleDelivery, StartScan,
       DropJob, FinishDelivery, TrawlerCrash, BackendCrash, vars
<1>. QED BY <1>1, <1>2, TypeCorrect, SerialInvariance, PTL DEF Spec

(* With one trawler that waits for its answers, no failures and a policy   *)
(* that stays enabled, no accepted job is lost: it waits, is scanned, is   *)
(* being saved, or is recorded.                                            *)
THEOREM SerialJobsAreNotLost ==
  ASSUME NEW w, Trawlers = {w}, ~SlowClient, ~Faults
  PROVE  Spec /\ [](enabled # {}) => []NoJobIsLost
BY SerialInserts, OnlyInsertRacesLoseJobs, PTL
=============================================================================
