---------------------------- MODULE Sync_proofs ----------------------------
(***************************************************************************)
(* What holds of the synchronisation of a cluster for any number of        *)
(* overlapping syncs, images, namespaces, pods, failures and crashes: the  *)
(* types of ImageSync and of PodSync, that a sync that ran alone and       *)
(* without an error leaves the tables that mirror what it saw, whatever    *)
(* tables it met, and that an image gets no more rows than there are syncs.*)
(***************************************************************************)
EXTENDS ImageSync, PodSync, FiniteSetTheorems, TLAPS

ImageLoop == {"find", "check", "create", "findK8s", "createK8s"}

-----------------------------------------------------------------------------
(* Images: types *)

(* While images are saved one is left to save, and only then; the three    *)
(* statements are under way at "mark" only; an ended sync has forgotten.   *)
ImageLoops ==
  \A p \in Syncs :
    /\ pc[p] \in ImageLoop <=> todo[p] # {}
    /\ marks[p] # {} => pc[p] = "mark"
    /\ todo[p] \subseteq listing[p]
    /\ pc[p] = "idle" => idOf[p] = NoIds /\ k8sIds[p] = {}

ImageTypeInv == ImageTypeOK /\ ImageLoops

LEMMA InstanceIsLeft ==
  ASSUME ImageTypeInv, NEW p \in Syncs, todo[p] # {}
  PROVE  /\ Image(p) \in Images /\ Space(p) \in Spaces
         /\ Instance(p) = <<Image(p), Space(p)>> /\ Instance(p) \in todo[p]
<1>1. todo[p] \subseteq Images \X Spaces
  BY DEF ImageTypeInv, ImageTypeOK, Instances
<1>2. \E i \in Images : \E n \in Spaces : <<i, n>> \in todo[p]
  BY <1>1
<1>3. PICK i \in Images : i = CHOOSE j \in Images : \E n \in Spaces : <<j, n>> \in todo[p]
  BY <1>2
<1>4. \E n \in Spaces : <<i, n>> \in todo[p]
  BY <1>2, <1>3
<1>5. PICK n \in Spaces : n = CHOOSE m \in Spaces : <<i, m>> \in todo[p]
  BY <1>4
<1>6. <<i, n>> \in todo[p]
  BY <1>4, <1>5
<1>7. Instance(p) = <<i, n>>
  BY <1>3, <1>5 DEF Instance
<1>. QED BY <1>6, <1>7 DEF Image, Space

LEMMA NextInstanceType ==
  ASSUME ImageTypeInv, NEW p \in Syncs, NextInstance(p)
  PROVE  /\ todo' \in [Syncs -> SUBSET Instances]
         /\ pc' \in [Syncs -> {"idle", "find", "check", "create", "findK8s", "createK8s",
                               "mark", "end"}]
         /\ marks' \in [Syncs -> SUBSET (Statements \cup {"threw"})]
         /\ pc'[p] \in {"find", "mark"}
         /\ pc'[p] = "find" <=> todo'[p] # {}
         /\ marks'[p] # {} => pc'[p] = "mark"
         /\ todo'[p] = todo[p] \ {Instance(p)}
         /\ pc'[p] = "mark" => marks'[p] = Statements
         /\ \A q \in Syncs \ {p} :
              pc'[q] = pc[q] /\ todo'[q] = todo[q] /\ marks'[q] = marks[q]
<1>. DEFINE rest == todo[p] \ {Instance(p)}
<1>1. rest \in SUBSET Instances
  BY DEF ImageTypeInv, ImageTypeOK
<1>2. /\ todo \in [Syncs -> SUBSET Instances]
      /\ pc \in [Syncs -> {"idle", "find", "check", "create", "findK8s", "createK8s",
                           "mark", "end"}]
      /\ marks \in [Syncs -> SUBSET (Statements \cup {"threw"})]
  BY DEF ImageTypeInv, ImageTypeOK
<1>3. /\ todo' = [todo EXCEPT ![p] = rest]
      /\ pc' = [pc EXCEPT ![p] = IF rest = {} THEN "mark" ELSE "find"]
      /\ marks' = [marks EXCEPT ![p] = IF rest = {} THEN Statements ELSE {}]
  BY DEF NextInstance, Goes
<1>4. todo'[p] = rest /\ pc'[p] = (IF rest = {} THEN "mark" ELSE "find")
      /\ marks'[p] = (IF rest = {} THEN Statements ELSE {})
  BY <1>2, <1>3
<1>. HIDE DEF rest
<1>5. todo' \in [Syncs -> SUBSET Instances]
  BY <1>1, <1>2, <1>3
<1>6. pc' \in [Syncs -> {"idle", "find", "check", "create", "findK8s", "createK8s",
                         "mark", "end"}]
  BY <1>2, <1>3
<1>7. marks' \in [Syncs -> SUBSET (Statements \cup {"threw"})]
  BY <1>2, <1>3
<1>8. \A q \in Syncs \ {p} :
        pc'[q] = pc[q] /\ todo'[q] = todo[q] /\ marks'[q] = marks[q]
  BY <1>2, <1>3
<1>9. rest = todo[p] \ {Instance(p)}
  BY DEF rest
<1>. QED BY <1>4, <1>5, <1>6, <1>7, <1>8, <1>9

LEMMA FaultType ==
  ASSUME faults \in 0 .. MaxFaults, Fault
  PROVE  faults' \in 0 .. MaxFaults
  BY SyncAssumption DEF Fault

LEMMA ImagesInitially == ImageInit => ImageTypeInv
<1>. SUFFICES ASSUME ImageInit PROVE ImageTypeInv
  OBVIOUS
<1>. USE DEF ImageInit
<1>1. IsTable(images, [image : Images, on : BOOLEAN])
      /\ IsTable(k8sImages, [space : Spaces, hash : {HashOf[i] : i \in Images}])
  BY DEF IsTable, Empty
<1>2. idOf \in [Syncs -> [Images -> Ids \cup {0}]]
  BY DEF NoIds
<1>3. 0 \in 0 .. MaxChanges /\ 0 \in 0 .. MaxFaults
  BY SyncAssumption
<1>4. ImageTypeOK
  BY <1>1, <1>2, <1>3 DEF ImageTypeOK
<1>5. ImageLoops
  BY DEF ImageLoops, ImageLoop
<1>. QED BY <1>4, <1>5 DEF ImageTypeInv

LEMMA WithType ==
  ASSUME NEW table, NEW S, IsTable(table, S), NEW id \in Ids, NEW row \in S
  PROVE  IsTable(With(table, id, row), S)
<1>1. table \in [DOMAIN table -> S]
  BY DEF IsTable
<1>2. \A k \in DOMAIN table \cup {id} : With(table, id, row)[k] \in S
  BY <1>1 DEF With
<1>3. With(table, id, row) \in [DOMAIN table \cup {id} -> S]
  BY <1>2 DEF With
<1>. QED BY <1>3 DEF IsTable, With

(* A new row takes an id that no row has and no sync remembers.            *)
LEMMA FreeIdIsNew ==
  ASSUME NEW table, NEW remembered, FreeIds(table, remembered) # {}
  PROVE  LET id == CHOOSE k \in FreeIds(table, remembered) : TRUE
         IN  id \in Ids /\ id \notin DOMAIN table /\ id # 0
  BY SyncAssumption DEF FreeIds

LEMMA MarkedType ==
  ASSUME IsTable(images, [image : Images, on : BOOLEAN]),
         NEW p \in Syncs, NEW on \in BOOLEAN
  PROVE  /\ IsTable(Marked(p, on), [image : Images, on : BOOLEAN])
         /\ DOMAIN Marked(p, on) = DOMAIN images
         /\ \A k \in DOMAIN images :
              /\ Marked(p, on)[k].image = images[k].image
              /\ Marked(p, on)[k].on = IF (k \in ImageIds(p) <=> on) THEN on
                                       ELSE images[k].on
<1>1. /\ images \in [DOMAIN images -> [image : Images, on : BOOLEAN]]
      /\ DOMAIN images \subseteq Ids
  BY DEF IsTable
<1>2. Marked(p, on) = [k \in DOMAIN images |->
        IF (k \in ImageIds(p) <=> on) THEN [images[k] EXCEPT !.on = on] ELSE images[k]]
  BY DEF Marked
<1>3. DOMAIN Marked(p, on) = DOMAIN images
  BY <1>2
<1>4. ASSUME NEW k \in DOMAIN images
      PROVE  /\ Marked(p, on)[k] \in [image : Images, on : BOOLEAN]
             /\ Marked(p, on)[k].image = images[k].image
             /\ Marked(p, on)[k].on = IF (k \in ImageIds(p) <=> on) THEN on
                                      ELSE images[k].on
  <2>1. images[k] \in [image : Images, on : BOOLEAN]
    BY <1>1
  <2>2. CASE (k \in ImageIds(p) <=> on)
    <3>1. Marked(p, on)[k] = [images[k] EXCEPT !.on = on]
      BY <1>2, <2>2
    <3>. HIDE DEF Marked
    <3>. QED BY <2>1, <2>2, <3>1
  <2>3. CASE ~(k \in ImageIds(p) <=> on)
    <3>1. Marked(p, on)[k] = images[k]
      BY <1>2, <2>3
    <3>. QED BY <2>1, <2>3, <3>1
  <2>. QED BY <2>2, <2>3
<1>5. Marked(p, on) \in [DOMAIN images -> [image : Images, on : BOOLEAN]]
  BY <1>2, <1>4
<1>. QED BY <1>1, <1>3, <1>4, <1>5 DEF IsTable

LEMMA AnsweredType ==
  ASSUME ImageTypeInv, NEW p \in Syncs, NEW statement \in Statements,
         NEW answer \in SUBSET {"threw"}, statement \in marks[p],
         Answered(p, statement, answer)
  PROVE  /\ pc[p] = "mark" /\ todo[p] = {}
         /\ pc' \in [Syncs -> {"idle", "find", "check", "create", "findK8s", "createK8s",
                               "mark", "end"}]
         /\ marks' \in [Syncs -> SUBSET (Statements \cup {"threw"})]
         /\ allSaved' \in [Syncs -> BOOLEAN]
         /\ pc'[p] \in {"mark", "end"}
         /\ marks'[p] # {} => pc'[p] = "mark"
         /\ \/ marks'[p] = (marks[p] \ {statement}) \cup answer /\ allSaved' = allSaved
            \/ /\ marks'[p] = {} /\ allSaved'[p] = FALSE
            \/ /\ marks'[p] = {} /\ marks[p] = {statement} /\ answer = {}
               /\ allSaved' = allSaved
         /\ \A q \in Syncs \ {p} :
              pc'[q] = pc[q] /\ marks'[q] = marks[q] /\ allSaved'[q] = allSaved[q]
         /\ UNCHANGED <<running, listing, todo, idOf, alone, changes>>
<1>. DEFINE left == (marks[p] \ {statement}) \cup answer
            over == left \cap Statements = {}
<1>1. /\ pc \in [Syncs -> {"idle", "find", "check", "create", "findK8s", "createK8s",
                           "mark", "end"}]
      /\ marks \in [Syncs -> SUBSET (Statements \cup {"threw"})]
      /\ allSaved \in [Syncs -> BOOLEAN]
  BY DEF ImageTypeInv, ImageTypeOK
<1>2. pc[p] = "mark" /\ todo[p] = {}
  BY DEF ImageTypeInv, ImageLoops, ImageLoop
<1>3. left \in SUBSET (Statements \cup {"threw"})
  BY <1>1
<1>4. marks' = [marks EXCEPT ![p] = IF over THEN {} ELSE left]
  BY DEF Answered
<1>5. UNCHANGED <<running, listing, todo, idOf, alone, changes>>
  BY DEF Answered
<1>6. CASE ~over
  <2>1. pc' = pc /\ allSaved' = allSaved
    BY <1>6 DEF Answered
  <2>. HIDE DEF left
  <2>2. marks'[p] = left /\ marks' \in [Syncs -> SUBSET (Statements \cup {"threw"})]
        /\ \A q \in Syncs \ {p} : marks'[q] = marks[q]
    BY <1>1, <1>3, <1>4, <1>6
  <2>. QED BY <1>1, <1>2, <1>5, <2>1, <2>2 DEF left
<1>7. CASE over /\ "threw" \in left
  <2>1. pc' = [pc EXCEPT ![p] = "end"] /\ allSaved' = [allSaved EXCEPT ![p] = FALSE]
    BY <1>7 DEF Answered, Goes, Failed
  <2>2. marks' = [marks EXCEPT ![p] = {}]
    BY <1>4, <1>7
  <2>. QED BY <1>1, <1>2, <1>5, <2>1, <2>2
<1>8. CASE over /\ "threw" \notin left
  <2>1. pc' = [pc EXCEPT ![p] = "end"] /\ allSaved' = allSaved
    BY <1>8 DEF Answered, Goes
  <2>2. marks' = [marks EXCEPT ![p] = {}]
    BY <1>4, <1>8
  <2>3. left = {}
    BY <1>3, <1>8
  <2>4. marks[p] = {statement} /\ answer = {}
    BY <2>3
  <2>. QED BY <1>1, <1>2, <1>5, <2>1, <2>2, <2>4
<1>. QED BY <1>6, <1>7, <1>8

(* What a step of one sync leaves to the others.                           *)
KeepsLocals(p) ==
  /\ pc'[p] = pc[p] /\ listing'[p] = listing[p] /\ todo'[p] = todo[p]
  /\ idOf'[p] = idOf[p] /\ k8sIds'[p] = k8sIds[p] /\ marks'[p] = marks[p]

LEMMA LoopsStep ==
  ASSUME ImageTypeInv, NEW p \in Syncs,
         \A q \in Syncs \ {p} : KeepsLocals(q),
         pc'[p] \in ImageLoop <=> todo'[p] # {},
         marks'[p] # {} => pc'[p] = "mark",
         todo'[p] \subseteq listing'[p],
         pc'[p] # "idle"
  PROVE  ImageLoops'
  BY DEF ImageTypeInv, ImageLoops, KeepsLocals

LEMMA StartType ==
  ASSUME ImageTypeInv, NEW p \in Syncs, Start(p)
  PROVE  /\ ImageTypeInv' /\ \A q \in Syncs \ {p} : KeepsLocals(q)
         /\ UNCHANGED <<imageTables, idOf, k8sIds, allSaved>>
         /\ listing'[p] = running /\ todo'[p] = running
         /\ alone'[p] <=> Others(p) = {}
         /\ \A q \in Syncs \ {p} : pc[q] # "idle" => ~alone'[q]
         /\ pc'[p] = (IF running = {} THEN "mark" ELSE "find")
         /\ marks'[p] = (IF running = {} THEN Statements ELSE {})
<1>. USE DEF ImageTypeInv, ImageTypeOK
<1>1. /\ listing' = [listing EXCEPT ![p] = running]
      /\ todo' = [todo EXCEPT ![p] = running]
      /\ pc' = [pc EXCEPT ![p] = IF running = {} THEN "mark" ELSE "find"]
      /\ marks' = [marks EXCEPT ![p] = IF running = {} THEN Statements ELSE {}]
      /\ UNCHANGED <<running, images, k8sImages, idOf, k8sIds, allSaved, changes, faults>>
  BY DEF Start, Goes, imageTables
<1>2. alone' \in [Syncs -> BOOLEAN] /\ (alone'[p] <=> Others(p) = {})
      /\ \A q \in Syncs \ {p} : pc[q] # "idle" => ~alone'[q]
  <2>1. alone' = [q \in Syncs |-> IF q = p THEN Others(p) = {}
                                  ELSE alone[q] /\ q \notin Others(p)]
    BY DEF Start, Meets
  <2>. QED BY <2>1 DEF Others
<1>3. listing' \in [Syncs -> SUBSET Instances] /\ todo' \in [Syncs -> SUBSET Instances]
      /\ listing'[p] = running /\ todo'[p] = running
      /\ \A q \in Syncs \ {p} : listing'[q] = listing[q] /\ todo'[q] = todo[q]
  BY <1>1
<1>4. /\ pc' \in [Syncs -> {"idle", "find", "check", "create", "findK8s", "createK8s",
                            "mark", "end"}]
      /\ pc'[p] = (IF running = {} THEN "mark" ELSE "find")
      /\ \A q \in Syncs \ {p} : pc'[q] = pc[q]
  BY <1>1
<1>5. /\ marks' \in [Syncs -> SUBSET (Statements \cup {"threw"})]
      /\ marks'[p] = (IF running = {} THEN Statements ELSE {})
      /\ \A q \in Syncs \ {p} : marks'[q] = marks[q]
  BY <1>1
<1>6. ImageTypeOK'
  BY <1>1, <1>2, <1>3, <1>4, <1>5
<1>7. \A q \in Syncs \ {p} : KeepsLocals(q)
  BY <1>1, <1>3, <1>4, <1>5 DEF KeepsLocals
<1>8. ImageLoops'
  BY <1>3, <1>4, <1>5, <1>7, LoopsStep DEF ImageLoop
<1>. QED BY <1>1, <1>2, <1>3, <1>4, <1>5, <1>6, <1>7, <1>8 DEF imageTables

LEMMA FindImageType ==
  ASSUME ImageTypeInv, NEW p \in Syncs, FindImage(p)
  PROVE  /\ ImageTypeInv' /\ \A q \in Syncs \ {p} : KeepsLocals(q)
         /\ \/ /\ ImageRows(Image(p)) = {} /\ pc'[p] = "check" /\ idOf' = idOf
            \/ /\ pc'[p] = "findK8s"
               /\ \E id \in ImageRows(Image(p)) :
                    idOf'[p] = [idOf[p] EXCEPT ![Image(p)] = id]
<1>. USE DEF ImageTypeInv
<1>1. pc[p] = "find" /\ todo[p] # {}
  BY DEF FindImage, At, ImageLoops, ImageLoop
<1>2. Image(p) \in Images
  BY <1>1, InstanceIsLeft
<1>3. PICK i \in Images : i = Image(p)
  BY <1>2
<1>4. UNCHANGED <<running, images, k8sImages, listing, todo, k8sIds, marks, allSaved,
                  alone, changes, faults>>
  BY DEF FindImage, imageTables
<1>. USE DEF ImageTypeOK
<1>5. CASE ImageRows(i) = {}
  <2>1. pc' = [pc EXCEPT ![p] = "check"] /\ idOf' = idOf
    BY <1>3, <1>5 DEF FindImage, Goes
  <2>2. pc'[p] = "check" /\ \A q \in Syncs \ {p} : pc'[q] = pc[q]
    BY <2>1
  <2>3. ImageTypeOK'
    BY <1>4, <2>1
  <2>4. \A q \in Syncs \ {p} : KeepsLocals(q)
    BY <1>4, <2>1, <2>2 DEF KeepsLocals
  <2>5. ImageLoops'
    BY <1>1, <1>4, <2>2, <2>4, LoopsStep DEF ImageLoop, ImageLoops
  <2>. QED BY <1>3, <1>5, <2>1, <2>2, <2>3, <2>4, <2>5
<1>6. CASE ImageRows(i) # {}
  <2>1. PICK id \in ImageRows(i) :
          pc' = [pc EXCEPT ![p] = "findK8s"] /\ idOf' = [idOf EXCEPT ![p][i] = id]
    BY <1>3, <1>6 DEF FindImage, Goes
  <2>2. pc'[p] = "findK8s" /\ \A q \in Syncs \ {p} : pc'[q] = pc[q]
    BY <2>1
  <2>3. id \in Ids
    BY DEF ImageRows, IsTable
  <2>4. idOf'[p] = [idOf[p] EXCEPT ![i] = id]
        /\ \A q \in Syncs \ {p} : idOf'[q] = idOf[q]
    BY <2>1
  <2>5. idOf' \in [Syncs -> [Images -> Ids \cup {0}]]
    BY <2>1, <2>3
  <2>6. ImageTypeOK'
    BY <1>4, <2>1, <2>5
  <2>7. \A q \in Syncs \ {p} : KeepsLocals(q)
    BY <1>4, <2>2, <2>4 DEF KeepsLocals
  <2>8. ImageLoops'
    BY <1>1, <1>4, <2>2, <2>7, LoopsStep DEF ImageLoop, ImageLoops
  <2>. QED BY <1>3, <2>2, <2>4, <2>6, <2>7, <2>8
<1>. QED BY <1>5, <1>6

LEMMA NextLoops ==
  ASSUME ImageTypeInv, NEW p \in Syncs, NextInstance(p), listing' = listing,
         \A q \in Syncs \ {p} : idOf'[q] = idOf[q] /\ k8sIds'[q] = k8sIds[q]
  PROVE  ImageLoops' /\ \A q \in Syncs \ {p} : KeepsLocals(q)
<1>1. \A q \in Syncs \ {p} : KeepsLocals(q)
  BY NextInstanceType DEF KeepsLocals
<1>2. todo'[p] \subseteq listing'[p]
  BY NextInstanceType DEF ImageTypeInv, ImageLoops
<1>. QED BY <1>1, <1>2, LoopsStep, NextInstanceType DEF ImageLoop

LEMMA CheckImageType ==
  ASSUME ImageTypeInv, NEW p \in Syncs, CheckImage(p)
  PROVE  /\ ImageTypeInv' /\ \A q \in Syncs \ {p} : KeepsLocals(q)
         /\ pc[p] = "check"
         /\ \/ /\ ImageRows(Image(p)) = {} /\ pc'[p] = "create"
               /\ UNCHANGED <<todo, marks, allSaved>>
            \/ allSaved'[p] = FALSE /\ NextInstance(p)
<1>. USE DEF ImageTypeInv, ImageTypeOK
<1>1. pc[p] = "check"
  BY DEF CheckImage, At
<1>2. UNCHANGED <<running, images, k8sImages, listing, idOf, k8sIds, alone,
                  changes, faults>>
  BY DEF CheckImage, imageTables
<1>3. CASE ImageRows(Image(p)) = {}
  <2>1. pc' = [pc EXCEPT ![p] = "create"] /\ UNCHANGED <<todo, marks, allSaved>>
    BY <1>3 DEF CheckImage, Goes
  <2>2. pc'[p] = "create" /\ \A q \in Syncs \ {p} : pc'[q] = pc[q]
    BY <2>1
  <2>3. ImageTypeOK'
    BY <1>2, <2>1
  <2>4. \A q \in Syncs \ {p} : KeepsLocals(q)
    BY <1>2, <2>1, <2>2 DEF KeepsLocals
  <2>5. ImageLoops'
    BY <1>1, <1>2, <2>1, <2>2, <2>4, LoopsStep DEF ImageLoop, ImageLoops
  <2>. QED BY <1>1, <1>3, <2>1, <2>2, <2>3, <2>4, <2>5
<1>4. CASE ImageRows(Image(p)) # {}
  <2>1. NextInstance(p) /\ allSaved' = [allSaved EXCEPT ![p] = FALSE]
    BY <1>4 DEF CheckImage, Failed
  <2>2. ImageTypeOK'
    BY <1>2, <2>1, NextInstanceType
  <2>3. ImageLoops' /\ \A q \in Syncs \ {p} : KeepsLocals(q)
    BY <1>2, <2>1, NextLoops
  <2>4. allSaved'[p] = FALSE
    BY <2>1
  <2>. QED BY <1>1, <2>1, <2>2, <2>3, <2>4
<1>. QED BY <1>3, <1>4

LEMMA CreateImageType ==
  ASSUME ImageTypeInv, NEW p \in Syncs, CreateImage(p)
  PROVE  /\ ImageTypeInv' /\ \A q \in Syncs \ {p} : KeepsLocals(q)
         /\ pc[p] = "create"
         /\ \E id \in Ids \ DOMAIN images :
              /\ DOMAIN images' = DOMAIN images \cup {id}
              /\ images'[id].image = Image(p)
              /\ \A k \in DOMAIN images : images'[k] = images[k]
              /\ \/ /\ idOf'[p] = [idOf[p] EXCEPT ![Image(p)] = id]
                    /\ pc'[p] = "findK8s" /\ UNCHANGED <<todo, marks, allSaved>>
                 \/ allSaved'[p] = FALSE /\ NextInstance(p)
<1>. DEFINE free == FreeIds(images, [q \in Syncs |-> ImageIds(q)])
<1>1. free # {} /\ pc[p] = "create" /\ todo[p] # {}
  BY DEF CreateImage, At, ImageTypeInv, ImageLoops, ImageLoop
<1>2. PICK id \in Ids : id = (CHOOSE k \in free : TRUE) /\ id \notin DOMAIN images
  <2>. HIDE DEF free
  <2>1. (CHOOSE k \in free : TRUE) \in free
    BY <1>1
  <2>. QED BY <2>1 DEF free, FreeIds
<1>3. PICK i \in Images : i = Image(p)
  BY <1>1, InstanceIsLeft
<1>4. PICK row \in [image : Images, on : BOOLEAN] : row = [image |-> i, on |-> Up[i]]
  BY ImageSyncAssumption
<1>5. images' = With(images, id, row)
  BY <1>2, <1>3, <1>4 DEF CreateImage
<1>6. UNCHANGED <<running, k8sImages, listing, k8sIds, alone, changes, faults>>
  BY DEF CreateImage
<1>. USE DEF ImageTypeInv, ImageTypeOK
<1>7. /\ IsTable(images', [image : Images, on : BOOLEAN])
      /\ DOMAIN images' = DOMAIN images \cup {id}
      /\ images'[id].image = i
      /\ \A k \in DOMAIN images : images'[k] = images[k]
  <2>. DEFINE S == [image : Images, on : BOOLEAN]
  <2>1. IsTable(images, S) /\ row \in S
    BY <1>4
  <2>. HIDE DEF S
  <2>2. IsTable(With(images, id, row), S)
    BY <1>2, <2>1, WithType
  <2>3. DOMAIN With(images, id, row) = DOMAIN images \cup {id}
    BY DEF With
  <2>4. With(images, id, row)[id] = row
    BY DEF With
  <2>5. \A k \in DOMAIN images \ {id} : With(images, id, row)[k] = images[k]
    BY DEF With
  <2>6. IsTable(images', S)
    BY <1>5, <2>2
  <2>7. row.image = i
    BY <1>4
  <2>8. DOMAIN images' = DOMAIN images \cup {id} /\ images'[id] = row
        /\ \A k \in DOMAIN images : images'[k] = images[k]
    BY <1>2, <1>5, <2>3, <2>4, <2>5
  <2>. QED BY <2>6, <2>7, <2>8 DEF S
<1>8. CASE /\ idOf' = [idOf EXCEPT ![p][i] = id]
           /\ pc' = [pc EXCEPT ![p] = "findK8s"]
           /\ UNCHANGED <<todo, marks, allSaved>>
  <2>1. pc'[p] = "findK8s" /\ \A q \in Syncs \ {p} : pc'[q] = pc[q]
    BY <1>8
  <2>2. idOf'[p] = [idOf[p] EXCEPT ![i] = id]
        /\ \A q \in Syncs \ {p} : idOf'[q] = idOf[q]
    BY <1>8
  <2>3. idOf' \in [Syncs -> [Images -> Ids \cup {0}]]
    BY <1>8
  <2>4. ImageTypeOK'
    BY <1>6, <1>7, <1>8, <2>3
  <2>5. \A q \in Syncs \ {p} : KeepsLocals(q)
    BY <1>6, <1>8, <2>1, <2>2 DEF KeepsLocals
  <2>6. ImageLoops'
    BY <1>1, <1>6, <1>8, <2>1, <2>5, LoopsStep DEF ImageLoop, ImageLoops
  <2>. QED BY <1>1, <1>2, <1>3, <1>7, <1>8, <2>1, <2>2, <2>4, <2>5, <2>6
<1>9. CASE /\ NextInstance(p) /\ allSaved' = [allSaved EXCEPT ![p] = FALSE]
           /\ idOf' = idOf
  <2>1. ImageTypeOK'
    BY <1>6, <1>7, <1>9, NextInstanceType
  <2>2. ImageLoops' /\ \A q \in Syncs \ {p} : KeepsLocals(q)
    BY <1>6, <1>9, NextLoops
  <2>3. allSaved'[p] = FALSE
    BY <1>9
  <2>. QED BY <1>1, <1>2, <1>3, <1>7, <1>9, <2>1, <2>2, <2>3
<1>10. \/ /\ idOf' = [idOf EXCEPT ![p][i] = id]
          /\ pc' = [pc EXCEPT ![p] = "findK8s"]
          /\ UNCHANGED <<todo, marks, allSaved>>
       \/ /\ NextInstance(p) /\ allSaved' = [allSaved EXCEPT ![p] = FALSE]
          /\ idOf' = idOf
  BY <1>2, <1>3 DEF CreateImage, Goes, Failed
<1>. QED BY <1>8, <1>9, <1>10

(* One instance of an image as a row of kubernetes_images.                 *)
K8sOf(w) == [space |-> w[2], hash |-> HashOf[w[1]]]

LEMMA FindK8sImageType ==
  ASSUME ImageTypeInv, NEW p \in Syncs, FindK8sImage(p)
  PROVE  /\ ImageTypeInv' /\ \A q \in Syncs \ {p} : KeepsLocals(q)
         /\ pc[p] = "findK8s"
         /\ UNCHANGED <<imageTables, listing, idOf, allSaved, alone>>
         /\ \/ pc'[p] = "createK8s" /\ UNCHANGED <<todo, marks, k8sIds>>
            \/ /\ NextInstance(p)
               /\ \E id \in DOMAIN k8sImages :
                    /\ k8sImages[id] = K8sOf(Instance(p))
                    /\ k8sIds'[p] = k8sIds[p] \cup {id}
<1>. USE DEF ImageTypeInv, ImageTypeOK
<1>1. pc[p] = "findK8s"
  BY DEF FindK8sImage, At
<1>2. /\ UNCHANGED <<running, images, k8sImages, listing, idOf, allSaved, alone, changes,
                     faults>>
      /\ UNCHANGED imageTables
  BY DEF FindK8sImage, imageTables
<1>. DEFINE found == K8sRows(Space(p), HashOf[Image(p)])
<1>3. CASE found = {}
  <2>1. pc' = [pc EXCEPT ![p] = "createK8s"] /\ UNCHANGED <<todo, marks, k8sIds>>
    BY <1>3 DEF FindK8sImage, Goes
  <2>2. pc'[p] = "createK8s" /\ \A q \in Syncs \ {p} : pc'[q] = pc[q]
    BY <2>1
  <2>3. ImageTypeOK'
    BY <1>2, <2>1
  <2>4. \A q \in Syncs \ {p} : KeepsLocals(q)
    BY <1>2, <2>1, <2>2 DEF KeepsLocals
  <2>5. ImageLoops'
    BY <1>1, <1>2, <2>1, <2>2, <2>4, LoopsStep DEF ImageLoop, ImageLoops
  <2>. QED BY <1>1, <1>2, <2>1, <2>2, <2>3, <2>4, <2>5
<1>4. CASE found # {}
  <2>1. PICK id \in found : k8sIds' = [k8sIds EXCEPT ![p] = @ \cup {id}]
    BY <1>4 DEF FindK8sImage, Keeps
  <2>2. NextInstance(p)
    BY <1>4 DEF FindK8sImage
  <2>3. id \in DOMAIN k8sImages
        /\ k8sImages[id] = [space |-> Space(p), hash |-> HashOf[Image(p)]]
    BY <2>1 DEF K8sRows
  <2>4. id \in Ids
    BY <2>3 DEF IsTable
  <2>5. /\ k8sIds' \in [Syncs -> SUBSET Ids] /\ k8sIds'[p] = k8sIds[p] \cup {id}
        /\ \A q \in Syncs \ {p} : k8sIds'[q] = k8sIds[q]
    BY <2>1, <2>4
  <2>6. ImageTypeOK'
    BY <1>2, <2>2, <2>5, NextInstanceType
  <2>7. ImageLoops' /\ \A q \in Syncs \ {p} : KeepsLocals(q)
    BY <1>2, <2>2, <2>5, NextLoops
  <2>8. k8sImages[id] = K8sOf(Instance(p))
    BY <2>3 DEF K8sOf, Space, Image
  <2>. QED BY <1>1, <1>2, <2>2, <2>3, <2>5, <2>6, <2>7, <2>8
<1>. QED BY <1>3, <1>4

LEMMA CreateK8sImageType ==
  ASSUME ImageTypeInv, NEW p \in Syncs, CreateK8sImage(p)
  PROVE  /\ ImageTypeInv' /\ \A q \in Syncs \ {p} : KeepsLocals(q)
         /\ pc[p] = "createK8s" /\ NextInstance(p)
         /\ UNCHANGED <<images, listing, idOf, alone>> /\ (allSaved'[p] => allSaved[p])
         /\ \E id \in Ids \ DOMAIN k8sImages :
              /\ DOMAIN k8sImages' = DOMAIN k8sImages \cup {id}
              /\ k8sImages'[id] = K8sOf(Instance(p))
              /\ \A k \in DOMAIN k8sImages : k8sImages'[k] = k8sImages[k]
              /\ k8sIds'[p] = k8sIds[p] \cup {id}
<1>. DEFINE free == FreeIds(k8sImages, k8sIds)
<1>1. free # {} /\ pc[p] = "createK8s" /\ todo[p] # {} /\ NextInstance(p)
  BY DEF CreateK8sImage, At, ImageTypeInv, ImageLoops, ImageLoop
<1>2. PICK id \in Ids : id = (CHOOSE k \in free : TRUE) /\ id \notin DOMAIN k8sImages
  <2>. HIDE DEF free
  <2>1. (CHOOSE k \in free : TRUE) \in free
    BY <1>1
  <2>. QED BY <2>1 DEF free, FreeIds
<1>3. Image(p) \in Images /\ Space(p) \in Spaces
  BY <1>1, InstanceIsLeft
<1>. DEFINE S == [space : Spaces, hash : {HashOf[i] : i \in Images}]
<1>4. PICK row \in S : row = [space |-> Space(p), hash |-> HashOf[Image(p)]]
  BY <1>3
<1>5. k8sImages' = With(k8sImages, id, row) /\ k8sIds' = [k8sIds EXCEPT ![p] = @ \cup {id}]
  BY <1>2, <1>4 DEF CreateK8sImage, Keeps
<1>6. UNCHANGED <<running, images, listing, idOf, alone, changes>>
  BY DEF CreateK8sImage
<1>7. /\ allSaved' \in [Syncs -> BOOLEAN] /\ (allSaved'[p] => allSaved[p])
      /\ \A q \in Syncs \ {p} : allSaved'[q] = allSaved[q]
      /\ faults' \in 0 .. MaxFaults
  <2>1. CASE UNCHANGED <<allSaved, faults>>
    BY <2>1 DEF ImageTypeInv, ImageTypeOK
  <2>2. CASE Fault /\ Failed(p)
    <3>1. faults' \in 0 .. MaxFaults
      BY <2>2, FaultType DEF ImageTypeInv, ImageTypeOK
    <3>. QED BY <2>2, <3>1 DEF Failed, ImageTypeInv, ImageTypeOK
  <2>. QED BY <2>1, <2>2 DEF CreateK8sImage
<1>8. IsTable(k8sImages, S)
  BY DEF ImageTypeInv, ImageTypeOK
<1>9. IsTable(k8sImages', S)
  <2>. HIDE DEF S
  <2>. QED BY <1>2, <1>4, <1>5, <1>8, WithType
<1>10. /\ DOMAIN k8sImages' = DOMAIN k8sImages \cup {id}
       /\ k8sImages'[id] = row
       /\ \A k \in DOMAIN k8sImages : k8sImages'[k] = k8sImages[k]
  <2>. HIDE DEF S
  <2>1. DOMAIN k8sImages' = DOMAIN k8sImages \cup {id}
    BY <1>5 DEF With
  <2>2. k8sImages'[id] = row
    BY <1>5 DEF With
  <2>3. \A k \in DOMAIN k8sImages : k8sImages'[k] = k8sImages[k]
    BY <1>2, <1>5 DEF With
  <2>. QED BY <2>1, <2>2, <2>3
<1>. USE DEF ImageTypeInv, ImageTypeOK
<1>11. /\ k8sIds' \in [Syncs -> SUBSET Ids] /\ k8sIds'[p] = k8sIds[p] \cup {id}
       /\ \A q \in Syncs \ {p} : k8sIds'[q] = k8sIds[q]
  BY <1>5
<1>12. ImageTypeOK'
  BY <1>1, <1>6, <1>7, <1>9, <1>11, NextInstanceType
<1>13. ImageLoops' /\ \A q \in Syncs \ {p} : KeepsLocals(q)
  BY <1>1, <1>6, <1>7, <1>11, NextLoops
<1>14. row = K8sOf(Instance(p))
  BY <1>4 DEF K8sOf, Space, Image
<1>. QED BY <1>1, <1>2, <1>6, <1>7, <1>10, <1>11, <1>12, <1>13, <1>14

LEMMA ImageFailsType ==
  ASSUME ImageTypeInv, NEW p \in Syncs, ImageFails(p)
  PROVE  /\ ImageTypeInv' /\ \A q \in Syncs \ {p} : KeepsLocals(q)
         /\ UNCHANGED imageTables /\ NextInstance(p)
         /\ allSaved'[p] = FALSE
<1>. USE DEF ImageTypeInv, ImageTypeOK
<1>1. /\ UNCHANGED <<running, images, k8sImages, listing, idOf, k8sIds, alone, changes>>
      /\ UNCHANGED imageTables /\ NextInstance(p)
      /\ allSaved' = [allSaved EXCEPT ![p] = FALSE] /\ Fault
  BY DEF ImageFails, imageTables, Failed
<1>2. faults' \in 0 .. MaxFaults
  BY <1>1, FaultType
<1>3. ImageTypeOK'
  BY <1>1, <1>2, NextInstanceType
<1>4. ImageLoops' /\ \A q \in Syncs \ {p} : KeepsLocals(q)
  BY <1>1, NextLoops
<1>. QED BY <1>1, <1>3, <1>4

LEMMA NoStatusType ==
  ASSUME ImageTypeInv, NEW p \in Syncs, NoStatus(p)
  PROVE  /\ ImageTypeInv' /\ \A q \in Syncs \ {p} : KeepsLocals(q)
         /\ UNCHANGED imageTables /\ pc'[p] = "end"
         /\ allSaved'[p] = FALSE
<1>. USE DEF ImageTypeInv, ImageTypeOK
<1>1. /\ UNCHANGED <<running, images, k8sImages, listing, idOf, k8sIds, marks, alone,
                     changes>>
      /\ UNCHANGED imageTables
      /\ pc' = [pc EXCEPT ![p] = "end"] /\ todo' = [todo EXCEPT ![p] = {}]
      /\ allSaved' = [allSaved EXCEPT ![p] = FALSE] /\ Fault
      /\ pc[p] = "find"
  BY DEF NoStatus, imageTables, Failed, Goes, At
<1>2. faults' \in 0 .. MaxFaults
  BY <1>1, FaultType
<1>3. ImageTypeOK'
  BY <1>1, <1>2
<1>4. pc'[p] = "end" /\ todo'[p] = {} /\ allSaved'[p] = FALSE /\ marks[p] = {}
      /\ \A q \in Syncs \ {p} : pc'[q] = pc[q] /\ todo'[q] = todo[q]
  BY <1>1 DEF ImageLoops
<1>5. \A q \in Syncs \ {p} : KeepsLocals(q)
  BY <1>1, <1>4 DEF KeepsLocals
<1>6. ImageLoops'
  BY <1>1, <1>4, <1>5, LoopsStep DEF ImageLoop
<1>. QED BY <1>1, <1>3, <1>4, <1>5, <1>6

LEMMA AnsweredLoops ==
  ASSUME ImageTypeInv, NEW p \in Syncs, NEW statement \in Statements,
         NEW answer \in SUBSET {"threw"}, statement \in marks[p],
         Answered(p, statement, answer),
         \A q \in Syncs \ {p} : k8sIds'[q] = k8sIds[q]
  PROVE  ImageLoops' /\ \A q \in Syncs \ {p} : KeepsLocals(q)
<1>1. \A q \in Syncs \ {p} : KeepsLocals(q)
  BY AnsweredType DEF KeepsLocals
<1>2. /\ pc'[p] \in {"mark", "end"} /\ todo'[p] = {} /\ todo'[p] \subseteq listing'[p]
      /\ marks'[p] # {} => pc'[p] = "mark"
  BY AnsweredType
<1>. QED BY <1>1, <1>2, LoopsStep DEF ImageLoop

LEMMA MarkType ==
  ASSUME ImageTypeInv, NEW p \in Syncs, NEW on \in BOOLEAN,
         NEW statement \in {"on", "off"}, statement \in marks[p],
         images' = Marked(p, on), Answered(p, statement, {}),
         UNCHANGED <<k8sImages, k8sIds, faults>>
  PROVE  ImageTypeInv' /\ \A q \in Syncs \ {p} : KeepsLocals(q)
<1>1. statement \in Statements
  BY DEF Statements
<1>2. IsTable(images, [image : Images, on : BOOLEAN])
  BY DEF ImageTypeInv, ImageTypeOK
<1>3. IsTable(images', [image : Images, on : BOOLEAN])
  BY <1>2, MarkedType
<1>4. ImageTypeOK'
  BY <1>1, <1>3, AnsweredType DEF ImageTypeInv, ImageTypeOK
<1>5. ImageLoops' /\ \A q \in Syncs \ {p} : KeepsLocals(q)
  BY <1>1, AnsweredLoops
<1>. QED BY <1>4, <1>5 DEF ImageTypeInv

LEMMA ClearType ==
  ASSUME ImageTypeInv, NEW p \in Syncs, ClearK8sImages(p)
  PROVE  /\ ImageTypeInv' /\ \A q \in Syncs \ {p} : KeepsLocals(q)
         /\ DOMAIN k8sImages' = DOMAIN k8sImages \cap k8sIds[p]
         /\ \A k \in DOMAIN k8sImages' : k8sImages'[k] = k8sImages[k]
<1>1. /\ "clear" \in marks[p] /\ "clear" \in Statements
      /\ k8sImages' = [k \in DOMAIN k8sImages \cap k8sIds[p] |-> k8sImages[k]]
      /\ k8sIds' = [k8sIds EXCEPT ![p] = {}]
      /\ Answered(p, "clear", {}) /\ UNCHANGED <<images, faults>>
  BY DEF ClearK8sImages, Statements
<1>. DEFINE S == [space : Spaces, hash : {HashOf[i] : i \in Images}]
<1>2. IsTable(k8sImages, S) /\ k8sIds \in [Syncs -> SUBSET Ids]
  BY DEF ImageTypeInv, ImageTypeOK
<1>3. IsTable(k8sImages', S)
  <2>. HIDE DEF S
  <2>. QED BY <1>1, <1>2 DEF IsTable
<1>4. k8sIds' \in [Syncs -> SUBSET Ids] /\ \A q \in Syncs \ {p} : k8sIds'[q] = k8sIds[q]
  BY <1>1, <1>2
<1>5. ImageTypeOK'
  BY <1>1, <1>3, <1>4, AnsweredType DEF ImageTypeInv, ImageTypeOK
<1>6. ImageLoops' /\ \A q \in Syncs \ {p} : KeepsLocals(q)
  BY <1>1, <1>4, AnsweredLoops
<1>. QED BY <1>1, <1>5, <1>6 DEF ImageTypeInv

LEMMA MarkFailsType ==
  ASSUME ImageTypeInv, NEW p \in Syncs, MarkFails(p)
  PROVE  ImageTypeInv' /\ \A q \in Syncs \ {p} : KeepsLocals(q)
<1>1. PICK statement \in Statements :
        statement \in marks[p] /\ Answered(p, statement, {"threw"})
  BY DEF MarkFails
<1>2. Fault /\ UNCHANGED <<images, k8sImages, k8sIds>>
  BY DEF MarkFails
<1>3. faults' \in 0 .. MaxFaults
  BY <1>2, FaultType DEF ImageTypeInv, ImageTypeOK
<1>4. ImageTypeOK'
  BY <1>1, <1>2, <1>3, AnsweredType DEF ImageTypeInv, ImageTypeOK
<1>5. ImageLoops' /\ \A q \in Syncs \ {p} : KeepsLocals(q)
  BY <1>1, <1>2, AnsweredLoops
<1>. QED BY <1>4, <1>5 DEF ImageTypeInv

LEMMA ForgottenImagesType ==
  ASSUME ImageTypeInv, NEW ps \in SUBSET Syncs, ForgottenImages(ps),
         UNCHANGED <<running, imageTables, changes>>, faults' \in 0 .. MaxFaults
  PROVE  /\ ImageTypeInv' /\ \A q \in Syncs \ ps : KeepsLocals(q)
         /\ \A p \in ps : pc'[p] = "idle" /\ allSaved'[p] = TRUE /\ alone'[p] = TRUE
         /\ \A q \in Syncs \ ps : allSaved'[q] = allSaved[q] /\ alone'[q] = alone[q]
<1>. USE DEF ImageTypeInv, ImageTypeOK
<1>1. /\ pc' = [p \in Syncs |-> IF p \in ps THEN "idle" ELSE pc[p]]
      /\ listing' = [p \in Syncs |-> IF p \in ps THEN {} ELSE listing[p]]
      /\ todo' = [p \in Syncs |-> IF p \in ps THEN {} ELSE todo[p]]
      /\ idOf' = [p \in Syncs |-> IF p \in ps THEN NoIds ELSE idOf[p]]
      /\ k8sIds' = [p \in Syncs |-> IF p \in ps THEN {} ELSE k8sIds[p]]
      /\ marks' = [p \in Syncs |-> IF p \in ps THEN {} ELSE marks[p]]
      /\ allSaved' = [p \in Syncs |-> IF p \in ps THEN TRUE ELSE allSaved[p]]
      /\ alone' = [p \in Syncs |-> IF p \in ps THEN TRUE ELSE alone[p]]
  BY DEF ForgottenImages, Reset
<1>2. NoIds \in [Images -> Ids \cup {0}]
  BY DEF NoIds
<1>3. UNCHANGED <<running, images, k8sImages, changes>>
  BY DEF imageTables
<1>4. idOf' \in [Syncs -> [Images -> Ids \cup {0}]]
  BY <1>1, <1>2
<1>5. ImageTypeOK'
  BY <1>1, <1>3, <1>4
<1>6. \A q \in Syncs \ ps : KeepsLocals(q)
  BY <1>1 DEF KeepsLocals
<1>7. \A p \in ps : /\ pc'[p] = "idle" /\ listing'[p] = {} /\ todo'[p] = {}
                    /\ idOf'[p] = NoIds /\ k8sIds'[p] = {} /\ marks'[p] = {}
                    /\ allSaved'[p] = TRUE /\ alone'[p] = TRUE
  BY <1>1
<1>8. ImageLoops'
  BY <1>6, <1>7 DEF ImageLoops, ImageLoop, KeepsLocals
<1>9. \A q \in Syncs \ ps : allSaved'[q] = allSaved[q] /\ alone'[q] = alone[q]
  BY <1>1
<1>. QED BY <1>5, <1>6, <1>7, <1>8, <1>9

(* What is not a sync's doing.                                             *)
Elsewhere == UNCHANGED <<imageTables, imageLocals>>

LEMMA ClusterType ==
  ASSUME ImageTypeInv, NEW w \in Instances, Starts(w) \/ Stops(w)
  PROVE  ImageTypeInv' /\ Elsewhere
<1>1. UNCHANGED <<imageTables, imageLocals, faults>> /\ Elsewhere
  BY DEF Starts, Stops, Elsewhere
<1>2. running' \in SUBSET Instances /\ changes' \in 0 .. MaxChanges
  BY SyncAssumption DEF Starts, Stops, ImageTypeInv, ImageTypeOK
<1>3. UNCHANGED <<images, k8sImages, pc, listing, todo, idOf, k8sIds, marks, allSaved,
                  alone, faults>>
  BY <1>1 DEF imageTables, imageLocals
<1>4. ImageTypeOK'
  BY <1>2, <1>3 DEF ImageTypeInv, ImageTypeOK
<1>5. ImageLoops'
  BY <1>3 DEF ImageTypeInv, ImageLoops
<1>. QED BY <1>1, <1>4, <1>5 DEF ImageTypeInv

LEMMA ImageTypeStep ==
  ASSUME ImageTypeInv, [ImageNext]_imageVars
  PROVE  ImageTypeInv'
<1>1. CASE UNCHANGED imageVars
  <2>1. UNCHANGED <<running, images, k8sImages, pc, listing, todo, idOf, k8sIds, marks,
                    allSaved, alone, changes, faults>>
    BY <1>1 DEF imageVars, imageTables, imageLocals
  <2>2. ImageTypeOK'
    BY <2>1 DEF ImageTypeInv, ImageTypeOK
  <2>3. ImageLoops'
    BY <2>1 DEF ImageTypeInv, ImageLoops
  <2>. QED BY <2>2, <2>3 DEF ImageTypeInv
<1>2. CASE ImageCrash
  <2>1. Fault /\ ForgottenImages(Syncs) /\ UNCHANGED <<running, imageTables, changes>>
    BY <1>2 DEF ImageCrash
  <2>2. faults' \in 0 .. MaxFaults
    BY <2>1, FaultType DEF ImageTypeInv, ImageTypeOK
  <2>. QED BY <2>1, <2>2, ForgottenImagesType
<1>3. ASSUME NEW p \in Syncs, ImagesDone(p) PROVE ImageTypeInv'
  <2>1. ForgottenImages({p}) /\ UNCHANGED <<running, imageTables, changes, faults>>
    BY <1>3 DEF ImagesDone
  <2>2. faults' \in 0 .. MaxFaults
    BY <2>1 DEF ImageTypeInv, ImageTypeOK
  <2>. QED BY <2>1, <2>2, ForgottenImagesType
<1>4. ASSUME NEW p \in Syncs, MarkOff(p) \/ MarkOn(p) PROVE ImageTypeInv'
  BY <1>4, MarkType DEF MarkOff, MarkOn
<1>5. ASSUME NEW p \in Syncs, ImageStep(p) \/ Start(p) PROVE ImageTypeInv'
  BY <1>3, <1>4, <1>5, StartType, FindImageType, CheckImageType, CreateImageType,
     FindK8sImageType, CreateK8sImageType, ClearType DEF ImageStep
<1>6. ASSUME NEW p \in Syncs, ImageFails(p) \/ NoStatus(p) \/ MarkFails(p)
      PROVE  ImageTypeInv'
  BY <1>6, ImageFailsType, NoStatusType, MarkFailsType
<1>. QED BY <1>1, <1>2, <1>5, <1>6, ClusterType DEF ImageNext

(* The tables and what every sync keeps of them have their types, however  *)
(* syncs overlap, fail and are killed: no row without an image, no loop    *)
(* without an image left (ClusterSync of images).                          *)
THEOREM ImagesTypeCorrect == ImageSpec => []ImageTypeOK
<1>1. ImageTypeInv /\ [ImageNext]_imageVars => ImageTypeInv'
  BY ImageTypeStep
<1>2. ImageTypeInv => ImageTypeOK
  BY DEF ImageTypeInv
<1>. QED BY <1>1, <1>2, ImagesInitially, PTL DEF ImageSpec

-----------------------------------------------------------------------------
(* Images: alone *)

(* A sync that is still alone is the only one in progress.                 *)
Alone == \A p \in Syncs : alone[p] /\ pc[p] # "idle" =>
           \A q \in Syncs \ {p} : pc[q] = "idle"

ImageActs(p) == ImageStep(p) \/ ImageFails(p) \/ NoStatus(p) \/ MarkFails(p)

LEMMA ImageActsAlone ==
  ASSUME ImageTypeInv, NEW p \in Syncs, ImageActs(p)
  PROVE  /\ pc[p] # "idle"
         /\ \A q \in Syncs \ {p} : KeepsLocals(q) /\ alone'[q] = alone[q]
         /\ pc'[p] # "idle" => alone' = alone
<1>1. CASE ImagesDone(p)
  <2>1. ForgottenImages({p}) /\ pc[p] # "idle"
        /\ UNCHANGED <<running, imageTables, changes, faults>>
    BY <1>1 DEF ImagesDone, At
  <2>2. faults' \in 0 .. MaxFaults
    BY <2>1 DEF ImageTypeInv, ImageTypeOK
  <2>. QED BY <2>1, <2>2, ForgottenImagesType
<1>2. CASE MarkOff(p) \/ MarkOn(p)
  <2>1. PICK statement \in {"on", "off"} :
          statement \in marks[p] /\ Answered(p, statement, {})
    BY <1>2 DEF MarkOff, MarkOn
  <2>2. pc[p] # "idle" /\ alone' = alone
    BY <2>1, AnsweredType DEF Statements
  <2>3. \A q \in Syncs \ {p} : KeepsLocals(q)
    BY <1>2, MarkType DEF MarkOff, MarkOn
  <2>. QED BY <2>2, <2>3
<1>3. CASE ClearK8sImages(p)
  <2>1. pc[p] # "idle" /\ alone' = alone
    BY <1>3, AnsweredType DEF ClearK8sImages, Statements
  <2>. QED BY <1>3, <2>1, ClearType
<1>4. CASE MarkFails(p)
  <2>1. PICK statement \in Statements :
          statement \in marks[p] /\ Answered(p, statement, {"threw"})
    BY <1>4 DEF MarkFails
  <2>2. pc[p] # "idle" /\ alone' = alone
    BY <2>1, AnsweredType
  <2>. QED BY <1>4, <2>2, MarkFailsType
<1>5. CASE FindImage(p) \/ CheckImage(p) \/ CreateImage(p) \/ FindK8sImage(p)
           \/ CreateK8sImage(p) \/ ImageFails(p) \/ NoStatus(p)
  <2>1. alone' = alone /\ pc[p] # "idle"
    BY <1>5 DEF FindImage, CheckImage, CreateImage, FindK8sImage, CreateK8sImage,
                ImageFails, NoStatus, At
  <2>2. \A q \in Syncs \ {p} : KeepsLocals(q)
    BY <1>5, FindImageType, CheckImageType, CreateImageType, FindK8sImageType,
       CreateK8sImageType, ImageFailsType, NoStatusType
  <2>. QED BY <2>1, <2>2
<1>. QED BY <1>1, <1>2, <1>3, <1>4, <1>5 DEF ImageActs, ImageStep

(* What happens, seen from a sync that is alone after it.                  *)
LEMMA OnlyItself ==
  ASSUME ImageTypeInv, Alone, [ImageNext]_imageVars,
         NEW p \in Syncs, alone'[p], pc'[p] # "idle"
  PROVE  \/ Start(p)
         \/ ImageActs(p) /\ pc[p] # "idle" /\ alone[p]
         \/ Elsewhere
<1>1. CASE UNCHANGED imageVars
  BY <1>1 DEF imageVars, Elsewhere
<1>2. CASE ImageCrash
  <2>1. Fault /\ ForgottenImages(Syncs) /\ UNCHANGED <<running, imageTables, changes>>
    BY <1>2 DEF ImageCrash
  <2>2. faults' \in 0 .. MaxFaults
    BY <2>1, FaultType DEF ImageTypeInv, ImageTypeOK
  <2>. QED BY <2>1, <2>2, ForgottenImagesType
<1>3. CASE ImageActs(p)
  BY <1>3, ImageActsAlone
<1>4. ASSUME NEW q \in Syncs \ {p}, ImageActs(q) PROVE FALSE
  BY <1>4, ImageActsAlone DEF Alone, KeepsLocals
<1>5. ASSUME NEW q \in Syncs \ {p}, Start(q) PROVE FALSE
  BY <1>5, StartType DEF KeepsLocals
<1>. QED BY <1>1, <1>2, <1>3, <1>4, <1>5, ClusterType DEF ImageNext, ImageActs

LEMMA ImageAloneStep ==
  ASSUME ImageTypeInv, Alone, [ImageNext]_imageVars
  PROVE  Alone'
<1>. SUFFICES ASSUME NEW p \in Syncs, alone'[p], pc'[p] # "idle",
                     NEW q \in Syncs \ {p}
              PROVE  pc'[q] = "idle"
  BY DEF Alone
<1>1. CASE Start(p)
  <2>1. pc[q] = "idle"
    BY <1>1, StartType DEF Others
  <2>. QED BY <1>1, <2>1, StartType DEF KeepsLocals
<1>2. CASE ImageActs(p) /\ pc[p] # "idle" /\ alone[p]
  BY <1>2, ImageActsAlone DEF Alone, KeepsLocals
<1>3. CASE Elsewhere
  BY <1>3 DEF Elsewhere, imageLocals, Alone
<1>. QED BY <1>1, <1>2, <1>3, OnlyItself

-----------------------------------------------------------------------------
(* Images: a sync that is alone and saves everything *)

Undisturbed(p) == alone[p] /\ allSaved[p] /\ pc[p] # "idle"
Seen(p) == listing[p] \ todo[p]

(* The ids it keeps are those of rows of images it was told of, one for    *)
(* every image it is done with.                                            *)
IdsHold(p) ==
  /\ \A i \in Images : idOf[p][i] # 0 =>
       /\ idOf[p][i] \in DOMAIN images
       /\ images[idOf[p][i]].image = i
       /\ \E w \in listing[p] : w[1] = i
  /\ \A w \in Seen(p) : idOf[p][w[1]] # 0
  /\ pc[p] \in {"findK8s", "createK8s"} => idOf[p][Image(p)] # 0

(* So are the rows of kubernetes_images it will keep, until it has.        *)
Shows(ids, seen) ==
  /\ \A w \in seen : \E k \in ids : k8sImages[k] = K8sOf(w)
  /\ \A k \in ids : \E w \in seen : k8sImages[k] = K8sOf(w)
K8sKept(p) ==
  pc[p] \in ImageLoop \/ "clear" \in marks[p] =>
    k8sIds[p] \subseteq DOMAIN k8sImages /\ Shows(k8sIds[p], Seen(p))

Past(p, statement) ==
  pc[p] \in {"mark", "end"} /\ statement \notin marks[p] /\ "threw" \notin marks[p]
Cleared(p) == Past(p, "clear") => Shows(DOMAIN k8sImages, listing[p])
RowsMarked(p) ==
  /\ Past(p, "off") => \A k \in DOMAIN images : images[k].on => k \in ImageIds(p)
  /\ Past(p, "on") => \A k \in ImageIds(p) : images[k].on

ImageSyncInv(p) == IdsHold(p) /\ K8sKept(p) /\ Cleared(p) /\ RowsMarked(p)

LEMMA InvElsewhere ==
  ASSUME NEW p \in Syncs, Elsewhere, ImageSyncInv(p)
  PROVE  ImageSyncInv(p)'
<1>1. UNCHANGED <<images, k8sImages, pc, listing, todo, idOf, k8sIds, marks>>
  BY DEF Elsewhere, imageTables, imageLocals
<1>2. IdsHold(p)'
  BY <1>1 DEF ImageSyncInv, IdsHold, Seen, Image, Instance
<1>3. K8sKept(p)'
  BY <1>1 DEF ImageSyncInv, K8sKept, Shows, Seen
<1>4. Cleared(p)'
  BY <1>1 DEF ImageSyncInv, Cleared, Shows, Past
<1>5. RowsMarked(p)'
  BY <1>1 DEF ImageSyncInv, RowsMarked, Past, ImageIds
<1>. QED BY <1>2, <1>3, <1>4, <1>5 DEF ImageSyncInv

LEMMA InvStart ==
  ASSUME ImageTypeInv, NEW p \in Syncs, Start(p)
  PROVE  ImageSyncInv(p)'
<1>1. idOf'[p] = NoIds /\ k8sIds'[p] = {}
  BY StartType DEF ImageTypeInv, ImageLoops, Start, At
<1>2. Seen(p)' = {}
  BY StartType DEF Seen
<1>3. pc'[p] \in {"mark", "find"} /\ (pc'[p] = "mark" => marks'[p] = Statements)
  BY StartType
<1>4. IdsHold(p)'
  BY <1>1, <1>2, <1>3 DEF IdsHold, NoIds
<1>5. K8sKept(p)'
  BY <1>1, <1>2 DEF K8sKept, Shows
<1>6. Cleared(p)' /\ RowsMarked(p)'
  BY <1>3 DEF Cleared, RowsMarked, Past, Statements
<1>. QED BY <1>4, <1>5, <1>6 DEF ImageSyncInv

(* Before the statements nothing is said of them.                          *)
LEMMA NotPast ==
  ASSUME NEW p \in Syncs, pc'[p] \in ImageLoop \/ marks'[p] = Statements
  PROVE  Cleared(p)' /\ RowsMarked(p)'
  BY DEF Cleared, RowsMarked, Past, ImageLoop, Statements

LEMMA SeenGrows ==
  ASSUME ImageTypeInv, NEW p \in Syncs, NextInstance(p), listing' = listing,
         todo[p] # {}
  PROVE  /\ Seen(p)' = Seen(p) \cup {Instance(p)}
         /\ pc'[p] \notin {"findK8s", "createK8s"}
         /\ pc'[p] \in ImageLoop \/ marks'[p] = Statements
<1>1. Instance(p) \in listing[p]
  BY InstanceIsLeft DEF ImageTypeInv, ImageLoops
<1>2. todo'[p] = todo[p] \ {Instance(p)}
  BY NextInstanceType
<1>3. Seen(p)' = Seen(p) \cup {Instance(p)}
  BY <1>1, <1>2, InstanceIsLeft DEF Seen
<1>. QED BY <1>3, NextInstanceType DEF ImageLoop

LEMMA InvFindImage ==
  ASSUME ImageTypeInv, NEW p \in Syncs, FindImage(p), ImageSyncInv(p)
  PROVE  ImageSyncInv(p)'
<1>1. UNCHANGED <<images, k8sImages, listing, todo, k8sIds, marks>> /\ pc[p] = "find"
  BY DEF FindImage, imageTables, At
<1>2. Seen(p)' = Seen(p) /\ Image(p)' = Image(p) /\ todo[p] # {}
  BY <1>1 DEF Seen, Image, Instance, ImageTypeInv, ImageLoops, ImageLoop
<1>3. PICK i \in Images : i = Image(p) /\ \E w \in listing[p] : w[1] = i
  BY <1>2, InstanceIsLeft DEF ImageTypeInv, ImageLoops
<1>4. pc'[p] \in {"check", "findK8s"}
  BY FindImageType
<1>5. K8sKept(p)'
  BY <1>1, <1>2 DEF ImageSyncInv, K8sKept, Shows, ImageLoop
<1>6. Cleared(p)' /\ RowsMarked(p)'
  BY <1>4, NotPast DEF ImageLoop
<1>7. CASE pc'[p] = "check" /\ idOf' = idOf
  <2>1. IdsHold(p)'
    BY <1>1, <1>2, <1>7 DEF ImageSyncInv, IdsHold
  <2>. QED BY <1>5, <1>6, <2>1 DEF ImageSyncInv
<1>8. CASE \E id \in ImageRows(i) : idOf'[p] = [idOf[p] EXCEPT ![i] = id]
  <2>1. PICK id \in ImageRows(i) : idOf'[p] = [idOf[p] EXCEPT ![i] = id]
    BY <1>8
  <2>2. id \in DOMAIN images /\ images[id].image = i /\ id # 0
    BY SyncAssumption DEF ImageRows, ImageTypeInv, ImageTypeOK, IsTable
  <2>3. idOf[p] \in [Images -> Ids \cup {0}]
    BY DEF ImageTypeInv, ImageTypeOK
  <2>4. idOf'[p][i] = id /\ \A j \in Images \ {i} : idOf'[p][j] = idOf[p][j]
    BY <2>1, <2>3
  <2>5. \A w \in Seen(p) : w[1] \in Images
    BY DEF Seen, ImageTypeInv, ImageTypeOK, Instances
  <2>6. IdsHold(p)'
    BY <1>1, <1>2, <1>3, <2>2, <2>4, <2>5 DEF ImageSyncInv, IdsHold
  <2>. QED BY <1>5, <1>6, <2>6 DEF ImageSyncInv
<1>. QED BY <1>3, <1>7, <1>8, FindImageType

LEMMA InvCheckImage ==
  ASSUME ImageTypeInv, NEW p \in Syncs, CheckImage(p), allSaved'[p], ImageSyncInv(p)
  PROVE  ImageSyncInv(p)'
<1>1. UNCHANGED <<images, k8sImages, listing, todo, idOf, k8sIds, marks>>
      /\ pc[p] = "check" /\ pc'[p] = "create"
  BY CheckImageType DEF CheckImage, imageTables
<1>2. Seen(p)' = Seen(p)
  BY <1>1 DEF Seen
<1>3. IdsHold(p)'
  BY <1>1, <1>2 DEF ImageSyncInv, IdsHold
<1>4. K8sKept(p)'
  BY <1>1, <1>2 DEF ImageSyncInv, K8sKept, Shows, ImageLoop
<1>5. Cleared(p)' /\ RowsMarked(p)'
  BY <1>1, NotPast DEF ImageLoop
<1>. QED BY <1>3, <1>4, <1>5 DEF ImageSyncInv

LEMMA InvCreateImage ==
  ASSUME ImageTypeInv, NEW p \in Syncs, CreateImage(p), allSaved'[p], ImageSyncInv(p)
  PROVE  ImageSyncInv(p)'
<1>1. PICK id \in Ids \ DOMAIN images :
        /\ DOMAIN images' = DOMAIN images \cup {id}
        /\ images'[id].image = Image(p)
        /\ \A k \in DOMAIN images : images'[k] = images[k]
        /\ idOf'[p] = [idOf[p] EXCEPT ![Image(p)] = id]
        /\ pc'[p] = "findK8s" /\ UNCHANGED <<todo, marks, allSaved>>
  BY CreateImageType
<1>2. UNCHANGED <<k8sImages, listing, k8sIds>> /\ pc[p] = "create"
  BY CreateImageType DEF CreateImage
<1>3. Seen(p)' = Seen(p) /\ Image(p)' = Image(p) /\ todo[p] # {}
  BY <1>1, <1>2 DEF Seen, Image, Instance, ImageTypeInv, ImageLoops, ImageLoop
<1>4. PICK i \in Images : i = Image(p) /\ \E w \in listing[p] : w[1] = i
  BY <1>3, InstanceIsLeft DEF ImageTypeInv, ImageLoops
<1>5. idOf[p] \in [Images -> Ids \cup {0}]
  BY DEF ImageTypeInv, ImageTypeOK
<1>6. idOf'[p][i] = id /\ id # 0 /\ \A j \in Images \ {i} : idOf'[p][j] = idOf[p][j]
  BY <1>1, <1>4, <1>5, SyncAssumption
<1>7. \A w \in Seen(p) : w[1] \in Images
  BY DEF Seen, ImageTypeInv, ImageTypeOK, Instances
<1>8. IdsHold(p)'
  <2>1. ASSUME NEW j \in Images, idOf'[p][j] # 0
        PROVE  /\ idOf'[p][j] \in DOMAIN images'
               /\ images'[idOf'[p][j]].image = j
               /\ \E w \in listing'[p] : w[1] = j
    <3>1. CASE j = i
      BY <3>1, <1>1, <1>2, <1>4, <1>6
    <3>2. CASE j # i
      <4>1. idOf'[p][j] = idOf[p][j]
        BY <3>2, <1>6
      <4>2. /\ idOf[p][j] \in DOMAIN images
            /\ images[idOf[p][j]].image = j
            /\ \E w \in listing[p] : w[1] = j
        BY <2>1, <4>1 DEF ImageSyncInv, IdsHold
      <4>. QED BY <1>1, <1>2, <4>1, <4>2
    <3>. QED BY <3>1, <3>2
  <2>2. \A w \in Seen(p) : idOf'[p][w[1]] # 0
    BY <1>6, <1>7 DEF ImageSyncInv, IdsHold
  <2>3. idOf'[p][Image(p)'] # 0
    BY <1>3, <1>4, <1>6
  <2>. QED BY <1>3, <2>1, <2>2, <2>3 DEF IdsHold
<1>9. K8sKept(p)'
  BY <1>1, <1>2, <1>3 DEF ImageSyncInv, K8sKept, Shows, ImageLoop
<1>10. Cleared(p)' /\ RowsMarked(p)'
  BY <1>1, NotPast DEF ImageLoop
<1>. QED BY <1>8, <1>9, <1>10 DEF ImageSyncInv

(* The ids hold when the instance they were looked up for is done.         *)
LEMMA IdsHoldNext ==
  ASSUME ImageTypeInv, NEW p \in Syncs, NextInstance(p), ImageSyncInv(p),
         pc[p] \in {"findK8s", "createK8s"}, UNCHANGED <<images, listing, idOf>>
  PROVE  IdsHold(p)'
<1>1. todo[p] # {}
  BY DEF ImageTypeInv, ImageLoops, ImageLoop
<1>2. Seen(p)' = Seen(p) \cup {Instance(p)} /\ pc'[p] \notin {"findK8s", "createK8s"}
  BY <1>1, SeenGrows
<1>3. idOf[p][Instance(p)[1]] # 0
  BY DEF ImageSyncInv, IdsHold, Image
<1>. QED BY <1>2, <1>3 DEF ImageSyncInv, IdsHold

LEMMA InvFindK8sImage ==
  ASSUME ImageTypeInv, NEW p \in Syncs, FindK8sImage(p), ImageSyncInv(p)
  PROVE  ImageSyncInv(p)'
<1>1. UNCHANGED <<images, k8sImages, listing, idOf>> /\ pc[p] = "findK8s" /\ todo[p] # {}
  BY FindK8sImageType DEF imageTables, ImageTypeInv, ImageLoops, ImageLoop
<1>2. k8sIds[p] \subseteq DOMAIN k8sImages /\ Shows(k8sIds[p], Seen(p))
  BY <1>1 DEF ImageSyncInv, K8sKept, ImageLoop
<1>3. CASE pc'[p] = "createK8s" /\ UNCHANGED <<todo, marks, k8sIds>>
  <2>1. Seen(p)' = Seen(p) /\ Image(p)' = Image(p)
    BY <1>1, <1>3 DEF Seen, Image, Instance
  <2>2. IdsHold(p)'
    BY <1>1, <1>3, <2>1 DEF ImageSyncInv, IdsHold
  <2>3. K8sKept(p)'
    BY <1>1, <1>2, <1>3, <2>1 DEF K8sKept, Shows
  <2>4. Cleared(p)' /\ RowsMarked(p)'
    BY <1>3, NotPast DEF ImageLoop
  <2>. QED BY <2>2, <2>3, <2>4 DEF ImageSyncInv
<1>4. CASE /\ NextInstance(p)
           /\ \E id \in DOMAIN k8sImages :
                /\ k8sImages[id] = K8sOf(Instance(p))
                /\ k8sIds'[p] = k8sIds[p] \cup {id}
  <2>1. PICK id \in DOMAIN k8sImages : k8sImages[id] = K8sOf(Instance(p))
                                       /\ k8sIds'[p] = k8sIds[p] \cup {id}
    BY <1>4
  <2>2. Seen(p)' = Seen(p) \cup {Instance(p)}
        /\ (pc'[p] \in ImageLoop \/ marks'[p] = Statements)
    BY <1>1, <1>4, SeenGrows
  <2>3. IdsHold(p)'
    BY <1>1, <1>4, IdsHoldNext
  <2>4. Shows(k8sIds[p] \cup {id}, Seen(p) \cup {Instance(p)})
    BY <1>2, <2>1 DEF Shows
  <2>5. K8sKept(p)'
    BY <1>1, <1>2, <2>1, <2>2, <2>4 DEF K8sKept, Shows
  <2>6. Cleared(p)' /\ RowsMarked(p)'
    BY <2>2, NotPast
  <2>. QED BY <2>3, <2>5, <2>6 DEF ImageSyncInv
<1>. QED BY <1>3, <1>4, FindK8sImageType

LEMMA InvCreateK8sImage ==
  ASSUME ImageTypeInv, NEW p \in Syncs, CreateK8sImage(p), ImageSyncInv(p)
  PROVE  ImageSyncInv(p)'
<1>1. UNCHANGED <<images, listing, idOf>> /\ pc[p] = "createK8s" /\ todo[p] # {}
      /\ NextInstance(p)
  BY CreateK8sImageType DEF ImageTypeInv, ImageLoops, ImageLoop
<1>2. k8sIds[p] \subseteq DOMAIN k8sImages /\ Shows(k8sIds[p], Seen(p))
  BY <1>1 DEF ImageSyncInv, K8sKept, ImageLoop
<1>3. PICK id \in Ids \ DOMAIN k8sImages :
        /\ DOMAIN k8sImages' = DOMAIN k8sImages \cup {id}
        /\ k8sImages'[id] = K8sOf(Instance(p))
        /\ \A k \in DOMAIN k8sImages : k8sImages'[k] = k8sImages[k]
        /\ k8sIds'[p] = k8sIds[p] \cup {id}
  BY CreateK8sImageType
<1>4. Seen(p)' = Seen(p) \cup {Instance(p)}
      /\ (pc'[p] \in ImageLoop \/ marks'[p] = Statements)
  BY <1>1, SeenGrows
<1>5. /\ \A w \in Seen(p)' : \E k \in k8sIds'[p] : k8sImages'[k] = K8sOf(w)
      /\ \A k \in k8sIds'[p] : \E w \in Seen(p)' : k8sImages'[k] = K8sOf(w)
  BY <1>2, <1>3, <1>4 DEF Shows
<1>6. K8sKept(p)'
  BY <1>2, <1>3, <1>5 DEF K8sKept, Shows
<1>7. IdsHold(p)'
  BY <1>1, IdsHoldNext
<1>8. Cleared(p)' /\ RowsMarked(p)'
  BY <1>4, NotPast
<1>. QED BY <1>6, <1>7, <1>8 DEF ImageSyncInv

LEMMA ImageIdsExist ==
  ASSUME NEW p \in Syncs, IdsHold(p), NEW k \in ImageIds(p)
  PROVE  k \in DOMAIN images
  BY DEF IdsHold, ImageIds

(* An answer after which the sync still reports success leaves exactly the   *)
(* statements that have not answered, and the error if there was one.      *)
LEMMA AnsweredSaved ==
  ASSUME ImageTypeInv, NEW p \in Syncs, NEW statement \in Statements,
         NEW answer \in SUBSET {"threw"}, statement \in marks[p],
         Answered(p, statement, answer), allSaved'[p]
  PROVE  /\ pc[p] = "mark" /\ pc'[p] \in {"mark", "end"} /\ todo[p] = {}
         /\ marks'[p] = (marks[p] \ {statement}) \cup answer
         /\ UNCHANGED <<listing, todo, idOf>>
<1>1. /\ pc[p] = "mark" /\ todo[p] = {}
      /\ pc'[p] \in {"mark", "end"}
      /\ UNCHANGED <<running, listing, todo, idOf, alone, changes>>
  BY AnsweredType
<1>2. \/ marks'[p] = (marks[p] \ {statement}) \cup answer /\ allSaved' = allSaved
      \/ /\ marks'[p] = {} /\ allSaved'[p] = FALSE
      \/ /\ marks'[p] = {} /\ marks[p] = {statement} /\ answer = {}
         /\ allSaved' = allSaved
  BY AnsweredType
<1>3. marks'[p] = (marks[p] \ {statement}) \cup answer
  BY <1>2
<1>. QED BY <1>1, <1>3

LEMMA AnsweredWell ==
  ASSUME ImageTypeInv, NEW p \in Syncs, NEW statement \in Statements,
         statement \in marks[p], Answered(p, statement, {}), allSaved'[p]
  PROVE  /\ pc[p] = "mark" /\ pc'[p] \in {"mark", "end"} /\ todo[p] = {}
         /\ marks'[p] = marks[p] \ {statement}
         /\ UNCHANGED <<listing, todo, idOf>>
         /\ \A other \in Statements \ {statement} :
              Past(p, other)' => Past(p, other)
<1>1. PICK answer \in SUBSET {"threw"} : answer = {} /\ Answered(p, statement, answer)
  OBVIOUS
<1>2. /\ pc[p] = "mark" /\ pc'[p] \in {"mark", "end"} /\ todo[p] = {}
      /\ marks'[p] = (marks[p] \ {statement}) \cup answer
      /\ UNCHANGED <<listing, todo, idOf>>
  BY <1>1, AnsweredSaved
<1>3. marks'[p] = marks[p] \ {statement}
  BY <1>1, <1>2
<1>. QED BY <1>2, <1>3 DEF Past, Statements

LEMMA InvMarkOff ==
  ASSUME ImageTypeInv, NEW p \in Syncs, MarkOff(p), allSaved'[p], ImageSyncInv(p)
  PROVE  ImageSyncInv(p)'
<1>. DEFINE ids == ImageIds(p)
<1>1. /\ "off" \in marks[p] /\ "off" \in Statements /\ images' = Marked(p, FALSE)
      /\ Answered(p, "off", {}) /\ UNCHANGED <<k8sImages, k8sIds>>
  BY DEF MarkOff, Statements
<1>2. /\ pc[p] = "mark" /\ pc'[p] \in {"mark", "end"}
      /\ marks'[p] = marks[p] \ {"off"} /\ UNCHANGED <<listing, todo, idOf>>
      /\ Past(p, "clear")' => Past(p, "clear")
      /\ Past(p, "on")' => Past(p, "on")
  BY <1>1, AnsweredWell DEF Statements
<1>3. /\ DOMAIN images' = DOMAIN images
      /\ \A k \in DOMAIN images :
           /\ images'[k].image = images[k].image
           /\ images'[k].on = IF k \in ids THEN images[k].on ELSE FALSE
  <2>1. IsTable(images, [image : Images, on : BOOLEAN])
    BY DEF ImageTypeInv, ImageTypeOK
  <2>2. /\ DOMAIN Marked(p, FALSE) = DOMAIN images
        /\ \A k \in DOMAIN images :
             /\ Marked(p, FALSE)[k].image = images[k].image
             /\ Marked(p, FALSE)[k].on = IF (k \in ids <=> FALSE) THEN FALSE
                                         ELSE images[k].on
    BY <2>1, MarkedType
  <2>3. ASSUME NEW k \in DOMAIN images
        PROVE  images'[k].on = IF k \in ids THEN images[k].on ELSE FALSE
    <3>1. Marked(p, FALSE)[k].on = IF (k \in ids <=> FALSE) THEN FALSE ELSE images[k].on
      BY <2>2
    <3>. HIDE DEF ids
    <3>2. CASE k \in ids
      BY <1>1, <3>1, <3>2
    <3>3. CASE k \notin ids
      BY <1>1, <3>1, <3>3
    <3>. QED BY <3>2, <3>3
  <2>. HIDE DEF ids
  <2>. QED BY <1>1, <2>2, <2>3
<1>4. Seen(p)' = Seen(p) /\ ImageIds(p)' = ids
  BY <1>2 DEF Seen, ImageIds
<1>5. IdsHold(p)'
  BY <1>2, <1>3, <1>4 DEF ImageSyncInv, IdsHold
<1>6. K8sKept(p)'
  BY <1>1, <1>2, <1>4 DEF ImageSyncInv, K8sKept, Shows, ImageLoop
<1>7. Cleared(p)'
  BY <1>1, <1>2 DEF ImageSyncInv, Cleared, Shows
<1>8. \A k \in ids : k \in DOMAIN images
  BY ImageIdsExist DEF ImageSyncInv
<1>9. \A k \in DOMAIN images' : images'[k].on => k \in ids
  BY <1>3
<1>10. Past(p, "on")' => \A k \in ids : images'[k].on
  BY <1>2, <1>3, <1>8 DEF ImageSyncInv, RowsMarked
<1>11. RowsMarked(p)'
  <2>. HIDE DEF ids
  <2>. QED BY <1>4, <1>9, <1>10 DEF RowsMarked
<1>. QED BY <1>5, <1>6, <1>7, <1>11 DEF ImageSyncInv

LEMMA InvMarkOn ==
  ASSUME ImageTypeInv, NEW p \in Syncs, MarkOn(p), allSaved'[p], ImageSyncInv(p)
  PROVE  ImageSyncInv(p)'
<1>. DEFINE ids == ImageIds(p)
<1>1. /\ "on" \in marks[p] /\ "on" \in Statements /\ images' = Marked(p, TRUE)
      /\ Answered(p, "on", {}) /\ UNCHANGED <<k8sImages, k8sIds>>
  BY DEF MarkOn, Statements
<1>2. /\ pc[p] = "mark" /\ pc'[p] \in {"mark", "end"}
      /\ marks'[p] = marks[p] \ {"on"} /\ UNCHANGED <<listing, todo, idOf>>
      /\ Past(p, "clear")' => Past(p, "clear")
      /\ Past(p, "off")' => Past(p, "off")
  BY <1>1, AnsweredWell DEF Statements
<1>3. /\ DOMAIN images' = DOMAIN images
      /\ \A k \in DOMAIN images :
           /\ images'[k].image = images[k].image
           /\ images'[k].on = IF k \in ids THEN TRUE ELSE images[k].on
  BY <1>1, MarkedType DEF ImageTypeInv, ImageTypeOK
<1>4. Seen(p)' = Seen(p) /\ ImageIds(p)' = ids
  BY <1>2 DEF Seen, ImageIds
<1>5. IdsHold(p)'
  BY <1>2, <1>3, <1>4 DEF ImageSyncInv, IdsHold
<1>6. K8sKept(p)'
  BY <1>1, <1>2, <1>4 DEF ImageSyncInv, K8sKept, Shows, ImageLoop
<1>7. Cleared(p)'
  BY <1>1, <1>2 DEF ImageSyncInv, Cleared, Shows
<1>8. \A k \in ids : k \in DOMAIN images
  BY ImageIdsExist DEF ImageSyncInv
<1>9. \A k \in ids : images'[k].on
  BY <1>3, <1>8
<1>10. Past(p, "off")' => \A k \in DOMAIN images' : images'[k].on => k \in ids
  BY <1>2, <1>3 DEF ImageSyncInv, RowsMarked
<1>11. RowsMarked(p)'
  <2>. HIDE DEF ids
  <2>. QED BY <1>4, <1>9, <1>10 DEF RowsMarked
<1>. QED BY <1>5, <1>6, <1>7, <1>11 DEF ImageSyncInv

LEMMA InvClear ==
  ASSUME ImageTypeInv, NEW p \in Syncs, ClearK8sImages(p), allSaved'[p], ImageSyncInv(p)
  PROVE  ImageSyncInv(p)'
<1>1. /\ "clear" \in marks[p] /\ "clear" \in Statements
      /\ Answered(p, "clear", {}) /\ UNCHANGED images
  BY DEF ClearK8sImages, Statements
<1>2. /\ pc[p] = "mark" /\ pc'[p] \in {"mark", "end"} /\ todo[p] = {}
      /\ marks'[p] = marks[p] \ {"clear"} /\ UNCHANGED <<listing, todo, idOf>>
      /\ Past(p, "off")' => Past(p, "off")
      /\ Past(p, "on")' => Past(p, "on")
  BY <1>1, AnsweredWell DEF Statements
<1>3. k8sIds[p] \subseteq DOMAIN k8sImages /\ Shows(k8sIds[p], listing[p])
  BY <1>1, <1>2 DEF ImageSyncInv, K8sKept, Seen
<1>4. DOMAIN k8sImages' = k8sIds[p] /\ \A k \in k8sIds[p] : k8sImages'[k] = k8sImages[k]
  BY <1>3, ClearType
<1>5. Seen(p)' = Seen(p) /\ ImageIds(p)' = ImageIds(p)
  BY <1>2 DEF Seen, ImageIds
<1>6. IdsHold(p)'
  BY <1>1, <1>2, <1>5 DEF ImageSyncInv, IdsHold
<1>7. K8sKept(p)'
  BY <1>2 DEF K8sKept, ImageLoop
<1>8. Cleared(p)'
  BY <1>2, <1>3, <1>4 DEF Cleared, Shows
<1>9. RowsMarked(p)'
  BY <1>1, <1>2, <1>5 DEF ImageSyncInv, RowsMarked
<1>. QED BY <1>6, <1>7, <1>8, <1>9 DEF ImageSyncInv

LEMMA InvMarkFails ==
  ASSUME ImageTypeInv, NEW p \in Syncs, MarkFails(p), allSaved'[p], ImageSyncInv(p)
  PROVE  ImageSyncInv(p)'
<1>1. PICK statement \in Statements :
        statement \in marks[p] /\ Answered(p, statement, {"threw"})
  BY DEF MarkFails
<1>2. UNCHANGED <<images, k8sImages, k8sIds>>
  BY DEF MarkFails
<1>3. /\ pc[p] = "mark" /\ pc'[p] \in {"mark", "end"}
      /\ marks'[p] = (marks[p] \ {statement}) \cup {"threw"}
      /\ UNCHANGED <<listing, todo, idOf>>
  <2>1. PICK answer \in SUBSET {"threw"} :
          answer = {"threw"} /\ Answered(p, statement, answer)
    BY <1>1
  <2>2. /\ pc[p] = "mark" /\ pc'[p] \in {"mark", "end"}
        /\ marks'[p] = (marks[p] \ {statement}) \cup answer
        /\ UNCHANGED <<listing, todo, idOf>>
    BY <1>1, <2>1, AnsweredSaved
  <2>. QED BY <2>1, <2>2
<1>4. Seen(p)' = Seen(p)
  BY <1>3 DEF Seen
<1>5. IdsHold(p)'
  BY <1>2, <1>3, <1>4 DEF ImageSyncInv, IdsHold
<1>6. K8sKept(p)'
  BY <1>2, <1>3, <1>4 DEF ImageSyncInv, K8sKept, Shows, ImageLoop
<1>7. Cleared(p)' /\ RowsMarked(p)'
  BY <1>3 DEF Cleared, RowsMarked, Past
<1>. QED BY <1>5, <1>6, <1>7 DEF ImageSyncInv

ImageSyncsInv == \A p \in Syncs : Undisturbed(p) => ImageSyncInv(p)

(* Nothing that failed is forgotten before the sync ends.                  *)
LEMMA FailureStays ==
  ASSUME ImageTypeInv, NEW p \in Syncs, ImageActs(p), pc'[p] # "idle", allSaved'[p]
  PROVE  allSaved[p]
<1>. allSaved \in [Syncs -> BOOLEAN]
  BY DEF ImageTypeInv, ImageTypeOK
<1>1. CASE FindImage(p) \/ FindK8sImage(p) \/ CreateK8sImage(p)
  BY <1>1, CreateK8sImageType DEF FindImage, FindK8sImage
<1>2. CASE CheckImage(p) \/ CreateImage(p)
  BY <1>2, CheckImageType, CreateImageType
<1>3. CASE ImagesDone(p)
  <2>1. ForgottenImages({p}) /\ UNCHANGED <<running, imageTables, changes, faults>>
    BY <1>3 DEF ImagesDone
  <2>2. faults' \in 0 .. MaxFaults
    BY <2>1 DEF ImageTypeInv, ImageTypeOK
  <2>. QED BY <2>1, <2>2, ForgottenImagesType
<1>4. CASE MarkOff(p) \/ MarkOn(p) \/ ClearK8sImages(p) \/ MarkFails(p)
  <2>1. PICK statement \in Statements, answer \in SUBSET {"threw"} :
          statement \in marks[p] /\ Answered(p, statement, answer)
    BY <1>4 DEF MarkOff, MarkOn, ClearK8sImages, MarkFails, Statements
  <2>. QED BY <2>1, AnsweredType
<1>5. CASE ImageFails(p) \/ NoStatus(p)
  BY <1>5, ImageFailsType, NoStatusType
<1>. QED BY <1>1, <1>2, <1>3, <1>4, <1>5 DEF ImageActs, ImageStep

LEMMA ImageSyncStep ==
  ASSUME ImageTypeInv, Alone, ImageSyncsInv, [ImageNext]_imageVars
  PROVE  ImageSyncsInv'
<1>. SUFFICES ASSUME NEW p \in Syncs, Undisturbed(p)'
              PROVE  ImageSyncInv(p)'
  BY DEF ImageSyncsInv
<1>1. alone'[p] /\ allSaved'[p] /\ pc'[p] # "idle"
  BY DEF Undisturbed
<1>2. CASE Start(p)
  BY <1>2, InvStart
<1>3. CASE ImageActs(p) /\ pc[p] # "idle" /\ alone[p]
  <2>1. allSaved[p]
    BY <1>1, <1>3, FailureStays
  <2>2. ImageSyncInv(p)
    BY <1>3, <2>1 DEF ImageSyncsInv, Undisturbed
  <2>3. ~ImagesDone(p)
    <3>1. SUFFICES ASSUME ImagesDone(p) PROVE FALSE
      OBVIOUS
    <3>2. pc' = [q \in Syncs |-> IF q \in {p} THEN "idle" ELSE pc[q]]
      BY <3>1 DEF ImagesDone, ForgottenImages, Reset
    <3>. QED BY <1>1, <3>2
  <2>4. CASE ImageFails(p) \/ NoStatus(p)
    BY <1>1, <2>4, ImageFailsType, NoStatusType
  <2>. QED BY <1>1, <1>3, <2>2, <2>3, <2>4, InvFindImage, InvCheckImage,
             InvCreateImage, InvFindK8sImage, InvCreateK8sImage, InvMarkOff,
             InvMarkOn, InvClear, InvMarkFails DEF ImageActs, ImageStep
<1>4. CASE Elsewhere
  <2>1. Undisturbed(p)
    BY <1>1, <1>4 DEF Elsewhere, imageLocals, Undisturbed
  <2>. QED BY <1>4, <2>1, InvElsewhere DEF ImageSyncsInv
<1>. QED BY <1>1, <1>2, <1>3, <1>4, OnlyItself

(* At the end of an undisturbed sync the rows that are marked are those of *)
(* the images it was told of, and the other table shows what it was told.  *)
LEMMA InvMirrors ==
  ASSUME ImageTypeInv, NEW p \in Syncs, ImageSyncInv(p), pc[p] = "end"
  PROVE  MirrorsImages(listing[p])
<1>1. todo[p] = {} /\ marks[p] = {} /\ Seen(p) = listing[p]
  BY DEF ImageTypeInv, ImageLoops, ImageLoop, Seen
<1>2. /\ \A k \in DOMAIN images : images[k].on <=> k \in ImageIds(p)
      /\ \A k \in ImageIds(p) : k \in DOMAIN images
  <2>1. \A k \in ImageIds(p) : k \in DOMAIN images
    BY ImageIdsExist DEF ImageSyncInv
  <2>2. /\ \A k \in DOMAIN images : images[k].on => k \in ImageIds(p)
        /\ \A k \in ImageIds(p) : images[k].on
    BY <1>1 DEF ImageSyncInv, RowsMarked, Past
  <2>. QED BY <2>1, <2>2
<1>3. ASSUME NEW k \in DOMAIN images, images[k].on
      PROVE  \E w \in listing[p] : images[k].image = w[1]
  <2>1. PICK i \in Images : k = idOf[p][i] /\ idOf[p][i] # 0
    BY <1>2, <1>3 DEF ImageIds
  <2>. QED BY <2>1 DEF ImageSyncInv, IdsHold
<1>4. ASSUME NEW w \in listing[p]
      PROVE  \E k \in {l \in DOMAIN images : images[l].on} : images[k].image = w[1]
  <2>1. w[1] \in Images
    BY DEF ImageTypeInv, ImageTypeOK, Instances
  <2>2. idOf[p][w[1]] # 0
    BY <1>1 DEF ImageSyncInv, IdsHold
  <2>3. PICK k : k = idOf[p][w[1]]
    OBVIOUS
  <2>4. k \in DOMAIN images /\ images[k].image = w[1]
    BY <2>1, <2>2, <2>3 DEF ImageSyncInv, IdsHold
  <2>5. k \in ImageIds(p)
    BY <2>1, <2>2, <2>3 DEF ImageIds
  <2>. QED BY <1>2, <2>4, <2>5
<1>5. {images[k].image : k \in {l \in DOMAIN images : images[l].on}}
        = {w[1] : w \in listing[p]}
  BY <1>3, <1>4
<1>6. Shows(DOMAIN k8sImages, listing[p])
  BY <1>1 DEF ImageSyncInv, Cleared, Past
<1>7. {k8sImages[k] : k \in DOMAIN k8sImages}
        = {[space |-> w[2], hash |-> HashOf[w[1]]] : w \in listing[p]}
  <2>1. {k8sImages[k] : k \in DOMAIN k8sImages} = {K8sOf(w) : w \in listing[p]}
    BY <1>6 DEF Shows
  <2>. QED BY <2>1 DEF K8sOf
<1>. QED BY <1>5, <1>7 DEF MirrorsImages

LEMMA ImagesInvInitially == ImageInit => Alone /\ ImageSyncsInv
  BY DEF ImageInit, Alone, ImageSyncsInv, Undisturbed

(* A sync of images that ran alone and saved everything has left exactly   *)
(* its images running and one row for each namespace and hash it saw,      *)
(* whatever rows the syncs before it left: those that overlapped, failed   *)
(* or were killed (saveK8sImages, updateRunningImages).                    *)
THEOREM SuccessfulSyncMirrorsTheCluster == ImageSpec => []SuccessMirrorsTheCluster
<1>. DEFINE IInv == ImageTypeInv /\ Alone /\ ImageSyncsInv
<1>1. ImageInit => IInv
  BY ImagesInitially, ImagesInvInitially
<1>2. IInv /\ [ImageNext]_imageVars => IInv'
  BY ImageTypeStep, ImageAloneStep, ImageSyncStep
<1>3. IInv => SuccessMirrorsTheCluster
  <2>. SUFFICES ASSUME IInv, NEW p \in Syncs, At(p, "end"), alone[p], allSaved[p]
                PROVE  MirrorsImages(listing[p])
    BY DEF SuccessMirrorsTheCluster
  <2>1. pc[p] = "end" /\ Undisturbed(p)
    BY DEF At, Undisturbed
  <2>. QED BY <2>1, InvMirrors DEF ImageSyncsInv
<1>. HIDE DEF IInv
<1>. QED BY <1>1, <1>2, <1>3, PTL DEF ImageSpec

-----------------------------------------------------------------------------
(* Rows that overlapping syncs insert *)

(* A row that a sync is going to insert counts like a row: every sync has  *)
(* looked for one before, so there were none when the first began.         *)
Room(found, creating) ==
  /\ IsFiniteSet(found)
  /\ Cardinality(found) + Cardinality(creating) <= Cardinality(Syncs)

LEMMA CreatingIsFinite ==
  ASSUME NEW T \in SUBSET Syncs
  PROVE  IsFiniteSet(T) /\ Cardinality(T) \in Nat /\ Cardinality(T) <= Cardinality(Syncs)
         /\ Cardinality(Syncs) \in Nat
  BY SyncAssumption, FS_Subset, FS_CardinalityType

(* Nobody begins to insert, and no row is added.                           *)
LEMMA RoomShrinks ==
  ASSUME NEW found, NEW creating \in SUBSET Syncs, Room(found, creating),
         NEW left \in SUBSET found, NEW still \in SUBSET creating
  PROVE  Room(left, still)
<1>1. /\ IsFiniteSet(creating) /\ Cardinality(creating) \in Nat
      /\ Cardinality(still) \in Nat /\ Cardinality(Syncs) \in Nat
  BY CreatingIsFinite
<1>2. Cardinality(still) <= Cardinality(creating)
  BY <1>1, FS_Subset
<1>3. /\ IsFiniteSet(found) /\ Cardinality(found) \in Nat
      /\ Cardinality(found) + Cardinality(creating) <= Cardinality(Syncs)
  BY FS_CardinalityType DEF Room
<1>4. /\ IsFiniteSet(left) /\ Cardinality(left) \in Nat
      /\ Cardinality(left) <= Cardinality(found)
  BY <1>3, FS_Subset, FS_CardinalityType
<1>. QED BY <1>1, <1>2, <1>3, <1>4 DEF Room

(* As long as there is no row every sync may insert one.                   *)
LEMMA RoomAtFirst ==
  ASSUME NEW creating \in SUBSET Syncs
  PROVE  Room({}, creating)
<1>1. Cardinality(creating) <= Cardinality(Syncs) /\ Cardinality(creating) \in Nat
  BY CreatingIsFinite
<1>2. IsFiniteSet({}) /\ Cardinality({}) = 0
  BY FS_EmptySet
<1>3. 0 + Cardinality(creating) <= Cardinality(Syncs)
  BY <1>1
<1>. QED BY <1>2, <1>3 DEF Room

(* The row that is inserted has been counted.                              *)
LEMMA RoomFills ==
  ASSUME NEW found, NEW creating \in SUBSET Syncs, Room(found, creating),
         NEW id, id \notin found, NEW p \in creating,
         NEW still \in SUBSET (creating \ {p})
  PROVE  Room(found \cup {id}, still)
<1>1. creating \ {p} \in SUBSET Syncs /\ still \in SUBSET Syncs
  OBVIOUS
<1>2. /\ IsFiniteSet(creating) /\ IsFiniteSet(creating \ {p})
      /\ Cardinality(creating) \in Nat /\ Cardinality(creating \ {p}) \in Nat
      /\ Cardinality(still) \in Nat /\ Cardinality(Syncs) \in Nat
  BY <1>1, CreatingIsFinite
<1>3. Cardinality(still) <= Cardinality(creating \ {p})
  BY <1>2, FS_Subset
<1>4. Cardinality(creating \ {p}) = Cardinality(creating) - 1
  BY <1>2, FS_RemoveElement
<1>5. /\ IsFiniteSet(found) /\ Cardinality(found) \in Nat
      /\ Cardinality(found) + Cardinality(creating) <= Cardinality(Syncs)
  BY FS_CardinalityType DEF Room
<1>6. /\ IsFiniteSet(found \cup {id})
      /\ Cardinality(found \cup {id}) = Cardinality(found) + 1
  BY <1>5, FS_AddElement
<1>7. (Cardinality(found) + 1) + Cardinality(still) <= Cardinality(Syncs)
  BY <1>2, <1>3, <1>4, <1>5
<1>. QED BY <1>6, <1>7 DEF Room

LEMMA RoomIsEnough ==
  ASSUME NEW found, NEW creating \in SUBSET Syncs, Room(found, creating)
  PROVE  Cardinality(found) <= Cardinality(Syncs)
<1>1. /\ Cardinality(creating) \in Nat /\ Cardinality(Syncs) \in Nat
      /\ Cardinality(found) \in Nat
      /\ Cardinality(found) + Cardinality(creating) <= Cardinality(Syncs)
  BY CreatingIsFinite, FS_CardinalityType DEF Room
<1>. QED BY <1>1

-----------------------------------------------------------------------------
(* Images: rows *)

(* Syncs that have found no row of an image.                               *)
Creating(i) == {p \in Syncs : pc[p] = "create" /\ Image(p) = i}
FewFor(i) == Room(ImageRows(i), Creating(i))
Few == \A i \in Images : FewFor(i)

LEMMA FewWithout ==
  ASSUME NEW i \in Images, FewFor(i), ImageRows(i)' = ImageRows(i),
         Creating(i)' \subseteq Creating(i)
  PROVE  FewFor(i)'
<1>1. Creating(i) \in SUBSET Syncs
  BY DEF Creating
<1>2. Room(ImageRows(i)', Creating(i)')
  BY <1>1, RoomShrinks DEF FewFor
<1>. QED BY <1>2 DEF FewFor, Room

LEMMA FewAtFirst ==
  ASSUME NEW i \in Images, ImageRows(i)' = {}
  PROVE  FewFor(i)'
<1>1. Creating(i)' \in SUBSET Syncs
  BY DEF Creating
<1>2. Room(ImageRows(i)', Creating(i)')
  BY <1>1, RoomAtFirst
<1>. QED BY <1>2 DEF FewFor, Room

LEMMA FewWith ==
  ASSUME NEW i \in Images, FewFor(i), NEW id, id \notin ImageRows(i),
         ImageRows(i)' = ImageRows(i) \cup {id},
         NEW p \in Creating(i), Creating(i)' \subseteq Creating(i) \ {p}
  PROVE  FewFor(i)'
<1>1. Creating(i) \in SUBSET Syncs
  BY DEF Creating
<1>2. Room(ImageRows(i)', Creating(i)')
  BY <1>1, RoomFills DEF FewFor
<1>. QED BY <1>2 DEF FewFor, Room

LEMMA CreatingFrame ==
  ASSUME NEW p \in Syncs, \A q \in Syncs \ {p} : KeepsLocals(q), NEW i \in Images
  PROVE  /\ \A q \in Creating(i)' : q = p \/ q \in Creating(i)
         /\ pc'[p] # "create" => Creating(i)' \subseteq Creating(i) \ {p}
<1>1. ASSUME NEW q \in Creating(i)', q # p
      PROVE  q \in Creating(i)
  <2>1. q \in Syncs /\ pc'[q] = "create" /\ Image(q)' = i
    BY DEF Creating
  <2>2. KeepsLocals(q)
    BY <1>1, <2>1
  <2>3. Image(q)' = Image(q)
    BY <2>2 DEF KeepsLocals, Image, Instance
  <2>. QED BY <2>1, <2>2, <2>3 DEF KeepsLocals, Creating
<1>2. pc'[p] # "create" => p \notin Creating(i)'
  BY DEF Creating
<1>. QED BY <1>1, <1>2

LEMMA FewSame ==
  ASSUME Few, DOMAIN images' = DOMAIN images,
         \A k \in DOMAIN images : images'[k].image = images[k].image,
         \A i \in Images : Creating(i)' \subseteq Creating(i)
  PROVE  Few'
<1>. SUFFICES ASSUME NEW i \in Images PROVE FewFor(i)'
  BY DEF Few
<1>1. ImageRows(i)' = ImageRows(i)
  BY DEF ImageRows
<1>2. FewFor(i) /\ Creating(i)' \subseteq Creating(i)
  BY DEF Few
<1>. QED BY <1>1, <1>2, FewWithout

LEMMA FewCheckImage ==
  ASSUME ImageTypeInv, Few, NEW p \in Syncs, CheckImage(p)
  PROVE  Few'
<1>. SUFFICES ASSUME NEW i \in Images PROVE FewFor(i)'
  BY DEF Few
<1>1. UNCHANGED images /\ \A q \in Syncs \ {p} : KeepsLocals(q)
  BY CheckImageType DEF CheckImage, imageTables
<1>2. ImageRows(i)' = ImageRows(i)
  BY <1>1 DEF ImageRows
<1>3. CASE pc'[p] = "create" /\ ImageRows(Image(p)) = {} /\ todo' = todo
  <2>1. Image(p)' = Image(p)
    BY <1>3 DEF Image, Instance
  <2>2. CASE i = Image(p)
    BY <1>2, <1>3, <2>2, FewAtFirst
  <2>3. CASE i # Image(p)
    <3>1. p \notin Creating(i)'
      BY <2>1, <2>3 DEF Creating
    <3>2. Creating(i)' \subseteq Creating(i)
      BY <1>1, <3>1, CreatingFrame
    <3>. QED BY <1>2, <3>2, FewWithout DEF Few
  <2>. QED BY <2>2, <2>3
<1>4. CASE NextInstance(p)
  <2>1. pc'[p] # "create"
    BY <1>4, NextInstanceType
  <2>2. Creating(i)' \subseteq Creating(i)
    BY <1>1, <2>1, CreatingFrame
  <2>. QED BY <1>2, <2>2, FewWithout DEF Few
<1>. QED BY <1>3, <1>4, CheckImageType

LEMMA FewCreateImage ==
  ASSUME ImageTypeInv, Few, NEW p \in Syncs, CreateImage(p)
  PROVE  Few'
<1>. SUFFICES ASSUME NEW i \in Images PROVE FewFor(i)'
  BY DEF Few
<1>1. pc[p] = "create" /\ \A q \in Syncs \ {p} : KeepsLocals(q)
  BY CreateImageType
<1>2. PICK id \in Ids \ DOMAIN images :
        /\ DOMAIN images' = DOMAIN images \cup {id}
        /\ images'[id].image = Image(p)
        /\ \A k \in DOMAIN images : images'[k] = images[k]
        /\ pc'[p] = "findK8s" \/ NextInstance(p)
  BY CreateImageType
<1>3. pc'[p] # "create"
  BY <1>2, NextInstanceType
<1>4. Creating(i)' \subseteq Creating(i) \ {p}
  BY <1>1, <1>3, CreatingFrame
<1>5. CASE i = Image(p)
  <2>1. ImageRows(i)' = ImageRows(i) \cup {id} /\ id \notin ImageRows(i)
    BY <1>2, <1>5 DEF ImageRows
  <2>2. p \in Creating(i)
    BY <1>1, <1>5 DEF Creating
  <2>. QED BY <1>4, <2>1, <2>2, FewWith DEF Few
<1>6. CASE i # Image(p)
  <2>1. ImageRows(i)' = ImageRows(i)
    BY <1>2, <1>6 DEF ImageRows
  <2>. QED BY <1>4, <2>1, FewWithout DEF Few
<1>. QED BY <1>5, <1>6

LEMMA FewStep ==
  ASSUME ImageTypeInv, Few, [ImageNext]_imageVars
  PROVE  Few'
<1>1. CASE Elsewhere
  <2>1. UNCHANGED <<images, pc, todo>>
    BY <1>1 DEF Elsewhere, imageTables, imageLocals
  <2>2. \A i \in Images : Creating(i)' = Creating(i)
    BY <2>1 DEF Creating, Image, Instance
  <2>. QED BY <2>1, <2>2, FewSame
<1>2. CASE ImageCrash
  <2>1. pc' = [q \in Syncs |-> IF q \in Syncs THEN "idle" ELSE pc[q]]
        /\ UNCHANGED images
    BY <1>2 DEF ImageCrash, ForgottenImages, Reset, imageTables
  <2>2. \A i \in Images : Creating(i)' = {}
    BY <2>1 DEF Creating
  <2>. QED BY <2>1, <2>2, FewSame
<1>3. ASSUME NEW p \in Syncs, \A q \in Syncs \ {p} : KeepsLocals(q), pc'[p] # "create",
             DOMAIN images' = DOMAIN images,
             \A k \in DOMAIN images : images'[k].image = images[k].image
      PROVE  Few'
  <2>1. \A i \in Images : Creating(i)' \subseteq Creating(i)
    BY <1>3, CreatingFrame
  <2>. QED BY <1>3, <2>1, FewSame
<1>4. ASSUME NEW p \in Syncs, Start(p) PROVE Few'
  <2>1. UNCHANGED images /\ pc'[p] # "create" /\ \A q \in Syncs \ {p} : KeepsLocals(q)
    BY <1>4, StartType DEF imageTables
  <2>. QED BY <1>3, <2>1
<1>5. ASSUME NEW p \in Syncs,
             FindImage(p) \/ FindK8sImage(p) \/ CreateK8sImage(p) \/ ImageFails(p)
               \/ NoStatus(p)
      PROVE  Few'
  <2>1. UNCHANGED images
    BY <1>5 DEF FindImage, FindK8sImage, CreateK8sImage, ImageFails, NoStatus, imageTables
  <2>2. pc'[p] # "create"
    BY <1>5, FindImageType, FindK8sImageType, CreateK8sImageType, ImageFailsType,
       NoStatusType, NextInstanceType
  <2>3. \A q \in Syncs \ {p} : KeepsLocals(q)
    BY <1>5, FindImageType, FindK8sImageType, CreateK8sImageType, ImageFailsType,
       NoStatusType
  <2>. QED BY <1>3, <2>1, <2>2, <2>3
<1>6. ASSUME NEW p \in Syncs,
             MarkOff(p) \/ MarkOn(p) \/ ClearK8sImages(p) \/ MarkFails(p)
      PROVE  Few'
  <2>1. PICK statement \in Statements, answer \in SUBSET {"threw"} :
          statement \in marks[p] /\ Answered(p, statement, answer)
    BY <1>6 DEF MarkOff, MarkOn, ClearK8sImages, MarkFails, Statements
  <2>2. pc'[p] # "create"
    BY <2>1, AnsweredType
  <2>3. \A q \in Syncs \ {p} : KeepsLocals(q)
    BY <1>6, MarkType, ClearType, MarkFailsType DEF MarkOff, MarkOn
  <2>4. DOMAIN images' = DOMAIN images
        /\ \A k \in DOMAIN images : images'[k].image = images[k].image
    <3>1. CASE UNCHANGED images
      BY <3>1
    <3>2. ASSUME NEW on \in BOOLEAN, images' = Marked(p, on)
          PROVE  DOMAIN images' = DOMAIN images
                 /\ \A k \in DOMAIN images : images'[k].image = images[k].image
      <4>1. IsTable(images, [image : Images, on : BOOLEAN])
        BY DEF ImageTypeInv, ImageTypeOK
      <4>. QED BY <3>2, <4>1, MarkedType
    <3>. QED BY <1>6, <3>1, <3>2 DEF MarkOff, MarkOn, ClearK8sImages, MarkFails
  <2>. QED BY <1>3, <2>2, <2>3, <2>4
<1>7. ASSUME NEW p \in Syncs, ImagesDone(p) PROVE Few'
  <2>1. ForgottenImages({p}) /\ UNCHANGED <<running, imageTables, changes, faults>>
    BY <1>7 DEF ImagesDone
  <2>2. faults' \in 0 .. MaxFaults
    BY <2>1 DEF ImageTypeInv, ImageTypeOK
  <2>3. pc'[p] # "create" /\ \A q \in Syncs \ {p} : KeepsLocals(q)
    BY <2>1, <2>2, ForgottenImagesType
  <2>. QED BY <1>3, <2>1, <2>3 DEF imageTables
<1>. QED BY <1>1, <1>2, <1>4, <1>5, <1>6, <1>7, FewCheckImage, FewCreateImage, ClusterType
         DEF ImageNext, ImageStep, Elsewhere, imageVars

LEMMA FewInitially == ImageInit => Few
<1>. SUFFICES ASSUME ImageInit, NEW i \in Images PROVE FewFor(i)
  BY DEF Few
<1>1. ImageRows(i) = {} /\ Creating(i) \in SUBSET Syncs
  BY DEF ImageInit, Empty, ImageRows, Creating
<1>. QED BY <1>1, RoomAtFirst DEF FewFor

(* However syncs overlap, fail and are killed, an image gets no more rows  *)
(* than there are syncs (createImage looks for the row before it inserts). *)
THEOREM RowsPerImageAreFew == ImageSpec => []FewRowsPerImage
<1>1. ImageTypeInv /\ Few /\ [ImageNext]_imageVars => (ImageTypeInv /\ Few)'
  BY ImageTypeStep, FewStep
<1>2. ImageTypeInv /\ Few => FewRowsPerImage
  <2>. SUFFICES ASSUME Few, NEW i \in Images
                PROVE  Cardinality(ImageRows(i)) <= Cardinality(Syncs)
    BY DEF FewRowsPerImage, ImageRows
  <2>1. Creating(i) \in SUBSET Syncs
    BY DEF Creating
  <2>. QED BY <2>1, RoomIsEnough DEF Few, FewFor
<1>. QED BY <1>1, <1>2, ImagesInitially, FewInitially, PTL DEF ImageSpec

-----------------------------------------------------------------------------
(* Pods: types *)

PodLoop == {"pod", "create", "unlink", "link"}
PodSteps == PodLoop \cup {"idle", "spaces", "drop", "list", "dead", "unlinkDead",
                          "dropDead", "end"}
PodRow == [space : Spaces, name : {NameOf[q] : q \in Pods}, links : SUBSET Images]

(* While pods are saved one is left to save, and only then.                *)
PodLoops ==
  \A p \in Syncs : (pc[p] \in PodLoop <=> todo[p] # {}) /\ todo[p] \subseteq listing[p]

PodTypeInv == PodTypeOK /\ PodLoops

(* The parts of PodTypeOK that the steps of syncs change.                  *)
PodRowsType == DOMAIN podRows \subseteq Ids /\ podRows \in [DOMAIN podRows -> PodRow]
WorkType ==
  /\ pc \in [Syncs -> PodSteps]
  /\ spaces \in [Syncs -> SUBSET Spaces] /\ doomed \in [Syncs -> SUBSET Spaces]
  /\ listing \in [Syncs -> SUBSET Pods] /\ saved \in [Syncs -> SUBSET Images]
  /\ todo \in [Syncs -> SUBSET Pods] /\ rows \in [Syncs -> SUBSET Ids]
  /\ failed \in [Syncs -> BOOLEAN] /\ alone \in [Syncs -> BOOLEAN]
ClusterTypes ==
  /\ uid \in [Spaces -> Uids] /\ running \subseteq Pods
  /\ spaceRows \subseteq SpaceRows /\ saves \subseteq Saves
  /\ changes \in 0 .. MaxChanges /\ faults \in 0 .. MaxFaults

LEMMA PodTypes == PodTypeOK <=> PodRowsType /\ WorkType /\ ClusterTypes
<1>1. PodSteps = {"idle", "spaces", "drop", "list", "pod", "create", "unlink", "link",
                  "dead", "unlinkDead", "dropDead", "end"}
  BY DEF PodSteps, PodLoop
<1>. QED BY <1>1 DEF PodTypeOK, PodRowsType, WorkType, ClusterTypes, PodRow

LEMMA PodTypesNext ==
  ASSUME PodRowsType', WorkType', ClusterTypes', PodLoops'
  PROVE  PodTypeInv'
<1>1. PodTypeOK' <=> PodRowsType' /\ WorkType' /\ ClusterTypes'
  BY PodTypes, PTL
<1>. QED BY <1>1 DEF PodTypeInv

LEMMA PodIsLeft ==
  ASSUME PodTypeInv, NEW p \in Syncs, todo[p] # {}
  PROVE  Pod(p) \in todo[p] /\ Pod(p) \in listing[p] /\ Pod(p) \in Pods
<1>1. todo[p] \subseteq Pods /\ todo[p] \subseteq listing[p]
  BY PodTypes DEF PodTypeInv, PodLoops, WorkType
<1>2. \E q \in Pods : q \in todo[p]
  BY <1>1
<1>. QED BY <1>1, <1>2 DEF Pod

(* What a step of one sync leaves to the others.                           *)
KeepsPods(p) ==
  /\ pc'[p] = pc[p] /\ listing'[p] = listing[p] /\ todo'[p] = todo[p]
  /\ saved'[p] = saved[p] /\ rows'[p] = rows[p] /\ failed'[p] = failed[p]

LEMMA PodLoopsStep ==
  ASSUME PodTypeInv, NEW p \in Syncs, \A q \in Syncs \ {p} : KeepsPods(q),
         pc'[p] \in PodLoop <=> todo'[p] # {}, todo'[p] \subseteq listing'[p]
  PROVE  PodLoops'
  BY DEF PodTypeInv, PodLoops, KeepsPods

LEMMA PodsInitially == PodInit => PodTypeInv
<1>. SUFFICES ASSUME PodInit PROVE PodTypeInv
  OBVIOUS
<1>. USE DEF PodInit
<1>1. {0, 1} \subseteq Uids /\ 0 \in 0 .. MaxChanges /\ 0 \in 0 .. MaxFaults
  BY SyncAssumption DEF Uids
<1>2. PodRowsType
  BY DEF PodRowsType
<1>3. WorkType
  BY DEF WorkType, PodSteps
<1>4. ClusterTypes
  BY <1>1 DEF ClusterTypes
<1>5. PodLoops
  BY DEF PodLoops, PodLoop
<1>. QED BY <1>2, <1>3, <1>4, <1>5, PodTypes DEF PodTypeInv

(* The cluster changes, and nothing else.                                  *)
NoSync ==
  UNCHANGED <<podRows, pc, listing, todo, saved, rows, failed, alone, spaces, doomed>>

LEMMA NoSyncType ==
  ASSUME PodTypeInv, NoSync, ClusterTypes'
  PROVE  PodTypeInv'
<1>1. PodRowsType'
  BY PodTypes DEF PodTypeInv, PodRowsType, NoSync
<1>2. WorkType'
  BY PodTypes DEF PodTypeInv, WorkType, NoSync
<1>3. PodLoops'
  BY DEF PodTypeInv, PodLoops, NoSync
<1>. QED BY <1>1, <1>2, <1>3, PodTypesNext

LEMMA PodClusterType ==
  ASSUME PodTypeInv,
         \/ \E n \in Spaces : SpaceStarts(n) \/ SpaceStops(n)
         \/ \E q \in Pods : PodStarts(q) \/ PodStops(q)
  PROVE  PodTypeInv' /\ NoSync
<1>1. Changed
  BY DEF SpaceStarts, SpaceStops, PodStarts, PodStops
<1>2. NoSync /\ UNCHANGED <<spaceRows, saves, faults>>
  BY <1>1 DEF Changed, NoSync, podTables, spaceVars, podVars
<1>3. ClusterTypes
  BY PodTypes DEF PodTypeInv
<1>4. changes' = changes + 1 /\ changes \in Nat /\ changes < MaxChanges /\ MaxChanges \in Nat
  BY <1>1, <1>3, SyncAssumption DEF Changed, ClusterTypes
<1>5. changes' \in 0 .. MaxChanges /\ changes + 2 \in Uids /\ 0 \in Uids
  BY <1>4 DEF Uids
<1>6. uid' \in [Spaces -> Uids]
  BY <1>3, <1>5 DEF ClusterTypes, SpaceStarts, SpaceStops, PodStarts, PodStops
<1>7. running' \subseteq Pods
  BY <1>3 DEF ClusterTypes, SpaceStarts, SpaceStops, PodStarts, PodStops
<1>8. ClusterTypes'
  BY <1>2, <1>3, <1>5, <1>6, <1>7 DEF ClusterTypes
<1>. QED BY <1>2, <1>8, NoSyncType

LEMMA SavesType ==
  ASSUME PodTypeInv, NEW s \in saves, SaveChecks(s) \/ SaveInserts(s) \/ SaveFails(s)
  PROVE  PodTypeInv' /\ NoSync
<1>1. NoSync /\ UNCHANGED <<uid, running, changes>>
  BY DEF SaveChecks, SaveInserts, SaveFails, NoSync, cluster, podTables, podVars
<1>2. ClusterTypes
  BY PodTypes DEF PodTypeInv
<1>3. s \in Saves /\ s.row \in SpaceRows
  BY <1>2 DEF ClusterTypes, Saves
<1>4. [s EXCEPT !.step = "insert"] \in Saves
  <2>1. PICK p \in Syncs, row \in SpaceRows, step \in {"check", "insert"} :
          s = [sync |-> p, row |-> row, step |-> step]
    BY <1>3 DEF Saves
  <2>2. [s EXCEPT !.step = "insert"] = [sync |-> p, row |-> row, step |-> "insert"]
    BY <2>1
  <2>. QED BY <2>2 DEF Saves
<1>5. saves' \subseteq Saves
  BY <1>2, <1>4 DEF ClusterTypes, SaveChecks, SaveInserts, SaveFails
<1>6. spaceRows' \subseteq SpaceRows
  BY <1>2, <1>3 DEF ClusterTypes, SaveChecks, SaveInserts, SaveFails, podTables
<1>7. faults' \in 0 .. MaxFaults
  BY <1>2, FaultType DEF ClusterTypes, SaveChecks, SaveInserts, SaveFails
<1>8. ClusterTypes'
  BY <1>1, <1>2, <1>5, <1>6, <1>7 DEF ClusterTypes
<1>. QED BY <1>1, <1>8, NoSyncType

LEMMA MeetsType ==
  ASSUME NEW p \in Syncs, Meets(p), alone \in [Syncs -> BOOLEAN]
  PROVE  /\ alone' \in [Syncs -> BOOLEAN]
         /\ alone'[p] <=> \A q \in Syncs \ {p} : pc[q] = "idle"
         /\ \A q \in Syncs \ {p} : pc[q] # "idle" => ~alone'[q]
<1>1. alone' = [q \in Syncs |-> IF q = p THEN Others(p) = {}
                                ELSE alone[q] /\ q \notin Others(p)]
  BY DEF Meets
<1>2. Others(p) = {} <=> \A q \in Syncs \ {p} : pc[q] = "idle"
  BY DEF Others
<1>3. \A q \in Syncs \ {p} : q \in Others(p) <=> pc[q] # "idle"
  BY DEF Others
<1>. QED BY <1>1, <1>2, <1>3

LEMMA GoesType ==
  ASSUME pc \in [Syncs -> PodSteps], NEW p \in Syncs, NEW step \in PodSteps, Goes(p, step)
  PROVE  /\ pc' \in [Syncs -> PodSteps] /\ pc'[p] = step
         /\ \A q \in Syncs \ {p} : pc'[q] = pc[q]
  BY DEF Goes

LEMMA FailsType ==
  ASSUME failed \in [Syncs -> BOOLEAN], NEW p \in Syncs, Fails(p)
  PROVE  /\ failed' \in [Syncs -> BOOLEAN] /\ failed'[p]
         /\ \A q \in Syncs \ {p} : failed'[q] = failed[q]
  BY DEF Fails

(* The namespaces: nothing of the pods changes.                            *)
SpacesStep(p) == ListSpaces(p) \/ FindDeadSpaces(p) \/ DropSpaces(p) \/ SpacesFail(p)

LEMMA SpacesStepType ==
  ASSUME PodTypeInv, NEW p \in Syncs, SpacesStep(p)
  PROVE  /\ PodTypeInv' /\ \A q \in Syncs \ {p} : KeepsPods(q)
         /\ pc[p] \in {"idle", "spaces", "drop"} /\ pc'[p] \in {"spaces", "drop", "list"}
         /\ UNCHANGED <<running, podRows, listing, todo, saved, rows>>
<1>1. PodRowsType /\ WorkType /\ ClusterTypes /\ PodLoops
  BY PodTypes DEF PodTypeInv
<1>2. UNCHANGED <<running, uid, changes, podRows, listing, todo, saved, rows>>
  BY DEF SpacesStep, ListSpaces, FindDeadSpaces, DropSpaces, SpacesFail,
         cluster, podTables, podVars
<1>3. /\ pc[p] \in {"idle", "spaces", "drop"} /\ pc'[p] \in {"spaces", "drop", "list"}
      /\ pc' \in [Syncs -> PodSteps] /\ \A q \in Syncs \ {p} : pc'[q] = pc[q]
  <2>1. PICK step \in {"spaces", "drop", "list"} :
          Goes(p, step) /\ pc[p] \in {"idle", "spaces", "drop"}
    BY DEF SpacesStep, ListSpaces, FindDeadSpaces, DropSpaces, SpacesFail, At
  <2>2. step \in PodSteps
    BY DEF PodSteps
  <2>. QED BY <1>1, <2>1, <2>2, GoesType DEF WorkType
<1>4. failed' \in [Syncs -> BOOLEAN] /\ \A q \in Syncs \ {p} : failed'[q] = failed[q]
  BY <1>1, FailsType
     DEF WorkType, SpacesStep, ListSpaces, FindDeadSpaces, DropSpaces, SpacesFail
<1>5. alone' \in [Syncs -> BOOLEAN]
  BY <1>1, MeetsType
     DEF WorkType, SpacesStep, ListSpaces, FindDeadSpaces, DropSpaces, SpacesFail
<1>6. spaceRows' \subseteq SpaceRows
  BY <1>1 DEF ClusterTypes, SpacesStep, ListSpaces, FindDeadSpaces, DropSpaces, SpacesFail,
              podTables
<1>7. DeadSpaces(p) \in SUBSET Spaces
  BY <1>1 DEF DeadSpaces, ClusterTypes, SpaceRows
<1>8. doomed' \in [Syncs -> SUBSET Spaces]
  BY <1>1, <1>7 DEF WorkType, SpacesStep, ListSpaces, FindDeadSpaces, DropSpaces, SpacesFail
<1>9. spaces' \in [Syncs -> SUBSET Spaces]
  BY <1>1 DEF WorkType, SpacesStep, ListSpaces, FindDeadSpaces, DropSpaces, SpacesFail
<1>10. saves' \subseteq Saves
  <2>1. CASE ListSpaces(p) /\ saves' # saves
    <3>. DEFINE found == {n \in Spaces : uid[n] # 0}
    <3>1. ASSUME NEW n \in found
          PROVE  [sync |-> p, row |-> SpaceRow(n), step |-> "check"] \in Saves
      <4>1. SpaceRow(n) \in SpaceRows
        BY <1>1 DEF SpaceRow, SpaceRows, ClusterTypes
      <4>. QED BY <4>1 DEF Saves
    <3>2. saves' = saves \cup
            {[sync |-> p, row |-> SpaceRow(n), step |-> "check"] : n \in found}
      BY <2>1 DEF ListSpaces
    <3>. HIDE DEF found
    <3>. QED BY <1>1, <3>1, <3>2 DEF ClusterTypes
  <2>2. CASE ~ListSpaces(p) \/ saves' = saves
    BY <1>1, <2>2 DEF ClusterTypes, SpacesStep, FindDeadSpaces, DropSpaces, SpacesFail
  <2>. QED BY <2>1, <2>2
<1>11. faults' \in 0 .. MaxFaults
  BY <1>1, FaultType
     DEF ClusterTypes, SpacesStep, ListSpaces, FindDeadSpaces, DropSpaces, SpacesFail
<1>12. \A q \in Syncs \ {p} : KeepsPods(q)
  BY <1>2, <1>3, <1>4 DEF KeepsPods
<1>13. PodRowsType'
  BY <1>1, <1>2 DEF PodRowsType
<1>14. WorkType'
  BY <1>1, <1>2, <1>3, <1>4, <1>5, <1>8, <1>9 DEF WorkType
<1>15. ClusterTypes'
  BY <1>1, <1>2, <1>6, <1>10, <1>11 DEF ClusterTypes
<1>16. PodLoops'
  <2>1. pc[p] \notin PodLoop /\ pc'[p] \notin PodLoop
    BY <1>3 DEF PodLoop
  <2>. QED BY <1>1, <1>2, <1>12, <2>1, PodLoopsStep DEF PodLoops
<1>. QED BY <1>2, <1>3, <1>12, <1>13, <1>14, <1>15, <1>16, PodTypesNext

(* The pods: nothing of the cluster and of its namespaces changes.         *)
PodsOnly == UNCHANGED <<uid, running, changes, spaceRows, saves, spaces, doomed, alone>>

LocalsType ==
  /\ listing \in [Syncs -> SUBSET Pods] /\ saved \in [Syncs -> SUBSET Images]
  /\ todo \in [Syncs -> SUBSET Pods] /\ rows \in [Syncs -> SUBSET Ids]
  /\ failed \in [Syncs -> BOOLEAN]

LEMMA PodsOnlyType ==
  ASSUME PodTypeInv, PodsOnly, faults' = faults \/ Fault, PodRowsType', LocalsType',
         pc' \in [Syncs -> PodSteps], PodLoops'
  PROVE  PodTypeInv'
<1>1. WorkType /\ ClusterTypes
  BY PodTypes DEF PodTypeInv
<1>2. faults' \in 0 .. MaxFaults
  BY <1>1, FaultType DEF ClusterTypes
<1>3. WorkType'
  BY <1>1 DEF WorkType, LocalsType, PodsOnly
<1>4. ClusterTypes'
  BY <1>1, <1>2 DEF ClusterTypes, PodsOnly
<1>. QED BY <1>3, <1>4, PodTypesNext

LEMMA PodTypesAre ==
  ASSUME PodTypeInv
  PROVE  PodRowsType /\ LocalsType /\ pc \in [Syncs -> PodSteps] /\ PodLoops
  BY PodTypes DEF PodTypeInv, WorkType, LocalsType

LEMMA NextPodType ==
  ASSUME PodTypeInv, NEW p \in Syncs, NextPod(p)
  PROVE  /\ todo' \in [Syncs -> SUBSET Pods] /\ rows' \in [Syncs -> SUBSET Ids]
         /\ pc' \in [Syncs -> PodSteps]
         /\ todo'[p] = todo[p] \ {Pod(p)} /\ rows'[p] = {}
         /\ pc'[p] = (IF todo'[p] = {} THEN "dead" ELSE "pod")
         /\ \A q \in Syncs \ {p} :
              todo'[q] = todo[q] /\ rows'[q] = rows[q] /\ pc'[q] = pc[q]
<1>. DEFINE rest == todo[p] \ {Pod(p)}
<1>1. LocalsType /\ pc \in [Syncs -> PodSteps]
  BY PodTypesAre
<1>2. rest \in SUBSET Pods
  BY <1>1 DEF LocalsType
<1>3. /\ todo' = [todo EXCEPT ![p] = rest] /\ rows' = [rows EXCEPT ![p] = {}]
      /\ Goes(p, IF rest = {} THEN "dead" ELSE "pod")
  BY DEF NextPod
<1>. HIDE DEF rest
<1>4. todo' \in [Syncs -> SUBSET Pods] /\ todo'[p] = rest
      /\ \A q \in Syncs \ {p} : todo'[q] = todo[q]
  BY <1>1, <1>2, <1>3 DEF LocalsType
<1>5. rows' \in [Syncs -> SUBSET Ids] /\ rows'[p] = {}
      /\ \A q \in Syncs \ {p} : rows'[q] = rows[q]
  BY <1>1, <1>3 DEF LocalsType
<1>6. (IF rest = {} THEN "dead" ELSE "pod") \in PodSteps
  BY DEF PodSteps, PodLoop
<1>7. /\ pc' \in [Syncs -> PodSteps] /\ pc'[p] = (IF rest = {} THEN "dead" ELSE "pod")
      /\ \A q \in Syncs \ {p} : pc'[q] = pc[q]
  BY <1>1, <1>3, <1>6, GoesType
<1>8. rest = todo[p] \ {Pod(p)}
  BY DEF rest
<1>. QED BY <1>4, <1>5, <1>7, <1>8

LEMMA UnlinkedType ==
  ASSUME PodRowsType, NEW ids \in SUBSET Ids, podRows' = Unlinked(ids)
  PROVE  /\ PodRowsType' /\ DOMAIN podRows' = DOMAIN podRows
         /\ \A k \in DOMAIN podRows :
              /\ podRows'[k].space = podRows[k].space
              /\ podRows'[k].name = podRows[k].name
              /\ podRows'[k].links = IF k \in ids THEN {} ELSE podRows[k].links
<1>1. DOMAIN podRows \subseteq Ids /\ podRows \in [DOMAIN podRows -> PodRow]
  BY DEF PodRowsType
<1>2. podRows' = [k \in DOMAIN podRows |->
        IF k \in ids THEN [podRows[k] EXCEPT !.links = {}] ELSE podRows[k]]
  BY DEF Unlinked
<1>3. DOMAIN podRows' = DOMAIN podRows
  BY <1>2
<1>4. ASSUME NEW k \in DOMAIN podRows
      PROVE  /\ podRows'[k] \in PodRow
             /\ podRows'[k].space = podRows[k].space
             /\ podRows'[k].name = podRows[k].name
             /\ podRows'[k].links = IF k \in ids THEN {} ELSE podRows[k].links
  <2>1. podRows[k] \in PodRow
    BY <1>1
  <2>2. PICK row \in PodRow : row = podRows[k]
    BY <2>1
  <2>3. CASE k \in ids
    <3>1. podRows'[k] = [row EXCEPT !.links = {}]
      BY <1>2, <2>2, <2>3
    <3>2. row = [space |-> row.space, name |-> row.name, links |-> row.links]
          /\ row.space \in Spaces /\ row.name \in {NameOf[q] : q \in Pods}
      BY <2>2 DEF PodRow
    <3>3. podRows'[k] = [space |-> row.space, name |-> row.name, links |-> {}]
      BY <3>1, <3>2
    <3>4. podRows'[k] \in PodRow
      BY <3>2, <3>3 DEF PodRow
    <3>. QED BY <2>2, <2>3, <3>3, <3>4
  <2>4. CASE k \notin ids
    <3>1. podRows'[k] = podRows[k]
      BY <1>2, <2>4
    <3>. QED BY <2>1, <2>4, <3>1
  <2>. QED BY <2>3, <2>4
<1>5. podRows' \in [DOMAIN podRows -> PodRow]
  BY <1>2, <1>4
<1>6. PodRowsType'
  BY <1>1, <1>3, <1>5 DEF PodRowsType
<1>. QED BY <1>3, <1>4, <1>6

LEMMA ListPodsType ==
  ASSUME PodTypeInv, NEW p \in Syncs, ListPods(p)
  PROVE  /\ PodTypeInv' /\ \A q \in Syncs \ {p} : KeepsPods(q)
         /\ alone' = alone /\ running' = running /\ podRows' = podRows
         /\ pc[p] = "list" /\ pc'[p] = (IF running = {} THEN "dead" ELSE "pod")
         /\ listing'[p] = running /\ todo'[p] = running
         /\ failed'[p] \/ (failed' = failed /\ saved'[p] = UNION {ImagesOf[q] : q \in running})
<1>. DEFINE used == UNION {ImagesOf[q] : q \in running}
<1>1. PodRowsType /\ LocalsType /\ pc \in [Syncs -> PodSteps] /\ PodLoops
      /\ running \subseteq Pods
  BY PodTypesAre, PodTypes DEF PodTypeInv, ClusterTypes
<1>2. PodsOnly /\ UNCHANGED <<podRows, rows>>
  BY DEF ListPods, PodsOnly, cluster, podTables, spaceVars
<1>3. used \in SUBSET Images
  BY <1>1, PodSyncAssumption
<1>4. listing' = [listing EXCEPT ![p] = running] /\ todo' = [todo EXCEPT ![p] = running]
  BY DEF ListPods
<1>5. (IF running = {} THEN "dead" ELSE "pod") \in PodSteps
  BY DEF PodSteps, PodLoop
<1>6. /\ pc' \in [Syncs -> PodSteps] /\ pc'[p] = (IF running = {} THEN "dead" ELSE "pod")
      /\ \A q \in Syncs \ {p} : pc'[q] = pc[q]
  BY <1>1, <1>5, GoesType DEF ListPods
<1>7. /\ saved' \in [Syncs -> SUBSET Images] /\ failed' \in [Syncs -> BOOLEAN]
      /\ \A q \in Syncs \ {p} : saved'[q] = saved[q] /\ failed'[q] = failed[q]
      /\ failed'[p] \/ (failed' = failed /\ saved'[p] = used)
  <2>. HIDE DEF used
  <2>1. CASE saved' = [saved EXCEPT ![p] = used] /\ failed' = failed
    BY <1>1, <1>3, <2>1 DEF LocalsType
  <2>2. CASE (\E i \in used : saved' = [saved EXCEPT ![p] = used \ {i}]) /\ Fails(p)
    <3>1. PICK i \in used : saved' = [saved EXCEPT ![p] = used \ {i}]
      BY <2>2
    <3>2. saved' \in [Syncs -> SUBSET Images] /\ \A q \in Syncs \ {p} : saved'[q] = saved[q]
      BY <1>1, <1>3, <3>1 DEF LocalsType
    <3>. QED BY <1>1, <2>2, <3>2, FailsType DEF LocalsType
  <2>. QED BY <2>1, <2>2 DEF ListPods, used
<1>8. /\ listing' \in [Syncs -> SUBSET Pods] /\ todo' \in [Syncs -> SUBSET Pods]
      /\ listing'[p] = running /\ todo'[p] = running
      /\ \A q \in Syncs \ {p} : listing'[q] = listing[q] /\ todo'[q] = todo[q]
  BY <1>1, <1>4 DEF LocalsType
<1>9. LocalsType'
  BY <1>1, <1>2, <1>7, <1>8 DEF LocalsType
<1>10. \A q \in Syncs \ {p} : KeepsPods(q)
  BY <1>2, <1>6, <1>7, <1>8 DEF KeepsPods
<1>11. PodLoops'
  BY <1>6, <1>8, <1>10, PodLoopsStep DEF PodLoop
<1>12. faults' = faults \/ Fault
  BY DEF ListPods
<1>13. PodRowsType'
  BY <1>1, <1>2 DEF PodRowsType
<1>14. PodTypeInv'
  BY <1>2, <1>6, <1>9, <1>11, <1>12, <1>13, PodsOnlyType
<1>15. pc[p] = "list"
  BY DEF ListPods, At
<1>. HIDE DEF used
<1>. QED BY <1>2, <1>6, <1>7, <1>8, <1>10, <1>14, <1>15 DEF PodsOnly, used

(* Steps that fail, and the errors that end a sync.                        *)
LEMMA PodEndsType ==
  ASSUME PodTypeInv, NEW p \in Syncs, ListFails(p) \/ DeadFails(p)
  PROVE  /\ PodTypeInv' /\ \A q \in Syncs \ {p} : KeepsPods(q)
         /\ alone' = alone /\ pc[p] # "idle" /\ pc'[p] = "end" /\ failed'[p]
         /\ running' = running
<1>1. PodRowsType /\ LocalsType /\ pc \in [Syncs -> PodSteps] /\ PodLoops
  BY PodTypesAre
<1>2. PodsOnly /\ UNCHANGED <<podRows, listing, saved, todo>> /\ Fault /\ Fails(p)
      /\ Goes(p, "end")
  BY DEF ListFails, DeadFails, PodsOnly, cluster, podTables, spaceVars, podVars
<1>3. rows' \in [Syncs -> SUBSET Ids] /\ \A q \in Syncs \ {p} : rows'[q] = rows[q]
  BY <1>1 DEF LocalsType, ListFails, DeadFails, podVars
<1>4. /\ failed' \in [Syncs -> BOOLEAN] /\ failed'[p]
      /\ \A q \in Syncs \ {p} : failed'[q] = failed[q]
  BY <1>1, <1>2, FailsType DEF LocalsType
<1>5. /\ pc' \in [Syncs -> PodSteps] /\ pc'[p] = "end"
      /\ \A q \in Syncs \ {p} : pc'[q] = pc[q]
  BY <1>1, <1>2, GoesType DEF PodSteps
<1>6. pc[p] \in {"list", "dead", "unlinkDead", "dropDead"}
  BY DEF ListFails, DeadFails, At
<1>7. LocalsType' /\ PodRowsType'
  BY <1>1, <1>2, <1>3, <1>4 DEF LocalsType, PodRowsType
<1>8. \A q \in Syncs \ {p} : KeepsPods(q)
  BY <1>2, <1>3, <1>4, <1>5 DEF KeepsPods
<1>9. PodLoops'
  BY <1>1, <1>2, <1>5, <1>6, <1>8, PodLoopsStep DEF PodLoops, PodLoop
<1>10. PodTypeInv'
  BY <1>2, <1>5, <1>7, <1>9, PodsOnlyType
<1>. QED BY <1>2, <1>4, <1>5, <1>6, <1>8, <1>10 DEF PodsOnly

(* New links of one pod change nothing else.                               *)
LEMMA WithLinksType ==
  ASSUME PodTypeInv, NEW p \in Syncs, podRows' = WithLinks(p)
  PROVE  /\ PodRowsType' /\ DOMAIN podRows' = DOMAIN podRows
         /\ \A k \in DOMAIN podRows :
              /\ podRows'[k].space = podRows[k].space /\ podRows'[k].name = podRows[k].name
              /\ k = Row(p) => podRows'[k].links = podRows[k].links \cup NewLinks(p)
              /\ k # Row(p) => podRows'[k] = podRows[k]
<1>1. PodRowsType /\ LocalsType
  BY PodTypesAre
<1>. DEFINE new(k) == IF k = Row(p) THEN [podRows[k] EXCEPT !.links = @ \cup NewLinks(p)]
                      ELSE podRows[k]
<1>2. NewLinks(p) \in SUBSET Images
  BY <1>1 DEF LocalsType, NewLinks
<1>3. podRows' = [k \in DOMAIN podRows |-> new(k)]
  BY DEF WithLinks
<1>4. ASSUME NEW k \in DOMAIN podRows
      PROVE  /\ new(k) \in PodRow
             /\ new(k).space = podRows[k].space /\ new(k).name = podRows[k].name
             /\ k = Row(p) => new(k).links = podRows[k].links \cup NewLinks(p)
             /\ k # Row(p) => new(k) = podRows[k]
  <2>1. PICK row \in PodRow : row = podRows[k]
    BY <1>1 DEF PodRowsType
  <2>2. CASE k = Row(p)
    <3>1. row = [space |-> row.space, name |-> row.name, links |-> row.links]
          /\ row.space \in Spaces /\ row.name \in {NameOf[q] : q \in Pods}
          /\ row.links \subseteq Images
      BY <2>1 DEF PodRow
    <3>2. new(k) = [space |-> row.space, name |-> row.name,
                    links |-> row.links \cup NewLinks(p)]
      BY <2>1, <2>2, <3>1
    <3>3. new(k) \in PodRow
      BY <1>2, <3>1, <3>2 DEF PodRow
    <3>. QED BY <2>1, <2>2, <3>2, <3>3
  <2>3. CASE k # Row(p)
    BY <2>1, <2>3
  <2>. QED BY <2>2, <2>3
<1>. HIDE DEF new
<1>5. podRows' \in [DOMAIN podRows -> PodRow]
  BY <1>3, <1>4
<1>. QED BY <1>1, <1>3, <1>4, <1>5 DEF PodRowsType

LEMMA PodFailsType ==
  ASSUME PodTypeInv, NEW p \in Syncs, PodFails(p)
  PROVE  /\ PodTypeInv' /\ \A q \in Syncs \ {p} : KeepsPods(q)
         /\ alone' = alone /\ pc[p] # "idle" /\ pc'[p] # "idle" /\ failed'[p]
         /\ running' = running
<1>1. PodRowsType /\ LocalsType /\ pc \in [Syncs -> PodSteps] /\ PodLoops
  BY PodTypesAre
<1>2. PodsOnly /\ UNCHANGED <<listing, saved>> /\ Fault /\ Fails(p) /\ NextPod(p)
  BY DEF PodFails, PodsOnly, cluster, podTables, spaceVars
<1>3. /\ failed' \in [Syncs -> BOOLEAN] /\ failed'[p]
      /\ \A q \in Syncs \ {p} : failed'[q] = failed[q]
  BY <1>1, <1>2, FailsType DEF LocalsType
<1>4. LocalsType' /\ PodRowsType'
  <2>1. podRows' = podRows \/ podRows' = WithLinks(p)
    BY DEF PodFails
  <2>2. PodRowsType'
    BY <1>1, <2>1, WithLinksType DEF PodRowsType
  <2>. QED BY <1>1, <1>2, <1>3, <2>2, NextPodType DEF LocalsType
<1>5. \A q \in Syncs \ {p} : KeepsPods(q)
  BY <1>2, <1>3, NextPodType DEF KeepsPods
<1>6. PodLoops'
  BY <1>1, <1>2, <1>5, NextPodType, PodLoopsStep DEF PodLoops, PodLoop
<1>7. PodTypeInv'
  BY <1>2, <1>4, <1>6, NextPodType, PodsOnlyType
<1>. QED BY <1>2, <1>3, <1>5, <1>7, NextPodType DEF PodsOnly, PodFails

LEMMA FindPodType ==
  ASSUME PodTypeInv, NEW p \in Syncs, FindPod(p)
  PROVE  /\ PodTypeInv' /\ \A q \in Syncs \ {p} : KeepsPods(q)
         /\ alone' = alone /\ pc[p] = "pod"
         /\ UNCHANGED <<running, podRows, listing, saved, todo, failed>>
         /\ \/ pc'[p] = "create"
            \/ pc'[p] = "unlink" /\ \E id \in PodRowsOf(Pod(p)) : rows'[p] = {id}
<1>1. PodRowsType /\ LocalsType /\ pc \in [Syncs -> PodSteps] /\ PodLoops
  BY PodTypesAre
<1>2. PodsOnly /\ UNCHANGED <<podRows, listing, saved, todo, failed, faults>>
      /\ pc[p] = "pod"
  BY DEF FindPod, PodsOnly, cluster, podTables, spaceVars, At
<1>3. /\ rows' \in [Syncs -> SUBSET Ids] /\ \A q \in Syncs \ {p} : rows'[q] = rows[q]
      /\ Goes(p, "create") \/
           (Goes(p, "unlink") /\ \E id \in PodRowsOf(Pod(p)) : rows'[p] = {id})
  <2>1. CASE Goes(p, "create") /\ rows' = rows
    BY <1>1, <2>1 DEF LocalsType
  <2>2. CASE Goes(p, "unlink")
             /\ \E id \in PodRowsOf(Pod(p)) : rows' = [rows EXCEPT ![p] = {id}]
    <3>1. PICK id \in PodRowsOf(Pod(p)) : rows' = [rows EXCEPT ![p] = {id}]
      BY <2>2
    <3>2. id \in Ids
      BY <1>1 DEF PodRowsOf, PodRowsType
    <3>. QED BY <1>1, <2>2, <3>1, <3>2 DEF LocalsType
  <2>. QED BY <2>1, <2>2 DEF FindPod
<1>4. PICK step \in {"create", "unlink"} :
        /\ Goes(p, step)
        /\ step = "create" \/ \E id \in PodRowsOf(Pod(p)) : rows'[p] = {id}
  BY <1>3
<1>5. /\ pc' \in [Syncs -> PodSteps] /\ pc'[p] = step
      /\ \A q \in Syncs \ {p} : pc'[q] = pc[q]
  BY <1>1, <1>4, GoesType DEF PodSteps, PodLoop
<1>6. LocalsType' /\ PodRowsType'
  BY <1>1, <1>2, <1>3 DEF LocalsType, PodRowsType
<1>7. \A q \in Syncs \ {p} : KeepsPods(q)
  BY <1>2, <1>3, <1>5 DEF KeepsPods
<1>8. PodLoops'
  BY <1>1, <1>2, <1>5, <1>7, PodLoopsStep DEF PodLoops, PodLoop
<1>9. PodTypeInv'
  BY <1>2, <1>5, <1>6, <1>8, PodsOnlyType
<1>. QED BY <1>2, <1>4, <1>5, <1>7, <1>9 DEF PodsOnly

LEMMA CreatePodType ==
  ASSUME PodTypeInv, NEW p \in Syncs, CreatePod(p)
  PROVE  /\ PodTypeInv' /\ \A q \in Syncs \ {p} : KeepsPods(q)
         /\ alone' = alone /\ pc[p] = "create" /\ pc'[p] = "link"
         /\ UNCHANGED <<running, listing, saved, todo, failed>>
         /\ \E id \in Ids \ DOMAIN podRows :
              /\ rows'[p] = {id} /\ DOMAIN podRows' = DOMAIN podRows \cup {id}
              /\ podRows'[id] = [space |-> SpaceOf[Pod(p)], name |-> NameOf[Pod(p)],
                                 links |-> {}]
              /\ \A k \in DOMAIN podRows : podRows'[k] = podRows[k]
<1>1. PodRowsType /\ LocalsType /\ pc \in [Syncs -> PodSteps] /\ PodLoops
  BY PodTypesAre
<1>2. /\ PodsOnly /\ UNCHANGED <<listing, saved, todo, failed, faults>>
      /\ pc[p] = "create" /\ Goes(p, "link")
  BY DEF CreatePod, PodsOnly, cluster, podTables, spaceVars, At
<1>3. PICK q \in Pods : q = Pod(p)
  BY <1>1, <1>2, PodIsLeft DEF PodLoops, PodLoop
<1>4. PICK row \in PodRow : row = [space |-> SpaceOf[q], name |-> NameOf[q], links |-> {}]
  BY PodSyncAssumption DEF PodRow
<1>5. PICK id \in Ids : id = (CHOOSE k \in FreePodIds : TRUE) /\ id \notin DOMAIN podRows
  <2>1. (CHOOSE k \in FreePodIds : TRUE) \in FreePodIds
    BY DEF CreatePod
  <2>. QED BY <2>1 DEF FreePodIds
<1>6. /\ podRows' = [k \in DOMAIN podRows \cup {id} |->
                       IF k = id THEN row ELSE podRows[k]]
      /\ rows' = [rows EXCEPT ![p] = {id}]
  BY <1>3, <1>4, <1>5 DEF CreatePod
<1>7. /\ DOMAIN podRows' = DOMAIN podRows \cup {id} /\ podRows'[id] = row
      /\ \A k \in DOMAIN podRows : podRows'[k] = podRows[k]
  BY <1>5, <1>6
<1>8. PodRowsType'
  <2>1. DOMAIN podRows' \subseteq Ids
    BY <1>1, <1>5, <1>7 DEF PodRowsType
  <2>2. \A k \in DOMAIN podRows \cup {id} : (IF k = id THEN row ELSE podRows[k]) \in PodRow
    BY <1>1, <1>4 DEF PodRowsType
  <2>. QED BY <1>6, <1>7, <2>1, <2>2 DEF PodRowsType
<1>9. /\ rows' \in [Syncs -> SUBSET Ids] /\ rows'[p] = {id}
      /\ \A r \in Syncs \ {p} : rows'[r] = rows[r]
  BY <1>1, <1>5, <1>6 DEF LocalsType
<1>10. /\ pc' \in [Syncs -> PodSteps] /\ pc'[p] = "link"
       /\ \A r \in Syncs \ {p} : pc'[r] = pc[r]
  BY <1>1, <1>2, GoesType DEF PodSteps, PodLoop
<1>11. LocalsType'
  BY <1>1, <1>2, <1>9 DEF LocalsType
<1>12. \A r \in Syncs \ {p} : KeepsPods(r)
  BY <1>2, <1>9, <1>10 DEF KeepsPods
<1>13. PodLoops'
  BY <1>1, <1>2, <1>10, <1>12, PodLoopsStep DEF PodLoops, PodLoop
<1>14. PodTypeInv'
  BY <1>2, <1>8, <1>10, <1>11, <1>13, PodsOnlyType
<1>. QED BY <1>2, <1>3, <1>4, <1>5, <1>7, <1>9, <1>10, <1>12, <1>14 DEF PodsOnly

LEMMA UnlinkType ==
  ASSUME PodTypeInv, NEW p \in Syncs, Unlink(p) \/ UnlinkDead(p)
  PROVE  /\ PodTypeInv' /\ \A q \in Syncs \ {p} : KeepsPods(q)
         /\ alone' = alone /\ UNCHANGED <<running, listing, saved, todo, rows, failed>>
         /\ \/ pc[p] = "unlink" /\ pc'[p] = "link"
            \/ pc[p] = "unlinkDead" /\ pc'[p] = "dropDead"
         /\ DOMAIN podRows' = DOMAIN podRows
         /\ \A k \in DOMAIN podRows :
              /\ podRows'[k].space = podRows[k].space
              /\ podRows'[k].name = podRows[k].name
              /\ podRows'[k].links = IF k \in rows[p] THEN {} ELSE podRows[k].links
<1>1. PodRowsType /\ LocalsType /\ pc \in [Syncs -> PodSteps] /\ PodLoops
  BY PodTypesAre
<1>2. PodsOnly /\ UNCHANGED <<listing, saved, todo, rows, failed, faults>>
      /\ podRows' = Unlinked(rows[p])
  BY DEF Unlink, UnlinkDead, PodsOnly, cluster, spaceVars, podVars
<1>3. PICK from \in {"unlink", "unlinkDead"}, step \in {"link", "dropDead"} :
        /\ pc[p] = from /\ Goes(p, step) /\ (from = "unlink" <=> step = "link")
  BY DEF Unlink, UnlinkDead, At
<1>4. /\ pc' \in [Syncs -> PodSteps] /\ pc'[p] = step
      /\ \A q \in Syncs \ {p} : pc'[q] = pc[q]
  BY <1>1, <1>3, GoesType DEF PodSteps, PodLoop
<1>5. rows[p] \in SUBSET Ids
  BY <1>1 DEF LocalsType
<1>6. LocalsType'
  BY <1>1, <1>2 DEF LocalsType
<1>7. \A q \in Syncs \ {p} : KeepsPods(q)
  BY <1>2, <1>4 DEF KeepsPods
<1>8. PodLoops'
  BY <1>1, <1>2, <1>3, <1>4, <1>7, PodLoopsStep DEF PodLoops, PodLoop
<1>9. /\ PodRowsType' /\ DOMAIN podRows' = DOMAIN podRows
      /\ \A k \in DOMAIN podRows :
           /\ podRows'[k].space = podRows[k].space
           /\ podRows'[k].name = podRows[k].name
           /\ podRows'[k].links = IF k \in rows[p] THEN {} ELSE podRows[k].links
  BY <1>1, <1>2, <1>5, UnlinkedType
<1>10. PodTypeInv'
  BY <1>2, <1>4, <1>6, <1>8, <1>9, PodsOnlyType
<1>. QED BY <1>2, <1>3, <1>4, <1>7, <1>9, <1>10 DEF PodsOnly

LEMMA LinkType ==
  ASSUME PodTypeInv, NEW p \in Syncs, Link(p)
  PROVE  /\ PodTypeInv' /\ \A q \in Syncs \ {p} : KeepsPods(q)
         /\ alone' = alone /\ pc[p] = "link" /\ NextPod(p)
         /\ UNCHANGED <<running, listing, saved>>
         /\ DOMAIN podRows' = DOMAIN podRows
         /\ \A k \in DOMAIN podRows :
              podRows'[k].space = podRows[k].space /\ podRows'[k].name = podRows[k].name
         /\ \A k \in DOMAIN podRows :
              rows[p] = {k} =>
                /\ failed'[p] \/ podRows'[k].links =
                                   podRows[k].links \cup (ImagesOf[Pod(p)] \cap saved[p])
                /\ \A l \in DOMAIN podRows \ {k} : podRows'[l] = podRows[l]
         /\ failed[p] => failed'[p]
<1>1. PodRowsType /\ LocalsType /\ pc \in [Syncs -> PodSteps] /\ PodLoops
  BY PodTypesAre
<1>2. PodsOnly /\ UNCHANGED <<listing, saved, faults>> /\ pc[p] = "link" /\ NextPod(p)
  BY DEF Link, PodsOnly, cluster, spaceVars, At
<1>3. podRows' = podRows \/ podRows' = WithLinks(p)
  BY DEF Link
<1>4. Fits(p) => podRows' = WithLinks(p)
  BY DEF Link
<1>5. failed' = [failed EXCEPT ![p] = @ \/ ~Fits(p)]
  BY DEF Link
<1>6. DOMAIN podRows' = DOMAIN podRows
  BY <1>3, WithLinksType
<1>7. ASSUME NEW k \in DOMAIN podRows
      PROVE  /\ podRows'[k].space = podRows[k].space
             /\ podRows'[k].name = podRows[k].name
             /\ k = Row(p) /\ Fits(p) => podRows'[k].links = podRows[k].links \cup NewLinks(p)
             /\ k # Row(p) => podRows'[k] = podRows[k]
  BY <1>3, <1>4, WithLinksType
<1>8. PodRowsType'
  BY <1>1, <1>3, WithLinksType DEF PodRowsType
<1>9. failed' \in [Syncs -> BOOLEAN] /\ (failed'[p] <=> failed[p] \/ ~Fits(p))
      /\ \A q \in Syncs \ {p} : failed'[q] = failed[q]
  <2>1. Fits(p) \in BOOLEAN
    BY DEF Fits
  <2>. QED BY <1>1, <1>5, <2>1 DEF LocalsType
<1>10. LocalsType'
  BY <1>1, <1>2, <1>9, NextPodType DEF LocalsType
<1>11. \A q \in Syncs \ {p} : KeepsPods(q)
  BY <1>2, <1>9, NextPodType DEF KeepsPods
<1>12. PodLoops'
  BY <1>1, <1>2, <1>11, NextPodType, PodLoopsStep DEF PodLoops, PodLoop
<1>13. PodTypeInv'
  BY <1>2, <1>8, <1>10, <1>12, NextPodType, PodsOnlyType
<1>14. ASSUME NEW k \in DOMAIN podRows, rows[p] = {k}
       PROVE  /\ failed'[p] \/ podRows'[k].links = podRows[k].links \cup NewLinks(p)
              /\ \A l \in DOMAIN podRows \ {k} : podRows'[l] = podRows[l]
  <2>1. k = Row(p)
    BY <1>14 DEF Row
  <2>. QED BY <1>7, <1>9, <2>1
<1>15. /\ DOMAIN podRows' = DOMAIN podRows
       /\ \A k \in DOMAIN podRows :
            podRows'[k].space = podRows[k].space /\ podRows'[k].name = podRows[k].name
  BY <1>6, <1>7
<1>16. failed[p] => failed'[p]
  BY <1>9
<1>. QED BY <1>2, <1>11, <1>13, <1>14, <1>15, <1>16 DEF PodsOnly, NewLinks

LEMMA FindDeadPodsType ==
  ASSUME PodTypeInv, NEW p \in Syncs, FindDeadPods(p)
  PROVE  /\ PodTypeInv' /\ \A q \in Syncs \ {p} : KeepsPods(q)
         /\ alone' = alone /\ pc[p] = "dead"
         /\ UNCHANGED <<running, podRows, listing, saved, todo, failed>>
         /\ rows'[p] = {id \in DOMAIN podRows : podRows[id].name \notin Names(p)}
         /\ pc'[p] = (IF rows'[p] = {} THEN "end" ELSE "unlinkDead")
<1>. DEFINE dead == {id \in DOMAIN podRows : podRows[id].name \notin Names(p)}
<1>1. PodRowsType /\ LocalsType /\ pc \in [Syncs -> PodSteps] /\ PodLoops
  BY PodTypesAre
<1>2. PodsOnly /\ UNCHANGED <<podRows, listing, saved, todo, failed, faults>>
      /\ pc[p] = "dead"
  BY DEF FindDeadPods, PodsOnly, cluster, podTables, spaceVars, At
<1>3. rows' = [rows EXCEPT ![p] = dead]
      /\ Goes(p, IF dead = {} THEN "end" ELSE "unlinkDead")
  BY DEF FindDeadPods
<1>4. dead \in SUBSET Ids
  BY <1>1 DEF PodRowsType
<1>5. dead = {id \in DOMAIN podRows : podRows[id].name \notin Names(p)}
  OBVIOUS
<1>. HIDE DEF dead
<1>6. rows' \in [Syncs -> SUBSET Ids] /\ rows'[p] = dead
      /\ \A q \in Syncs \ {p} : rows'[q] = rows[q]
  BY <1>1, <1>3, <1>4 DEF LocalsType
<1>7. (IF dead = {} THEN "end" ELSE "unlinkDead") \in PodSteps
  BY DEF PodSteps
<1>8. /\ pc' \in [Syncs -> PodSteps]
      /\ pc'[p] = (IF dead = {} THEN "end" ELSE "unlinkDead")
      /\ \A q \in Syncs \ {p} : pc'[q] = pc[q]
  BY <1>1, <1>3, <1>7, GoesType
<1>9. LocalsType' /\ PodRowsType'
  BY <1>1, <1>2, <1>6 DEF LocalsType, PodRowsType
<1>10. \A q \in Syncs \ {p} : KeepsPods(q)
  BY <1>2, <1>6, <1>8 DEF KeepsPods
<1>11. PodLoops'
  BY <1>1, <1>2, <1>8, <1>10, PodLoopsStep DEF PodLoops, PodLoop
<1>12. PodTypeInv'
  BY <1>2, <1>8, <1>9, <1>11, PodsOnlyType
<1>. QED BY <1>2, <1>5, <1>6, <1>8, <1>10, <1>12 DEF PodsOnly

LEMMA DropDeadType ==
  ASSUME PodTypeInv, NEW p \in Syncs, DropDead(p)
  PROVE  /\ PodTypeInv' /\ \A q \in Syncs \ {p} : KeepsPods(q)
         /\ alone' = alone /\ pc[p] = "dropDead" /\ pc'[p] = "end"
         /\ UNCHANGED <<running, listing, saved, todo>>
         /\ failed[p] => failed'[p]
         /\ \/ failed'[p]
            \/ /\ DOMAIN podRows' = DOMAIN podRows \ rows[p]
               /\ \A k \in DOMAIN podRows' : podRows'[k] = podRows[k]
<1>1. PodRowsType /\ LocalsType /\ pc \in [Syncs -> PodSteps] /\ PodLoops
  BY PodTypesAre
<1>2. PodsOnly /\ UNCHANGED <<listing, saved, todo, faults>>
      /\ pc[p] = "dropDead" /\ Goes(p, "end")
  BY DEF DropDead, PodsOnly, cluster, spaceVars, At
<1>. DEFINE held == \E id \in rows[p] \cap DOMAIN podRows : podRows[id].links # {}
<1>3. /\ rows' = [rows EXCEPT ![p] = {}] /\ failed' = [failed EXCEPT ![p] = @ \/ held]
      /\ podRows' = IF held THEN podRows
                    ELSE [k \in DOMAIN podRows \ rows[p] |-> podRows[k]]
  BY DEF DropDead
<1>. HIDE DEF held
<1>4. rows' \in [Syncs -> SUBSET Ids] /\ \A q \in Syncs \ {p} : rows'[q] = rows[q]
  BY <1>1, <1>3 DEF LocalsType
<1>5. failed' \in [Syncs -> BOOLEAN] /\ (failed'[p] <=> failed[p] \/ held)
      /\ \A q \in Syncs \ {p} : failed'[q] = failed[q]
  BY <1>1, <1>3 DEF LocalsType, held
<1>6. PodRowsType'
        /\ (held \/ (/\ DOMAIN podRows' = DOMAIN podRows \ rows[p]
                     /\ \A k \in DOMAIN podRows' : podRows'[k] = podRows[k]))
  <2>1. CASE held
    BY <1>1, <1>3, <2>1 DEF PodRowsType
  <2>2. CASE ~held
    <3>1. podRows' = [k \in DOMAIN podRows \ rows[p] |-> podRows[k]]
      BY <1>3, <2>2
    <3>. QED BY <1>1, <3>1 DEF PodRowsType
  <2>. QED BY <2>1, <2>2
<1>7. /\ pc' \in [Syncs -> PodSteps] /\ pc'[p] = "end"
      /\ \A q \in Syncs \ {p} : pc'[q] = pc[q]
  BY <1>1, <1>2, GoesType DEF PodSteps
<1>8. LocalsType'
  BY <1>1, <1>2, <1>4, <1>5 DEF LocalsType
<1>9. \A q \in Syncs \ {p} : KeepsPods(q)
  BY <1>2, <1>4, <1>5, <1>7 DEF KeepsPods
<1>10. PodLoops'
  BY <1>1, <1>2, <1>7, <1>9, PodLoopsStep DEF PodLoops, PodLoop
<1>11. PodTypeInv'
  BY <1>2, <1>6, <1>7, <1>8, <1>10, PodsOnlyType
<1>. QED BY <1>2, <1>5, <1>6, <1>7, <1>9, <1>11 DEF PodsOnly

LEMMA ForgottenPodsType ==
  ASSUME PodTypeInv, NEW ps \in SUBSET Syncs, ForgottenPods(ps),
         UNCHANGED <<cluster, podTables>>, saves' \subseteq saves,
         faults' = faults \/ Fault
  PROVE  /\ PodTypeInv' /\ \A q \in Syncs \ ps : KeepsPods(q) /\ alone'[q] = alone[q]
         /\ \A p \in ps : pc'[p] = "idle" /\ listing'[p] = {}
         /\ UNCHANGED <<running, podRows>>
<1>1. PodRowsType /\ WorkType /\ ClusterTypes /\ PodLoops
  BY PodTypes DEF PodTypeInv
<1>2. UNCHANGED <<uid, running, changes, spaceRows, podRows>>
  BY DEF cluster, podTables
<1>3. /\ pc' = [p \in Syncs |-> IF p \in ps THEN "idle" ELSE pc[p]]
      /\ spaces' = [p \in Syncs |-> IF p \in ps THEN {} ELSE spaces[p]]
      /\ doomed' = [p \in Syncs |-> IF p \in ps THEN {} ELSE doomed[p]]
      /\ listing' = [p \in Syncs |-> IF p \in ps THEN {} ELSE listing[p]]
      /\ saved' = [p \in Syncs |-> IF p \in ps THEN {} ELSE saved[p]]
      /\ todo' = [p \in Syncs |-> IF p \in ps THEN {} ELSE todo[p]]
      /\ rows' = [p \in Syncs |-> IF p \in ps THEN {} ELSE rows[p]]
      /\ failed' = [p \in Syncs |-> IF p \in ps THEN FALSE ELSE failed[p]]
      /\ alone' = [p \in Syncs |-> IF p \in ps THEN TRUE ELSE alone[p]]
  BY DEF ForgottenPods, Reset
<1>4. WorkType'
  <2>1. "idle" \in PodSteps
    BY DEF PodSteps
  <2>. QED BY <1>1, <1>3, <2>1 DEF WorkType
<1>5. faults' \in 0 .. MaxFaults
  BY <1>1, FaultType DEF ClusterTypes
<1>6. ClusterTypes' /\ PodRowsType'
  BY <1>1, <1>2, <1>5 DEF ClusterTypes, PodRowsType
<1>7. \A q \in Syncs \ ps : KeepsPods(q) /\ alone'[q] = alone[q]
  BY <1>3 DEF KeepsPods
<1>8. \A p \in ps : pc'[p] = "idle" /\ todo'[p] = {} /\ listing'[p] = {}
  BY <1>3
<1>9. PodLoops'
  BY <1>1, <1>7, <1>8 DEF PodLoops, PodLoop, KeepsPods
<1>. QED BY <1>2, <1>4, <1>6, <1>7, <1>8, <1>9, PodTypesNext

LEMMA PodsDoneType ==
  ASSUME PodTypeInv, NEW p \in Syncs, PodsDone(p)
  PROVE  /\ PodTypeInv' /\ \A q \in Syncs \ {p} : KeepsPods(q) /\ alone'[q] = alone[q]
         /\ pc[p] # "idle" /\ pc'[p] = "idle" /\ listing'[p] = {}
         /\ UNCHANGED <<running, podRows>>
  BY ForgottenPodsType DEF PodsDone, At

LEMMA PodCrashType ==
  ASSUME PodTypeInv, PodCrash
  PROVE  /\ PodTypeInv' /\ \A p \in Syncs : pc'[p] = "idle" /\ listing'[p] = {}
         /\ UNCHANGED <<running, podRows>>
<1>1. ForgottenPods(Syncs) /\ UNCHANGED <<cluster, podTables>> /\ saves' \subseteq saves
      /\ Fault
  BY DEF PodCrash
<1>. QED BY <1>1, ForgottenPodsType

(* The steps of a sync after the one that begins it.                       *)
PodActs(p) ==
  \/ PodStep(p) \/ SpacesFail(p) \/ ListFails(p) \/ PodFails(p) \/ DeadFails(p)

LEMMA PodActsType ==
  ASSUME PodTypeInv, NEW p \in Syncs, PodActs(p)
  PROVE  /\ PodTypeInv' /\ \A q \in Syncs \ {p} : KeepsPods(q) /\ alone'[q] = alone[q]
         /\ pc[p] # "idle" /\ (pc'[p] # "idle" => alone' = alone)
         /\ running' = running
<1>1. CASE FindDeadSpaces(p) \/ DropSpaces(p) \/ SpacesFail(p)
  <2>1. SpacesStep(p) /\ alone' = alone /\ pc[p] # "idle"
    BY <1>1 DEF SpacesStep, FindDeadSpaces, DropSpaces, SpacesFail, At
  <2>. QED BY <2>1, SpacesStepType
<1>2. CASE ListPods(p) \/ FindPod(p) \/ CreatePod(p) \/ Unlink(p) \/ Link(p)
  BY <1>2, ListPodsType, FindPodType, CreatePodType, UnlinkType, LinkType
<1>3. CASE FindDeadPods(p) \/ UnlinkDead(p) \/ DropDead(p) \/ PodsDone(p)
  BY <1>3, FindDeadPodsType, UnlinkType, DropDeadType, PodsDoneType
<1>4. CASE ListFails(p) \/ PodFails(p) \/ DeadFails(p)
  BY <1>4, PodEndsType, PodFailsType
<1>. QED BY <1>1, <1>2, <1>3, <1>4 DEF PodActs, PodStep

LEMMA PodsStutter ==
  ASSUME PodTypeInv, UNCHANGED podSyncVars
  PROVE  PodTypeInv' /\ NoSync /\ UNCHANGED running
<1>1. NoSync /\ UNCHANGED <<uid, running, spaceRows, saves, changes, faults>>
  BY DEF podSyncVars, NoSync, cluster, podTables, spaceVars, podVars
<1>2. ClusterTypes'
  BY <1>1, PodTypes DEF PodTypeInv, ClusterTypes
<1>. QED BY <1>1, <1>2, NoSyncType

LEMMA PodTypeStep ==
  ASSUME PodTypeInv, [PodNext]_podSyncVars
  PROVE  PodTypeInv'
<1>1. ASSUME NEW p \in Syncs, ListSpaces(p) PROVE PodTypeInv'
  BY <1>1, SpacesStepType DEF SpacesStep
<1>. QED BY <1>1, PodsStutter, PodClusterType, SavesType, PodActsType, PodCrashType
     DEF PodNext, PodActs

(* The tables, the saves in progress and what every sync keeps of them     *)
(* have their types, however syncs overlap, fail and are killed.           *)
THEOREM PodsTypeCorrect == PodSpec => []PodTypeOK
<1>1. PodTypeInv /\ [PodNext]_podSyncVars => PodTypeInv'
  BY PodTypeStep
<1>2. PodTypeInv => PodTypeOK
  BY DEF PodTypeInv
<1>. QED BY <1>1, <1>2, PodsInitially, PTL DEF PodSpec

-----------------------------------------------------------------------------
(* Pods: alone *)

LEMMA OnlyThisSync ==
  ASSUME PodTypeInv, Alone, [PodNext]_podSyncVars,
         NEW p \in Syncs, alone'[p], pc'[p] # "idle"
  PROVE  \/ ListSpaces(p)
         \/ PodActs(p) /\ pc[p] # "idle" /\ alone[p]
         \/ NoSync
<1>1. ASSUME NEW q \in Syncs \ {p}, PodActs(q) PROVE FALSE
  BY <1>1, PodActsType DEF Alone, KeepsPods
<1>2. ASSUME NEW q \in Syncs \ {p}, ListSpaces(q) PROVE FALSE
  <2>1. Meets(q) /\ alone \in [Syncs -> BOOLEAN]
    BY <1>2, PodTypes DEF PodTypeInv, WorkType, ListSpaces
  <2>2. pc[p] = pc'[p]
    BY <1>2, SpacesStepType DEF SpacesStep, KeepsPods
  <2>. QED BY <2>1, <2>2, MeetsType
<1>3. CASE PodActs(p)
  BY <1>3, PodActsType
<1>4. ~PodCrash
  BY PodCrashType
<1>. QED BY <1>1, <1>2, <1>3, <1>4, PodsStutter, PodClusterType, SavesType
     DEF PodNext, PodActs

LEMMA PodAloneStep ==
  ASSUME PodTypeInv, Alone, [PodNext]_podSyncVars
  PROVE  Alone'
<1>. SUFFICES ASSUME NEW p \in Syncs, alone'[p], pc'[p] # "idle",
                     NEW q \in Syncs \ {p}
              PROVE  pc'[q] = "idle"
  BY DEF Alone
<1>1. CASE ListSpaces(p)
  <2>1. Meets(p) /\ alone \in [Syncs -> BOOLEAN]
    BY <1>1, PodTypes DEF PodTypeInv, WorkType, ListSpaces
  <2>2. pc[q] = "idle" /\ pc'[q] = pc[q]
    BY <1>1, <2>1, MeetsType, SpacesStepType DEF SpacesStep, KeepsPods
  <2>. QED BY <2>2
<1>2. CASE PodActs(p) /\ pc[p] # "idle" /\ alone[p]
  BY <1>2, PodActsType DEF Alone, KeepsPods
<1>3. CASE NoSync
  BY <1>3 DEF NoSync, Alone
<1>. QED BY <1>1, <1>2, <1>3, OnlyThisSync

-----------------------------------------------------------------------------
(* Pods: one of a name *)

OnePerName(S) == \A q, r \in S : SamePod(q, r) => q = r
Distinct == OnePerName(running) /\ \A p \in Syncs : OnePerName(listing[p])

LEMMA ListingIs ==
  ASSUME PodTypeInv, NEW p \in Syncs, PodActs(p)
  PROVE  listing'[p] \in {listing[p], running, {}}
<1>1. CASE ListPods(p)
  BY <1>1, ListPodsType
<1>2. CASE PodsDone(p)
  BY <1>2, PodsDoneType
<1>3. CASE ~ListPods(p) /\ ~PodsDone(p)
  <2>1. listing' = listing
    BY <1>3 DEF PodActs, PodStep, FindDeadSpaces, DropSpaces, SpacesFail, ListFails,
         FindPod, CreatePod, Unlink, Link, PodFails, FindDeadPods, UnlinkDead, DropDead,
         DeadFails, podVars
  <2>. QED BY <2>1
<1>. QED BY <1>1, <1>2, <1>3

LEMMA RunningDistinct ==
  ASSUME PodTypeInv, OnePerName(running), [PodNext]_podSyncVars
  PROVE  OnePerName(running)'
<1>1. CASE running' = running
  BY <1>1 DEF OnePerName
<1>2. ASSUME NEW q \in Pods, PodStarts(q) PROVE OnePerName(running)'
  <2>1. running' = {r \in running : ~SamePod(q, r)} \cup {q}
    BY <1>2 DEF PodStarts
  <2>. QED BY <2>1 DEF OnePerName, SamePod
<1>3. ASSUME NEW q \in Pods, PodStops(q) PROVE OnePerName(running)'
  BY <1>3 DEF PodStops, OnePerName
<1>4. ASSUME NEW n \in Spaces, SpaceStarts(n) \/ SpaceStops(n) PROVE OnePerName(running)'
  BY <1>4 DEF SpaceStarts, SpaceStops, OnePerName
<1>5. ASSUME NEW s \in saves, SaveChecks(s) \/ SaveInserts(s) \/ SaveFails(s)
      PROVE  running' = running
  BY <1>5 DEF SaveChecks, SaveInserts, SaveFails, cluster
<1>6. ASSUME NEW p \in Syncs, ListSpaces(p) PROVE running' = running
  BY <1>6, SpacesStepType DEF SpacesStep
<1>. QED BY <1>1, <1>2, <1>3, <1>4, <1>5, <1>6, PodActsType, PodCrashType, PodsStutter
         DEF PodNext, PodActs

LEMMA DistinctStep ==
  ASSUME PodTypeInv, Distinct, [PodNext]_podSyncVars
  PROVE  Distinct'
<1>1. OnePerName(running)'
  BY RunningDistinct DEF Distinct
<1>2. ASSUME NEW p \in Syncs PROVE OnePerName(listing[p])'
  <2>1. listing'[p] \in {listing[p], running, {}}
    <3>1. CASE NoSync
      BY <3>1 DEF NoSync
    <3>2. CASE PodCrash
      BY <3>2, PodCrashType
    <3>3. ASSUME NEW q \in Syncs, ListSpaces(q) PROVE listing' = listing
      BY <3>3, SpacesStepType DEF SpacesStep
    <3>4. ASSUME NEW q \in Syncs, PodActs(q) PROVE listing'[p] \in {listing[p], running, {}}
      BY <3>4, PodActsType, ListingIs DEF KeepsPods
    <3>. QED BY <3>1, <3>2, <3>3, <3>4, PodsStutter, PodClusterType, SavesType
             DEF PodNext, PodActs
  <2>2. PICK S \in {listing[p], running, {}} : S = listing'[p]
    BY <2>1
  <2>3. OnePerName(S)
    BY <2>2 DEF Distinct, OnePerName
  <2>. QED BY <2>2, <2>3 DEF OnePerName
<1>. QED BY <1>1, <1>2 DEF Distinct

-----------------------------------------------------------------------------
(* Pods: a sync that is alone and does not fail *)

PodEnding == {"dead", "unlinkDead", "dropDead", "end"}
Told(p) == alone[p] /\ ~failed[p] /\ pc[p] \in PodLoop \cup PodEnding

(* Every pod it is done with has a row with its links,                     *)
Linked(p) ==
  \A q \in listing[p] \ todo[p] : \E k \in PodRowsOf(q) : podRows[k].links = ImagesOf[q]
(* all images have ids,                                                    *)
HaveIds(p) == \A q \in listing[p] : ImagesOf[q] \subseteq saved[p]
(* the row it works on is one of its pod, without links when it links it,  *)
Works(p) ==
  pc[p] \in {"unlink", "link"} =>
    \E k \in PodRowsOf(Pod(p)) :
      rows[p] = {k} /\ (pc[p] = "link" => podRows[k].links = {})
(* and the rows it deletes are all those of names it was not told of.      *)
Dead(p) == {k \in DOMAIN podRows : podRows[k].name \notin Names(p)}
DeadAre(p) ==
  /\ pc[p] \in {"unlinkDead", "dropDead"} => rows[p] = Dead(p)
  /\ pc[p] = "end" => Dead(p) = {}

PodSyncInv(p) == Linked(p) /\ HaveIds(p) /\ Works(p) /\ DeadAre(p)
PodSyncsInv == \A p \in Syncs : Told(p) => PodSyncInv(p)

LEMMA PodInvNoSync ==
  ASSUME NEW p \in Syncs, NoSync, PodSyncInv(p)
  PROVE  PodSyncInv(p)'
<1>1. UNCHANGED <<podRows, pc, listing, todo, saved, rows>>
  BY DEF NoSync
<1>2. Pod(p)' = Pod(p) /\ Names(p)' = Names(p) /\ \A q \in Pods : PodRowsOf(q)' = PodRowsOf(q)
  BY <1>1 DEF Pod, Names, PodRowsOf
<1>3. Linked(p)' /\ HaveIds(p)'
  BY <1>1 DEF PodSyncInv, Linked, HaveIds, PodRowsOf
<1>4. Works(p)'
  BY <1>1, <1>2 DEF PodSyncInv, Works, PodRowsOf
<1>5. DeadAre(p)'
  BY <1>1, <1>2 DEF PodSyncInv, DeadAre, Dead
<1>. QED BY <1>3, <1>4, <1>5 DEF PodSyncInv

LEMMA PodInvListPods ==
  ASSUME PodTypeInv, NEW p \in Syncs, ListPods(p), ~failed'[p]
  PROVE  PodSyncInv(p)'
<1>1. /\ listing'[p] = running /\ todo'[p] = running /\ pc'[p] \in {"dead", "pod"}
      /\ saved'[p] = UNION {ImagesOf[q] : q \in running}
  BY ListPodsType
<1>2. Linked(p)' /\ HaveIds(p)' /\ Works(p)' /\ DeadAre(p)'
  BY <1>1 DEF Linked, HaveIds, Works, DeadAre
<1>. QED BY <1>2 DEF PodSyncInv

LEMMA PodInvFindPod ==
  ASSUME PodTypeInv, NEW p \in Syncs, FindPod(p), PodSyncInv(p)
  PROVE  PodSyncInv(p)'
<1>1. UNCHANGED <<podRows, listing, todo, saved>> /\ pc'[p] \in {"create", "unlink"}
      /\ (pc'[p] = "unlink" => \E k \in PodRowsOf(Pod(p)) : rows'[p] = {k})
  BY FindPodType
<1>2. Pod(p)' = Pod(p) /\ PodRowsOf(Pod(p))' = PodRowsOf(Pod(p))
  BY <1>1 DEF Pod, PodRowsOf
<1>3. Linked(p)' /\ HaveIds(p)'
  BY <1>1 DEF PodSyncInv, Linked, HaveIds, PodRowsOf
<1>4. Works(p)' /\ DeadAre(p)'
  BY <1>1, <1>2 DEF Works, DeadAre
<1>. QED BY <1>3, <1>4 DEF PodSyncInv

LEMMA PodInvCreatePod ==
  ASSUME PodTypeInv, NEW p \in Syncs, CreatePod(p), PodSyncInv(p)
  PROVE  PodSyncInv(p)'
<1>1. UNCHANGED <<listing, todo, saved>> /\ pc'[p] = "link"
  BY CreatePodType
<1>2. PICK id \in Ids \ DOMAIN podRows :
        /\ rows'[p] = {id} /\ DOMAIN podRows' = DOMAIN podRows \cup {id}
        /\ podRows'[id] = [space |-> SpaceOf[Pod(p)], name |-> NameOf[Pod(p)], links |-> {}]
        /\ \A k \in DOMAIN podRows : podRows'[k] = podRows[k]
  BY CreatePodType
<1>3. Pod(p)' = Pod(p)
  BY <1>1 DEF Pod
<1>4. Linked(p)' /\ HaveIds(p)'
  BY <1>1, <1>2 DEF PodSyncInv, Linked, HaveIds, PodRowsOf
<1>5. id \in PodRowsOf(Pod(p))' /\ podRows'[id].links = {}
  BY <1>2, <1>3 DEF PodRowsOf
<1>6. Works(p)' /\ DeadAre(p)'
  BY <1>1, <1>2, <1>3, <1>5 DEF Works, DeadAre
<1>. QED BY <1>4, <1>6 DEF PodSyncInv

(* Rows of the pod that is saved are not those of another of the list.     *)
LEMMA OtherRows ==
  ASSUME PodTypeInv, Distinct, NEW p \in Syncs, todo[p] # {},
         NEW k \in PodRowsOf(Pod(p)), NEW q \in listing[p] \ todo[p]
  PROVE  k \notin PodRowsOf(q)
<1>1. Pod(p) \in todo[p] /\ Pod(p) \in listing[p]
  BY PodIsLeft
<1>2. ASSUME k \in PodRowsOf(q) PROVE FALSE
  <2>1. SamePod(q, Pod(p))
    BY <1>2 DEF PodRowsOf, SamePod
  <2>. QED BY <1>1, <2>1 DEF Distinct, OnePerName
<1>. QED BY <1>2

LEMMA PodInvUnlink ==
  ASSUME PodTypeInv, Distinct, NEW p \in Syncs, Unlink(p), PodSyncInv(p)
  PROVE  PodSyncInv(p)'
<1>1. UNCHANGED <<listing, todo, saved, rows>> /\ pc[p] = "unlink" /\ pc'[p] = "link"
  BY UnlinkType DEF Unlink, At
<1>2. /\ DOMAIN podRows' = DOMAIN podRows
      /\ \A k \in DOMAIN podRows :
           /\ podRows'[k].space = podRows[k].space
           /\ podRows'[k].name = podRows[k].name
           /\ podRows'[k].links = IF k \in rows[p] THEN {} ELSE podRows[k].links
  BY UnlinkType
<1>3. PICK k \in PodRowsOf(Pod(p)) : rows[p] = {k}
  BY <1>1 DEF PodSyncInv, Works
<1>4. Pod(p)' = Pod(p) /\ todo[p] # {}
  BY <1>1 DEF Pod, PodTypeInv, PodLoops, PodLoop
<1>5. \A q : PodRowsOf(q)' = PodRowsOf(q)
  BY <1>2 DEF PodRowsOf
<1>6. ASSUME NEW q \in listing'[p] \ todo'[p]
      PROVE  \E l \in PodRowsOf(q)' : podRows'[l].links = ImagesOf[q]
  <2>1. PICK l \in PodRowsOf(q) : podRows[l].links = ImagesOf[q]
    BY <1>1, <1>6 DEF PodSyncInv, Linked
  <2>2. l # k /\ l \in DOMAIN podRows
    BY <1>1, <1>4, <1>6, <2>1, OtherRows DEF PodRowsOf
  <2>3. podRows'[l].links = ImagesOf[q]
    BY <1>2, <1>3, <2>1, <2>2
  <2>. QED BY <1>5, <2>1, <2>3
<1>7. Linked(p)' /\ HaveIds(p)'
  BY <1>1, <1>6 DEF PodSyncInv, Linked, HaveIds
<1>8. k \in PodRowsOf(Pod(p))' /\ podRows'[k].links = {}
  BY <1>2, <1>3, <1>4, <1>5 DEF PodRowsOf
<1>9. Works(p)' /\ DeadAre(p)'
  BY <1>1, <1>3, <1>4, <1>8 DEF Works, DeadAre
<1>. QED BY <1>7, <1>9 DEF PodSyncInv

LEMMA PodInvLink ==
  ASSUME PodTypeInv, Distinct, NEW p \in Syncs, Link(p), ~failed'[p], PodSyncInv(p)
  PROVE  PodSyncInv(p)'
<1>1. UNCHANGED <<listing, saved>> /\ pc[p] = "link" /\ NextPod(p)
  BY LinkType
<1>2. pc'[p] \in {"dead", "pod"} /\ todo'[p] = todo[p] \ {Pod(p)} /\ todo[p] # {}
  BY <1>1, NextPodType DEF PodTypeInv, PodLoops, PodLoop
<1>3. PICK k \in PodRowsOf(Pod(p)) : rows[p] = {k} /\ podRows[k].links = {}
  BY <1>1 DEF PodSyncInv, Works
<1>4. Pod(p) \in listing[p]
  BY <1>2, PodIsLeft
<1>5. k \in DOMAIN podRows
  BY <1>3 DEF PodRowsOf
<1>6. /\ podRows'[k].links = podRows[k].links \cup (ImagesOf[Pod(p)] \cap saved[p])
      /\ \A l \in DOMAIN podRows \ {k} : podRows'[l] = podRows[l]
  BY <1>3, <1>5, LinkType
<1>7. podRows'[k].links = ImagesOf[Pod(p)]
  BY <1>3, <1>4, <1>6 DEF PodSyncInv, HaveIds
<1>8. \A q : PodRowsOf(q)' = PodRowsOf(q)
  BY LinkType DEF PodRowsOf
<1>9. ASSUME NEW q \in listing[p], q \notin todo'[p]
      PROVE  \E l \in PodRowsOf(q)' : podRows'[l].links = ImagesOf[q]
  <2>1. CASE q = Pod(p)
    BY <1>3, <1>7, <1>8, <2>1
  <2>2. CASE q # Pod(p)
    <3>1. q \in listing[p] \ todo[p]
      BY <1>2, <1>9, <2>2
    <3>2. PICK l \in PodRowsOf(q) : podRows[l].links = ImagesOf[q]
      BY <3>1 DEF PodSyncInv, Linked
    <3>3. l # k /\ l \in DOMAIN podRows
      BY <1>2, <1>3, <3>1, <3>2, OtherRows DEF PodRowsOf
    <3>. QED BY <1>6, <1>8, <3>2, <3>3
  <2>. QED BY <2>1, <2>2
<1>10. Linked(p)' /\ HaveIds(p)'
  BY <1>1, <1>9 DEF PodSyncInv, Linked, HaveIds
<1>11. Works(p)' /\ DeadAre(p)'
  BY <1>2 DEF Works, DeadAre
<1>. QED BY <1>10, <1>11 DEF PodSyncInv

LEMMA PodInvFindDeadPods ==
  ASSUME PodTypeInv, NEW p \in Syncs, FindDeadPods(p), PodSyncInv(p)
  PROVE  PodSyncInv(p)'
<1>1. /\ UNCHANGED <<podRows, listing, todo, saved>> /\ rows'[p] = Dead(p)
      /\ pc'[p] = (IF Dead(p) = {} THEN "end" ELSE "unlinkDead")
  BY FindDeadPodsType DEF Dead
<1>2. Dead(p)' = Dead(p)
  BY <1>1 DEF Dead, Names
<1>3. Linked(p)' /\ HaveIds(p)'
  BY <1>1 DEF PodSyncInv, Linked, HaveIds, PodRowsOf
<1>4. Works(p)' /\ DeadAre(p)'
  BY <1>1, <1>2 DEF Works, DeadAre
<1>. QED BY <1>3, <1>4 DEF PodSyncInv

(* Rows of a pod of the list are not dead.                                 *)
LEMMA ListedLive ==
  ASSUME NEW p \in Syncs, NEW q \in listing[p], NEW k \in PodRowsOf(q)
  PROVE  k \notin Dead(p) /\ k \in DOMAIN podRows
  BY DEF PodRowsOf, Dead, Names

LEMMA PodInvUnlinkDead ==
  ASSUME PodTypeInv, NEW p \in Syncs, UnlinkDead(p), PodSyncInv(p)
  PROVE  PodSyncInv(p)'
<1>1. UNCHANGED <<listing, todo, saved, rows>>
      /\ pc[p] = "unlinkDead" /\ pc'[p] = "dropDead"
  BY UnlinkType DEF UnlinkDead, At
<1>2. /\ DOMAIN podRows' = DOMAIN podRows
      /\ \A k \in DOMAIN podRows :
           /\ podRows'[k].space = podRows[k].space
           /\ podRows'[k].name = podRows[k].name
           /\ podRows'[k].links = IF k \in rows[p] THEN {} ELSE podRows[k].links
  BY UnlinkType
<1>3. rows[p] = Dead(p)
  BY <1>1 DEF PodSyncInv, DeadAre
<1>4. Dead(p)' = Dead(p) /\ \A q : PodRowsOf(q)' = PodRowsOf(q)
  BY <1>1, <1>2 DEF Dead, Names, PodRowsOf
<1>5. ASSUME NEW q \in listing'[p] \ todo'[p]
      PROVE  \E k \in PodRowsOf(q)' : podRows'[k].links = ImagesOf[q]
  <2>1. PICK k \in PodRowsOf(q) : podRows[k].links = ImagesOf[q]
    BY <1>1, <1>5 DEF PodSyncInv, Linked
  <2>2. k \notin rows[p] /\ k \in DOMAIN podRows
    BY <1>1, <1>3, <1>5, <2>1, ListedLive
  <2>. QED BY <1>2, <1>4, <2>1, <2>2
<1>6. Linked(p)' /\ HaveIds(p)'
  BY <1>1, <1>5 DEF PodSyncInv, Linked, HaveIds
<1>7. Works(p)' /\ DeadAre(p)'
  BY <1>1, <1>3, <1>4 DEF Works, DeadAre
<1>. QED BY <1>6, <1>7 DEF PodSyncInv

LEMMA PodInvDropDead ==
  ASSUME PodTypeInv, NEW p \in Syncs, DropDead(p), ~failed'[p], PodSyncInv(p)
  PROVE  PodSyncInv(p)'
<1>1. /\ UNCHANGED <<listing, todo, saved>>
      /\ pc[p] = "dropDead" /\ pc'[p] = "end"
      /\ DOMAIN podRows' = DOMAIN podRows \ rows[p]
      /\ \A k \in DOMAIN podRows' : podRows'[k] = podRows[k]
  BY DropDeadType
<1>2. rows[p] = Dead(p)
  BY <1>1 DEF PodSyncInv, DeadAre
<1>3. Dead(p)' = {}
  BY <1>1, <1>2 DEF Dead, Names
<1>4. ASSUME NEW q \in listing'[p] \ todo'[p]
      PROVE  \E k \in PodRowsOf(q)' : podRows'[k].links = ImagesOf[q]
  <2>1. PICK k \in PodRowsOf(q) : podRows[k].links = ImagesOf[q]
    BY <1>1, <1>4 DEF PodSyncInv, Linked
  <2>2. k \in DOMAIN podRows'
    BY <1>1, <1>2, <1>4, <2>1, ListedLive
  <2>. QED BY <1>1, <2>1, <2>2 DEF PodRowsOf
<1>5. Linked(p)' /\ HaveIds(p)'
  BY <1>1, <1>4 DEF PodSyncInv, Linked, HaveIds
<1>6. Works(p)' /\ DeadAre(p)'
  BY <1>1, <1>3 DEF Works, DeadAre
<1>. QED BY <1>5, <1>6 DEF PodSyncInv

LEMMA PodSyncStep ==
  ASSUME PodTypeInv, Alone, Distinct, PodSyncsInv, [PodNext]_podSyncVars
  PROVE  PodSyncsInv'
<1>. SUFFICES ASSUME NEW p \in Syncs, Told(p)'
              PROVE  PodSyncInv(p)'
  BY DEF PodSyncsInv
<1>1. alone'[p] /\ ~failed'[p] /\ pc'[p] \in PodLoop \cup PodEnding
  BY DEF Told
<1>2. pc'[p] # "idle"
  BY <1>1 DEF PodLoop, PodEnding
<1>3. CASE ListSpaces(p) \/ FindDeadSpaces(p) \/ DropSpaces(p) \/ SpacesFail(p)
  <2>1. pc'[p] \in {"spaces", "drop", "list"}
    BY <1>3, SpacesStepType DEF SpacesStep
  <2>. QED BY <1>1, <2>1 DEF PodLoop, PodEnding
<1>4. CASE ListFails(p) \/ PodFails(p) \/ DeadFails(p)
  BY <1>1, <1>4, PodEndsType, PodFailsType
<1>5. CASE ListPods(p)
  BY <1>1, <1>5, PodInvListPods
<1>6. CASE PodsDone(p)
  BY <1>2, <1>6, PodsDoneType
<1>7. CASE NoSync
  <2>1. Told(p)
    BY <1>1, <1>7 DEF NoSync, Told
  <2>. QED BY <1>7, <2>1, PodInvNoSync DEF PodSyncsInv
<1>8. ASSUME alone[p],
             FindPod(p) \/ CreatePod(p) \/ Unlink(p) \/ Link(p)
               \/ FindDeadPods(p) \/ UnlinkDead(p) \/ DropDead(p)
      PROVE  PodSyncInv(p)'
  <2>1. pc[p] \in PodLoop \cup PodEnding
    BY <1>8 DEF PodLoop, PodEnding, FindPod, CreatePod, Unlink, Link, FindDeadPods,
                UnlinkDead, DropDead, At
  <2>2. ~failed[p]
    BY <1>1, <1>8, FindPodType, CreatePodType, UnlinkType, LinkType, FindDeadPodsType,
       DropDeadType
  <2>3. PodSyncInv(p)
    BY <1>8, <2>1, <2>2 DEF PodSyncsInv, Told
  <2>. QED BY <1>1, <1>8, <2>3, PodInvFindPod, PodInvCreatePod, PodInvUnlink, PodInvLink,
           PodInvFindDeadPods, PodInvUnlinkDead, PodInvDropDead
<1>. QED BY <1>1, <1>2, <1>3, <1>4, <1>5, <1>6, <1>7, <1>8, OnlyThisSync
         DEF PodActs, PodStep

LEMMA PodsInvInitially == PodInit => Alone /\ Distinct /\ PodSyncsInv
  BY DEF PodInit, Alone, Distinct, OnePerName, PodSyncsInv, Told, PodLoop, PodEnding

(* A sync of pods that ran alone and without an error has left a row for   *)
(* every pod it saw, linked to that pod's images, and no row of a name it  *)
(* did not see, whatever rows and links the syncs before it left: those    *)
(* that overlapped, failed or were killed (saveK8sPods, deleteDeadPods).   *)
THEOREM SuccessfulSyncMirrorsThePods == PodSpec => []SuccessMirrorsThePods
<1>. DEFINE IInv == PodTypeInv /\ Alone /\ Distinct /\ PodSyncsInv
<1>1. PodInit => IInv
  BY PodsInitially, PodsInvInitially
<1>2. IInv /\ [PodNext]_podSyncVars => IInv'
  BY PodTypeStep, PodAloneStep, DistinctStep, PodSyncStep
<1>3. IInv => SuccessMirrorsThePods
  <2>. SUFFICES ASSUME IInv, NEW p \in Syncs, At(p, "end"), alone[p], ~failed[p]
                PROVE  MirrorsPods(p)
    BY DEF SuccessMirrorsThePods
  <2>1. pc[p] = "end" /\ Told(p) /\ todo[p] = {}
    BY DEF At, Told, PodEnding, PodTypeInv, PodLoops, PodLoop
  <2>2. Linked(p) /\ Dead(p) = {}
    BY <2>1 DEF PodSyncsInv, PodSyncInv, DeadAre
  <2>. QED BY <2>1, <2>2 DEF Linked, Dead, MirrorsPods
<1>. HIDE DEF IInv
<1>. QED BY <1>1, <1>2, <1>3, PTL DEF PodSpec

-----------------------------------------------------------------------------
(* Pods: rows *)

(* Syncs that have found no row of a pod's namespace and name.             *)
Inserting(q) == {p \in Syncs : pc[p] = "create" /\ SamePod(Pod(p), q)}
FewRowsOf(q) == Room(PodRowsOf(q), Inserting(q))
FewPodRows == \A q \in Pods : FewRowsOf(q)

FewRowsPerPod ==
  \A q \in Pods : Cardinality(PodRowsOf(q)) <= Cardinality(Syncs)

LEMMA InsertingFrame ==
  ASSUME NEW p \in Syncs, \A r \in Syncs \ {p} : KeepsPods(r), NEW q \in Pods
  PROVE  /\ \A r \in Inserting(q)' : r = p \/ r \in Inserting(q)
         /\ pc'[p] # "create" => Inserting(q)' \subseteq Inserting(q) \ {p}
<1>1. ASSUME NEW r \in Inserting(q)', r # p
      PROVE  r \in Inserting(q)
  <2>1. r \in Syncs /\ pc'[r] = "create" /\ SamePod(Pod(r), q)'
    BY DEF Inserting
  <2>2. KeepsPods(r)
    BY <1>1, <2>1
  <2>3. Pod(r)' = Pod(r)
    BY <2>2 DEF KeepsPods, Pod
  <2>. QED BY <2>1, <2>2, <2>3 DEF KeepsPods, Inserting, SamePod
<1>2. pc'[p] # "create" => p \notin Inserting(q)'
  BY DEF Inserting
<1>. QED BY <1>1, <1>2

(* No row is added, and nobody begins to insert.                           *)
LEMMA FewPodsLeft ==
  ASSUME FewPodRows, DOMAIN podRows' \subseteq DOMAIN podRows,
         \A k \in DOMAIN podRows' :
           podRows'[k].space = podRows[k].space /\ podRows'[k].name = podRows[k].name,
         \A q \in Pods : Inserting(q)' \subseteq Inserting(q)
  PROVE  FewPodRows'
<1>. SUFFICES ASSUME NEW q \in Pods PROVE FewRowsOf(q)'
  BY DEF FewPodRows
<1>1. PodRowsOf(q)' \subseteq PodRowsOf(q)
  BY DEF PodRowsOf
<1>2. Inserting(q) \in SUBSET Syncs /\ Inserting(q)' \subseteq Inserting(q)
  BY DEF Inserting
<1>3. Room(PodRowsOf(q), Inserting(q))
  BY DEF FewPodRows, FewRowsOf
<1>4. Room(PodRowsOf(q)', Inserting(q)')
  BY <1>1, <1>2, <1>3, RoomShrinks
<1>. QED BY <1>4 DEF FewRowsOf, Room

LEMMA FewFindPod ==
  ASSUME PodTypeInv, FewPodRows, NEW p \in Syncs, FindPod(p)
  PROVE  FewPodRows'
<1>. SUFFICES ASSUME NEW q \in Pods PROVE FewRowsOf(q)'
  BY DEF FewPodRows
<1>1. UNCHANGED <<podRows, todo>> /\ \A r \in Syncs \ {p} : KeepsPods(r)
  BY FindPodType
<1>2. PodRowsOf(q)' = PodRowsOf(q) /\ Pod(p)' = Pod(p)
  BY <1>1 DEF PodRowsOf, Pod
<1>3. Inserting(q) \in SUBSET Syncs /\ Inserting(q)' \in SUBSET Syncs
  BY DEF Inserting
<1>4. CASE pc'[p] = "create" /\ SamePod(Pod(p), q)
  <2>1. PodRowsOf(Pod(p)) = {}
    <3>1. Goes(p, "create") \/ Goes(p, "unlink")
      BY DEF FindPod
    <3>2. pc \in [Syncs -> PodSteps]
      BY PodTypesAre
    <3>3. ~Goes(p, "unlink")
      BY <1>4, <3>2 DEF Goes
    <3>. QED BY <3>3 DEF FindPod
  <2>2. PodRowsOf(q)' = {}
    BY <1>2, <1>4, <2>1 DEF PodRowsOf, SamePod
  <2>3. Room(PodRowsOf(q)', Inserting(q)')
    BY <1>3, <2>2, RoomAtFirst
  <2>. QED BY <2>3 DEF FewRowsOf, Room
<1>5. CASE ~(pc'[p] = "create" /\ SamePod(Pod(p), q))
  <2>1. p \notin Inserting(q)'
    BY <1>2, <1>5 DEF Inserting, SamePod
  <2>2. Inserting(q)' \subseteq Inserting(q)
    BY <1>1, <2>1, InsertingFrame
  <2>3. Room(PodRowsOf(q), Inserting(q))
    BY DEF FewPodRows, FewRowsOf
  <2>4. Room(PodRowsOf(q)', Inserting(q)')
    BY <1>2, <1>3, <2>2, <2>3, RoomShrinks
  <2>. QED BY <2>4 DEF FewRowsOf, Room
<1>. QED BY <1>4, <1>5

LEMMA FewCreatePod ==
  ASSUME PodTypeInv, FewPodRows, NEW p \in Syncs, CreatePod(p)
  PROVE  FewPodRows'
<1>. SUFFICES ASSUME NEW q \in Pods PROVE FewRowsOf(q)'
  BY DEF FewPodRows
<1>1. pc[p] = "create" /\ pc'[p] = "link" /\ \A r \in Syncs \ {p} : KeepsPods(r)
  BY CreatePodType
<1>2. PICK id \in Ids \ DOMAIN podRows :
        /\ DOMAIN podRows' = DOMAIN podRows \cup {id}
        /\ podRows'[id] = [space |-> SpaceOf[Pod(p)], name |-> NameOf[Pod(p)],
                           links |-> {}]
        /\ \A k \in DOMAIN podRows : podRows'[k] = podRows[k]
  BY CreatePodType
<1>3. /\ Inserting(q) \in SUBSET Syncs
      /\ Inserting(q)' \in SUBSET (Inserting(q) \ {p})
  BY <1>1, InsertingFrame DEF Inserting
<1>4. Room(PodRowsOf(q), Inserting(q))
  BY DEF FewPodRows, FewRowsOf
<1>5. CASE SamePod(Pod(p), q)
  <2>1. PodRowsOf(q)' = PodRowsOf(q) \cup {id} /\ id \notin PodRowsOf(q)
    BY <1>2, <1>5 DEF PodRowsOf, SamePod
  <2>2. p \in Inserting(q)
    BY <1>1, <1>5 DEF Inserting
  <2>3. Room(PodRowsOf(q)', Inserting(q)')
    BY <1>3, <1>4, <2>1, <2>2, RoomFills
  <2>. QED BY <2>3 DEF FewRowsOf, Room
<1>6. CASE ~SamePod(Pod(p), q)
  <2>1. PodRowsOf(q)' = PodRowsOf(q)
    BY <1>2, <1>6 DEF PodRowsOf, SamePod
  <2>2. Room(PodRowsOf(q)', Inserting(q)')
    BY <1>3, <1>4, <2>1, RoomShrinks
  <2>. QED BY <2>2 DEF FewRowsOf, Room
<1>. QED BY <1>5, <1>6

LEMMA FewPodsStep ==
  ASSUME PodTypeInv, FewPodRows, [PodNext]_podSyncVars
  PROVE  FewPodRows'
<1>1. CASE NoSync
  <2>1. UNCHANGED <<podRows, pc, todo>>
    BY <1>1 DEF NoSync
  <2>2. \A q \in Pods : Inserting(q)' = Inserting(q)
    BY <2>1 DEF Inserting, Pod, SamePod
  <2>. QED BY <2>1, <2>2, FewPodsLeft
<1>2. CASE PodCrash
  <2>1. UNCHANGED podRows /\ \A q \in Pods : Inserting(q)' = {}
    BY <1>2, PodCrashType DEF Inserting
  <2>. QED BY <2>1, FewPodsLeft
<1>3. ASSUME NEW p \in Syncs, \A r \in Syncs \ {p} : KeepsPods(r), pc'[p] # "create",
             DOMAIN podRows' \subseteq DOMAIN podRows,
             \A k \in DOMAIN podRows' : podRows'[k].space = podRows[k].space
                                       /\ podRows'[k].name = podRows[k].name
      PROVE  FewPodRows'
  <2>1. \A q \in Pods : Inserting(q)' \subseteq Inserting(q)
    BY <1>3, InsertingFrame
  <2>. QED BY <1>3, <2>1, FewPodsLeft
<1>4. ASSUME NEW p \in Syncs, SpacesStep(p) \/ ListPods(p) \/ FindDeadPods(p)
      PROVE  FewPodRows'
  <2>1. /\ UNCHANGED podRows /\ \A r \in Syncs \ {p} : KeepsPods(r)
        /\ pc'[p] \in {"spaces", "drop", "list", "dead", "pod", "end", "unlinkDead"}
    BY <1>4, SpacesStepType, ListPodsType, FindDeadPodsType
  <2>. QED BY <1>3, <2>1
<1>5. ASSUME NEW p \in Syncs, ListFails(p) \/ DeadFails(p) PROVE FewPodRows'
  <2>1. UNCHANGED podRows
    BY <1>5 DEF ListFails, DeadFails, podTables
  <2>. QED BY <1>3, <1>5, <2>1, PodEndsType
<1>6. ASSUME NEW p \in Syncs, PodFails(p) PROVE FewPodRows'
  <2>1. NextPod(p) /\ (podRows' = podRows \/ podRows' = WithLinks(p))
    BY <1>6 DEF PodFails
  <2>2. pc'[p] \in {"dead", "pod"}
    BY <2>1, NextPodType
  <2>3. /\ DOMAIN podRows' = DOMAIN podRows
        /\ \A k \in DOMAIN podRows' : podRows'[k].space = podRows[k].space
                                  /\ podRows'[k].name = podRows[k].name
    BY <2>1, WithLinksType
  <2>. QED BY <1>3, <1>6, <2>2, <2>3, PodFailsType
<1>7. ASSUME NEW p \in Syncs, Unlink(p) \/ UnlinkDead(p) PROVE FewPodRows'
  BY <1>3, <1>7, UnlinkType
<1>8. ASSUME NEW p \in Syncs, Link(p) PROVE FewPodRows'
  <2>1. pc'[p] \in {"dead", "pod"}
    BY <1>8, LinkType, NextPodType
  <2>. QED BY <1>3, <1>8, <2>1, LinkType
<1>9. ASSUME NEW p \in Syncs, DropDead(p) PROVE FewPodRows'
  <2>1. /\ DOMAIN podRows' \subseteq DOMAIN podRows
        /\ \A k \in DOMAIN podRows' : podRows'[k] = podRows[k]
    BY <1>9 DEF DropDead
  <2>. QED BY <1>3, <1>9, <2>1, DropDeadType
<1>10. ASSUME NEW p \in Syncs, PodsDone(p) PROVE FewPodRows'
  BY <1>3, <1>10, PodsDoneType
<1>. QED BY <1>1, <1>2, <1>4, <1>5, <1>6, <1>7, <1>8, <1>9, <1>10, FewFindPod,
            FewCreatePod, PodsStutter, PodClusterType, SavesType
         DEF PodNext, PodStep, SpacesStep

LEMMA FewPodsInitially == PodInit => FewPodRows
<1>. SUFFICES ASSUME PodInit, NEW q \in Pods PROVE FewRowsOf(q)
  BY DEF FewPodRows
<1>1. PodRowsOf(q) = {} /\ Inserting(q) \in SUBSET Syncs
  BY DEF PodInit, PodRowsOf, Inserting
<1>. QED BY <1>1, RoomAtFirst DEF FewRowsOf

(* kubernetes_pods has no key on namespace and name, so overlapping syncs  *)
(* may insert a pod twice.  However they overlap, fail and are killed, and *)
(* although each of them may delete rows that another has just found, a    *)
(* pod gets no more rows than there are syncs (savePod looks for the row   *)
(* before it inserts one).                                                 *)
THEOREM RowsPerPodAreFew == PodSpec => []FewRowsPerPod
<1>1. PodTypeInv /\ FewPodRows /\ [PodNext]_podSyncVars => (PodTypeInv /\ FewPodRows)'
  BY PodTypeStep, FewPodsStep
<1>2. PodTypeInv /\ FewPodRows => FewRowsPerPod
  <2>. SUFFICES ASSUME FewPodRows, NEW q \in Pods
                PROVE  Cardinality(PodRowsOf(q)) <= Cardinality(Syncs)
    BY DEF FewRowsPerPod
  <2>1. Inserting(q) \in SUBSET Syncs
    BY DEF Inserting
  <2>. QED BY <2>1, RoomIsEnough DEF FewPodRows, FewRowsOf
<1>. QED BY <1>1, <1>2, PodsInitially, FewPodsInitially, PTL DEF PodSpec
=============================================================================
