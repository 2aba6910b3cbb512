-------------------------- MODULE Admission_proofs --------------------------
(* Type correctness of Admission, and that no unscanned image is admitted, *)
(* for every set of references, pods and requests.                         *)
EXTENDS Admission, SequenceTheorems, TLAPS

(* Appending keeps every row, and with it the scans of a reference.        *)
LEMMA AppendKeepsScans ==
  ASSUME image \in Seq(Images), NEW a \in Images, image' = Append(image, a)
  PROVE  /\ image' \in Seq(Images)
         /\ Len(image') = Len(image) + 1
         /\ \A r \in Refs : Scanned(r) => Scanned(r)'
<1>1. /\ image' \in Seq(Images) /\ Len(image') = Len(image) + 1
      /\ \A i \in 1 .. Len(image) : image'[i] = image[i]
  BY AppendProperties
<1>2. Len(image) \in Nat
  BY LenProperties
<1>. QED
  BY <1>1, <1>2 DEF Scanned, Rows

(* The end of a scan gives one row a result and leaves the others alone.   *)
LEMMA ScanKeepsScans ==
  ASSUME image \in Seq(Images), NEW i \in 1 .. Len(image),
         NEW a \in Images, a.ref = image[i].ref, a.scan # "none",
         image' = [image EXCEPT ![i] = a]
  PROVE  /\ image' \in Seq(Images)
         /\ Len(image') = Len(image)
         /\ \A r \in Refs : Scanned(r) => Scanned(r)'
<1>1. /\ image' \in Seq(Images) /\ Len(image') = Len(image)
      /\ \A k \in 1 .. Len(image) : image'[k] = IF k = i THEN a ELSE image[k]
  BY ExceptSeq
<1>. QED
  BY <1>1 DEF Scanned, Rows

(* What every step does to the rows: their types stay right, none is lost, *)
(* and a scanned reference stays scanned.                                  *)
RowsGrow ==
  /\ image' \in Seq(Images)
  /\ Len(image) <= Len(image')
  /\ queue' \in SUBSET (1 .. Len(image'))
  /\ \A r \in Refs : Scanned(r) => Scanned(r)'

(* Every action lets the rows grow.                                        *)
LEMMA StepsLetRowsGrow ==
  ASSUME TypeOK, [Next]_vars
  PROVE  RowsGrow
<1>0. image \in Seq(Images) /\ queue \in SUBSET (1 .. Len(image)) /\ Len(image) \in Nat
  BY LenProperties DEF TypeOK
<1>1. ASSUME image' = image, queue' \in SUBSET (1 .. Len(image)) PROVE RowsGrow
  BY <1>0, <1>1 DEF RowsGrow, Scanned, Rows
<1>2. ASSUME NEW a \in Images, image' = Append(image, a),
             queue' \in SUBSET (1 .. Len(image) + 1)
      PROVE  RowsGrow
  BY <1>0, <1>2, AppendKeepsScans DEF RowsGrow
<1>3. ASSUME NEW e \in Requests, NEW p \in PodSpecs, Submit(e, p) PROVE RowsGrow
  BY <1>0, <1>1, <1>3 DEF Submit, imageVars
<1>4. ASSUME NEW e \in Requests, NEW r \in Refs, Lookup(e, r) PROVE RowsGrow
  BY <1>0, <1>1, <1>4 DEF Lookup, imageVars
<1>5. ASSUME NEW e \in Requests, CheckImage(e) PROVE RowsGrow
  BY <1>0, <1>1, <1>5 DEF CheckImage, imageVars
<1>6. ASSUME NEW e \in Requests, InsertImage(e) PROVE RowsGrow
  <2>. DEFINE a == [ref |-> ref[e], hash |-> NoHash, scan |-> "none"]
  <2>1. a \in Images
    BY DEF TypeOK, Images
  <2>2. image' = Append(image, a) /\ queue' = queue
    BY <1>6 DEF InsertImage
  <2>3. queue' \in SUBSET (1 .. Len(image) + 1)
    BY <1>0, <2>2
  <2>. QED BY <1>2, <2>1, <2>2, <2>3
<1>7. ASSUME NEW e \in Requests, RequestScan(e) PROVE RowsGrow
  <2>1. phase[e] = "request" => row[e] \in 1 .. Len(image)
    BY <1>0 DEF TypeOK
  <2>. QED BY <1>0, <1>1, <1>7, <2>1 DEF RequestScan, Answer, Move
<1>8. ASSUME NEW e \in Requests, ReadExceptions(e) PROVE RowsGrow
  BY <1>0, <1>1, <1>8 DEF ReadExceptions, imageVars
<1>9. ASSUME NEW e \in Requests, LookedUp(e) \/ Decide(e) \/ Fail(e) PROVE RowsGrow
  BY <1>0, <1>1, <1>9 DEF LookedUp, Decide, Fail, imageVars
<1>10. ASSUME NEW e \in Requests, NEW i \in 1 .. Len(image), EvaluateImage(e, i)
       PROVE  RowsGrow
  BY <1>0, <1>1, <1>10 DEF EvaluateImage, imageVars
<1>11. ASSUME NEW i \in 1 .. Len(image), Scan(i) PROVE RowsGrow
  <2>0. image[i] \in Images
    BY <1>0, ElementOfSeq
  <2>. DEFINE a == [image[i] EXCEPT !.scan = "found",
                      !.hash = IF @ = TmpHash THEN tag[image[i].ref] ELSE @]
              b == [image[i] EXCEPT !.scan = "error"]
  <2>1. a \in Images /\ a.ref = image[i].ref /\ a.scan # "none"
    BY <2>0 DEF Images, TypeOK
  <2>2. b \in Images /\ b.ref = image[i].ref /\ b.scan # "none"
    BY <2>0 DEF Images
  <2>3. image' = [image EXCEPT ![i] = a] \/ image' = [image EXCEPT ![i] = b]
    BY <1>11, <2>0 DEF Scan, Images
  <2>4. queue' \in SUBSET (1 .. Len(image))
    BY <1>0, <1>11 DEF Scan
  <2>. HIDE DEF a, b
  <2>5. /\ image' \in Seq(Images) /\ Len(image') = Len(image)
        /\ \A r \in Refs : Scanned(r) => Scanned(r)'
    BY <1>0, <2>1, <2>2, <2>3, ScanKeepsScans
  <2>. QED BY <1>0, <2>4, <2>5 DEF RowsGrow
<1>12. ASSUME NEW i \in 1 .. Len(image), LoseScan(i) PROVE RowsGrow
  BY <1>0, <1>1, <1>12 DEF LoseScan
<1>13. ASSUME NEW r \in Refs, ApiCreates(r) \/ SyncCreates(r) PROVE RowsGrow
  <2>1. PICK h \in Digests \cup {TmpHash} : AddImage(r, h)
    BY <1>13 DEF ApiCreates, SyncCreates, TypeOK
  <2>. DEFINE a == [ref |-> r, hash |-> h, scan |-> "none"]
  <2>2. a \in Images
    BY DEF Images
  <2>3. image' = Append(image, a) /\ queue' \subseteq queue \cup {Len(image) + 1}
    BY <2>1 DEF AddImage
  <2>4. queue' \in SUBSET (1 .. Len(image) + 1)
    BY <1>0, <2>3
  <2>. QED BY <1>2, <2>2, <2>3, <2>4
<1>14. CASE Change
  BY <1>0, <1>1, <1>14 DEF Change, imageVars
<1>15. CASE UNCHANGED vars
  BY <1>0, <1>1, <1>15 DEF vars, imageVars
<1>. QED
  BY <1>3, <1>4, <1>5, <1>6, <1>7, <1>8, <1>9, <1>10, <1>11, <1>12, <1>13,
     <1>14, <1>15 DEF Next, Handle

(* An answer leaves the variables of the requests within their types.      *)
LEMMA AnswerTypes ==
  ASSUME TypeOK, Len(image) \in Nat, NEW e \in Requests, NEW from,
         NEW given \in Answers, Answer(e, from, given)
  PROVE  /\ phase' \in [Requests -> Phases]
         /\ todo' \in [Requests -> SUBSET Refs]
         /\ row' \in [Requests -> 0 .. Len(image)]
         /\ \A f \in Requests : phase'[f] = "request" => row'[f] # 0
         /\ check' \in [Requests -> SUBSET (1 .. Len(image))]
         /\ held' \in [Requests -> BOOLEAN] /\ answer' \in [Requests -> Answers]
<1>1. phase' \in [Requests -> Phases] /\ todo' \in [Requests -> SUBSET Refs]
  BY DEF Answer, Move, TypeOK, Phases
<1>2. row' \in [Requests -> 0 .. Len(image)]
  BY DEF Answer, TypeOK
<1>3. \A f \in Requests : phase'[f] = "request" => row'[f] # 0
  BY DEF Answer, Move, TypeOK
<1>4. check' \in [Requests -> SUBSET (1 .. Len(image))]
  BY DEF Answer, TypeOK
<1>5. held' \in [Requests -> BOOLEAN] /\ answer' \in [Requests -> Answers]
  BY DEF Answer, TypeOK
<1>. QED BY <1>1, <1>2, <1>3, <1>4, <1>5

(* Every variable of Admission keeps its type, whatever requests, scans,   *)
(* registrations, changes and failures interleave.                         *)
THEOREM TypeCorrect == Spec => []TypeOK
<1>1. ASSUME Init PROVE TypeOK
  <2>1. image \in Seq(Images) /\ Len(image) = 0
    BY <1>1 DEF Init
  <2>2. (CHOOSE r \in Refs : TRUE) \in Refs
    BY AdmissionAssumption
  <2>. QED BY <1>1, <2>1, <2>2 DEF Init, TypeOK, Phases, Answers
<1>2. ASSUME TypeOK, [Next]_vars PROVE TypeOK'
  <2>0. RowsGrow
    BY <1>2, StepsLetRowsGrow
  <2>. DEFINE Rest ==
         /\ enforcement' \in BOOLEAN /\ policies' \in BOOLEAN
         /\ excepted' \in SUBSET Refs /\ compliant' \in SUBSET Digests
         /\ tag' \in [Refs -> Digests]
         /\ phase' \in [Requests -> Phases] /\ pod' \in [Requests -> PodSpecs]
         /\ todo' \in [Requests -> SUBSET Refs] /\ ref' \in [Requests -> Refs]
         /\ row' \in [Requests -> 0 .. Len(image')]
         /\ \A f \in Requests : phase'[f] = "request" => row'[f] # 0
         /\ waived' \in [Requests -> SUBSET Refs]
         /\ check' \in [Requests -> SUBSET (1 .. Len(image'))]
         /\ held' \in [Requests -> BOOLEAN] /\ answer' \in [Requests -> Answers]
  <2>1. SUFFICES Rest
    BY <2>0 DEF TypeOK, RowsGrow
  <2>2. /\ Len(image) \in Nat /\ Len(image') \in Nat
        /\ 0 .. Len(image) \subseteq 0 .. Len(image')
        /\ 1 .. Len(image) \subseteq 1 .. Len(image')
        /\ row \in [Requests -> 0 .. Len(image')]
        /\ check \in [Requests -> SUBSET (1 .. Len(image'))]
    <3>1. Len(image) \in Nat /\ Len(image') \in Nat /\ Len(image) <= Len(image')
      BY <1>2, <2>0, LenProperties DEF RowsGrow, TypeOK
    <3>2. 0 .. Len(image) \subseteq 0 .. Len(image')
          /\ 1 .. Len(image) \subseteq 1 .. Len(image')
      BY <3>1
    <3>. QED BY <1>2, <3>1, <3>2 DEF TypeOK
  <2>a. ASSUME NEW e \in Requests, NEW from, NEW given \in Answers,
               Answer(e, from, given),
               UNCHANGED <<settingVars, ref>>, pod' \in [Requests -> PodSpecs],
               waived' \in [Requests -> SUBSET Refs]
        PROVE  Rest
    <3>1. /\ row' \in [Requests -> 0 .. Len(image)]
          /\ check' \in [Requests -> SUBSET (1 .. Len(image))]
          /\ \A f \in Requests : phase'[f] = "request" => row'[f] # 0
      BY <1>2, <2>2, <2>a, AnswerTypes
    <3>2. /\ row' \in [Requests -> 0 .. Len(image')]
          /\ check' \in [Requests -> SUBSET (1 .. Len(image'))]
      BY <2>2, <3>1
    <3>3. /\ phase' \in [Requests -> Phases] /\ todo' \in [Requests -> SUBSET Refs]
          /\ held' \in [Requests -> BOOLEAN] /\ answer' \in [Requests -> Answers]
      BY <1>2, <2>2, <2>a, AnswerTypes
    <3>. QED BY <1>2, <2>a, <3>1, <3>2, <3>3 DEF TypeOK, settingVars
  <2>3. ASSUME NEW e \in Requests, NEW p \in PodSpecs, Submit(e, p) PROVE Rest
    <3>1. pod' \in [Requests -> PodSpecs] /\ waived' \in [Requests -> SUBSET Refs]
      BY <1>2, <2>3 DEF Submit, TypeOK
    <3>2. CASE ~Answer(e, "idle", "skipped")
      <4>1. /\ phase' = [phase EXCEPT ![e] = "next"]
            /\ answer' = [answer EXCEPT ![e] = "none"]
            /\ todo' = [todo EXCEPT ![e] = p] /\ p \subseteq Refs
            /\ UNCHANGED <<row, check, held, settingVars, ref>>
        BY <2>3, <3>2, AdmissionAssumption DEF Submit, Move
      <4>. QED BY <1>2, <2>2, <3>1, <4>1
           DEF TypeOK, Phases, Answers, settingVars
    <3>3. CASE Answer(e, "idle", "skipped")
      BY <2>3, <2>a, <3>1, <3>3 DEF Submit, Answers
    <3>. QED BY <3>2, <3>3
  <2>4. ASSUME NEW e \in Requests, NEW r \in Refs, Lookup(e, r) PROVE Rest
    <3>1. PICK target \in {"create", "exceptions", "next"} :
            Move(e, "next", target)
      BY <2>4 DEF Lookup
    <3>2. /\ phase' \in [Requests -> Phases]
          /\ \A f \in Requests : phase'[f] = "request" => row'[f] # 0
      BY <1>2, <2>4, <3>1 DEF Lookup, Move, TypeOK, Phases
    <3>3. todo' \in [Requests -> SUBSET Refs] /\ ref' \in [Requests -> Refs]
      <4>1. /\ todo \in [Requests -> SUBSET Refs] /\ ref \in [Requests -> Refs]
            /\ todo[e] \in SUBSET Refs
        BY <1>2 DEF TypeOK
      <4>2. UNCHANGED todo \/ todo' = [todo EXCEPT ![e] = todo[e] \ {r}]
        BY <2>4 DEF Lookup
      <4>3. UNCHANGED ref \/ ref' = [ref EXCEPT ![e] = r]
        BY <2>4 DEF Lookup
      <4>. QED BY <4>1, <4>2, <4>3
    <3>4. check' \in [Requests -> SUBSET (1 .. Len(image'))]
      <4>1. \A i \in Newest(r) : i \in 1 .. Len(image)
        BY DEF Newest, Rows
      <4>2. image' = image
        BY <2>4 DEF Lookup, imageVars
      <4>. QED BY <2>2, <2>4, <4>1, <4>2 DEF Lookup
    <3>. QED
      BY <1>2, <2>2, <2>4, <3>2, <3>3, <3>4 DEF Lookup, TypeOK, settingVars
  <2>5. ASSUME NEW e \in Requests, CheckImage(e) PROVE Rest
    <3>1. CASE Answer(e, "create", "error")
      BY <1>2, <2>5, <2>a, <3>1 DEF CheckImage, TypeOK, Answers
    <3>2. CASE Move(e, "create", "insert") /\ UNCHANGED <<todo, row, check, held, answer>>
      BY <1>2, <2>2, <2>5, <3>2 DEF CheckImage, Move, TypeOK, Phases, settingVars
    <3>. QED BY <2>5, <3>1, <3>2 DEF CheckImage
  <2>6. ASSUME NEW e \in Requests, InsertImage(e) PROVE Rest
    <3>1. Len(image') = Len(image) + 1
      BY <1>2, <2>6, AppendProperties DEF InsertImage, TypeOK, Images
    <3>. QED
      BY <1>2, <2>2, <2>6, <3>1 DEF InsertImage, Move, TypeOK, Phases, settingVars
  <2>7. ASSUME NEW e \in Requests, RequestScan(e) PROVE Rest
    <3>1. CASE Answer(e, "request", "error")
      BY <1>2, <2>7, <2>a, <3>1 DEF RequestScan, TypeOK, Answers
    <3>2. CASE /\ Move(e, "request", "exceptions") /\ row' = [row EXCEPT ![e] = 0]
               /\ UNCHANGED <<todo, check, held, answer>>
      BY <1>2, <2>2, <2>7, <3>2 DEF RequestScan, Move, TypeOK, Phases, settingVars
    <3>. QED BY <2>7, <3>1, <3>2 DEF RequestScan
  <2>8. ASSUME NEW e \in Requests, ReadExceptions(e) PROVE Rest
    <3>1. /\ phase' \in [Requests -> Phases] /\ todo' \in [Requests -> SUBSET Refs]
          /\ \A f \in Requests : phase'[f] = "request" => row'[f] # 0
      BY <1>2, <2>8 DEF ReadExceptions, Move, TypeOK, Phases
    <3>2. waived' \in [Requests -> SUBSET Refs] /\ held' \in [Requests -> BOOLEAN]
      <4>1. CASE ref[e] \in excepted
        BY <1>2, <2>8, <4>1 DEF ReadExceptions, TypeOK
      <4>2. CASE ref[e] \notin excepted
        BY <1>2, <2>8, <4>2 DEF ReadExceptions, TypeOK
      <4>. QED BY <4>1, <4>2
    <3>. QED
      BY <1>2, <2>2, <2>8, <3>1, <3>2 DEF ReadExceptions, TypeOK, settingVars
  <2>9. ASSUME NEW e \in Requests, LookedUp(e) \/ Decide(e) \/ Fail(e) PROVE Rest
    <3>1. ASSUME NEW from, NEW given \in Answers, Answer(e, from, given) PROVE Rest
      BY <1>2, <2>9, <2>a, <3>1 DEF LookedUp, Decide, Fail, TypeOK
    <3>2. CASE Move(e, "next", "evaluate") /\ UNCHANGED <<todo, row, check, held, answer>>
      BY <1>2, <2>2, <2>9, <3>2
      DEF LookedUp, Decide, Fail, Answer, Move, TypeOK, Phases, settingVars
    <3>. QED BY <2>9, <3>1, <3>2 DEF LookedUp, Decide, Fail, Answers
  <2>10. ASSUME NEW e \in Requests, NEW i \in 1 .. Len(image), EvaluateImage(e, i)
         PROVE  Rest
    <3>1. (held[e] \/ ~Complies(i)) \in BOOLEAN
      BY DEF Complies
    <3>. QED
      BY <1>2, <2>2, <2>10, <3>1
      DEF EvaluateImage, Move, TypeOK, Phases, settingVars
  <2>11. CASE UNCHANGED requestVars
    <3>1. excepted' \in SUBSET Refs /\ compliant' \in SUBSET Digests
          /\ tag' \in [Refs -> Digests]
          /\ enforcement' \in BOOLEAN /\ policies' \in BOOLEAN
      <4>1. CASE Change
        BY <1>2, <4>1 DEF Change, TypeOK
      <4>2. CASE UNCHANGED settingVars
        BY <1>2, <4>2 DEF settingVars, TypeOK
      <4>3. Change \/ UNCHANGED settingVars
        BY <1>2 DEF Next, Handle, Submit, Lookup, CheckImage, InsertImage,
          RequestScan, ReadExceptions, LookedUp, Decide, Fail, EvaluateImage,
          Scan, LoseScan, AddImage, ApiCreates, SyncCreates, vars
      <4>. QED BY <4>1, <4>2, <4>3
    <3>. QED BY <1>2, <2>2, <2>11, <3>1 DEF requestVars, TypeOK
  <2>12. \/ UNCHANGED requestVars
         \/ \E e \in Requests : \/ \E p \in PodSpecs : Submit(e, p)
                               \/ Handle(e) \/ Fail(e)
    BY <1>2 DEF Next, Scan, LoseScan, AddImage, ApiCreates, SyncCreates, Change, vars
  <2>. QED
    BY <2>3, <2>4, <2>5, <2>6, <2>7, <2>8, <2>9, <2>10, <2>11, <2>12 DEF Handle
<1>. QED BY <1>1, <1>2, PTL DEF Spec

(* Steps other than those of requests let rows grow and change no request. *)
LEMMA OtherStepsKeepContainers ==
  ASSUME RowsGrow, PodSpecs \subseteq SUBSET Refs,
         pod \in [Requests -> PodSpecs], NoContainerIsLost, UNCHANGED requestVars
  PROVE  NoContainerIsLost'
BY DEF RowsGrow, NoContainerIsLost, LookedAtIsScanned, NothingIsLeft, requestVars

(* Every step keeps track of every container: it is still to be looked at, *)
(* let through, scanned, or the pod is held.                               *)
LEMMA ContainersStep ==
  ASSUME TypeOK, NoContainerIsLost, [Next]_vars
  PROVE  NoContainerIsLost'
<1>0. RowsGrow
  BY StepsLetRowsGrow
<1>. DEFINE Kept(e) ==
       /\ ~held[e] /\ (phase[e] # "idle" \/ answer[e] = "admitted") =>
            \A r \in pod[e] : r \in todo[e] \cup waived[e] \/ Scanned(r)
       /\ phase[e] = "evaluate" => todo[e] = {}
       /\ phase[e] # "idle" => answer[e] = "none"
       /\ answer[e] = "admitted" => ~held[e] /\ todo[e] = {}
<1>a. NoContainerIsLost = \A e \in Requests : Kept(e)
  BY DEF NoContainerIsLost, LookedAtIsScanned, NothingIsLeft
<1>b. NoContainerIsLost' = \A e \in Requests : Kept(e)'
  BY DEF NoContainerIsLost, LookedAtIsScanned, NothingIsLeft
<1>c. \A r \in Refs : Scanned(r) => Scanned(r)'
  BY <1>0 DEF RowsGrow
<1>d. \A e \in Requests : pod[e] \subseteq Refs
  BY AdmissionAssumption DEF TypeOK
<1>1. ASSUME NEW e \in Requests, NEW p \in PodSpecs, Submit(e, p)
      PROVE  \A f \in Requests : Kept(f)'
  <2>1. /\ pod' = [pod EXCEPT ![e] = p] /\ waived' = [waived EXCEPT ![e] = {}]
        /\ p \subseteq Refs
    BY <1>1, AdmissionAssumption DEF Submit
  <2>2. CASE /\ phase' = [phase EXCEPT ![e] = "next"]
             /\ answer' = [answer EXCEPT ![e] = "none"]
             /\ todo' = [todo EXCEPT ![e] = p] /\ UNCHANGED held
    BY <2>1, <2>2, <1>a, <1>c, <1>d DEF TypeOK
  <2>3. CASE Answer(e, "idle", "skipped")
    BY <2>1, <2>3, <1>a, <1>c, <1>d DEF Answer, Move, TypeOK
  <2>. QED BY <1>1, <2>2, <2>3 DEF Submit, Move
<1>2. ASSUME NEW e \in Requests, NEW r \in Refs, Lookup(e, r)
      PROVE  \A f \in Requests : Kept(f)'
  <2>1. ASSUME todo'[e] # todo[e] PROVE Scanned(r) /\ todo'[e] = todo[e] \ {r}
    BY <1>2, <2>1 DEF Lookup, Newest, Scanned, TypeOK
  <2>2. /\ \A f \in Requests \ {e} : todo'[f] = todo[f] /\ phase'[f] = phase[f]
        /\ UNCHANGED <<pod, waived, held, answer>>
        /\ phase[e] = "next" /\ phase'[e] \in {"create", "exceptions", "next"}
    BY <1>2 DEF Lookup, Move, TypeOK
  <2>. QED BY <1>a, <1>c, <1>d, <2>1, <2>2
<1>3. ASSUME NEW e \in Requests, CheckImage(e) PROVE \A f \in Requests : Kept(f)'
  <2>1. CASE Answer(e, "create", "error") /\ UNCHANGED <<pod, waived>>
    BY <2>1, <1>a, <1>c, <1>d DEF Answer, Move, TypeOK
  <2>2. CASE /\ Move(e, "create", "insert")
             /\ UNCHANGED <<pod, todo, waived, held, answer>>
    BY <2>2, <1>a, <1>c, <1>d DEF Move, TypeOK
  <2>. QED BY <1>3, <2>1, <2>2 DEF CheckImage
<1>4. ASSUME NEW e \in Requests, InsertImage(e) PROVE \A f \in Requests : Kept(f)'
  BY <1>4, <1>a, <1>c, <1>d DEF InsertImage, Move, TypeOK
<1>5. ASSUME NEW e \in Requests, RequestScan(e) PROVE \A f \in Requests : Kept(f)'
  <2>1. CASE Answer(e, "request", "error") /\ UNCHANGED <<pod, waived>>
    BY <2>1, <1>a, <1>c, <1>d DEF Answer, Move, TypeOK
  <2>2. CASE /\ Move(e, "request", "exceptions")
             /\ UNCHANGED <<pod, todo, waived, held, answer>>
    BY <2>2, <1>a, <1>c, <1>d DEF Move, TypeOK
  <2>. QED BY <1>5, <2>1, <2>2 DEF RequestScan
<1>6. ASSUME NEW e \in Requests, ReadExceptions(e) PROVE \A f \in Requests : Kept(f)'
  <2>1. /\ phase[e] = "exceptions" /\ phase' = [phase EXCEPT ![e] = "next"]
        /\ todo' = [todo EXCEPT ![e] = @ \ {ref[e]}]
        /\ UNCHANGED <<pod, answer>>
    BY <1>6 DEF ReadExceptions, Move
  <2>2. CASE waived' = [waived EXCEPT ![e] = @ \cup {ref[e]}] /\ UNCHANGED held
    BY <1>a, <1>c, <1>d, <2>1, <2>2 DEF TypeOK
  <2>3. CASE held' = [held EXCEPT ![e] = TRUE] /\ UNCHANGED waived
    BY <1>a, <1>c, <1>d, <2>1, <2>3 DEF TypeOK
  <2>. QED BY <1>6, <2>2, <2>3 DEF ReadExceptions
<1>7. ASSUME NEW e \in Requests, LookedUp(e) PROVE \A f \in Requests : Kept(f)'
  <2>1. CASE Answer(e, "next", "held") /\ UNCHANGED <<pod, waived>>
    BY <2>1, <1>a, <1>c, <1>d DEF Answer, Move, TypeOK
  <2>2. CASE /\ todo[e] = {} /\ Move(e, "next", "evaluate")
             /\ UNCHANGED <<pod, todo, waived, held, answer>>
    BY <2>2, <1>a, <1>c, <1>d DEF Move, TypeOK
  <2>. QED BY <1>7, <2>1, <2>2 DEF LookedUp
<1>8. ASSUME NEW e \in Requests, NEW i \in 1 .. Len(image), EvaluateImage(e, i)
      PROVE  \A f \in Requests : Kept(f)'
  BY <1>8, <1>a, <1>c, <1>d DEF EvaluateImage, Move, TypeOK
<1>9. ASSUME NEW e \in Requests, Decide(e) PROVE \A f \in Requests : Kept(f)'
  BY <1>9, <1>a, <1>c, <1>d DEF Decide, Answer, Move, TypeOK
<1>10. ASSUME NEW e \in Requests, Fail(e) PROVE \A f \in Requests : Kept(f)'
  BY <1>10, <1>a, <1>c, <1>d DEF Fail, Answer, Move, TypeOK
<1>11. CASE UNCHANGED requestVars
  BY <1>0, <1>11, AdmissionAssumption, OtherStepsKeepContainers DEF TypeOK
<1>12. \/ UNCHANGED requestVars
       \/ \E e \in Requests : \/ \E p \in PodSpecs : Submit(e, p)
                             \/ Handle(e) \/ Fail(e)
  BY DEF Next, Scan, LoseScan, AddImage, ApiCreates, SyncCreates, Change, vars
<1>. QED
  BY <1>b, <1>1, <1>2, <1>3, <1>4, <1>5, <1>6, <1>7, <1>8, <1>9, <1>10, <1>11,
     <1>12 DEF Handle

(* No container gets lost between the lookups and the answer.              *)
THEOREM ContainersAreTracked == Spec => []NoContainerIsLost
<1>1. Init => NoContainerIsLost
  BY DEF Init, NoContainerIsLost, LookedAtIsScanned, NothingIsLeft
<1>. QED BY <1>1, TypeCorrect, ContainersStep, PTL DEF Spec

(* No pod passes the checks with a container whose image was never scanned *)
(* and that no exception lets through.                                     *)
THEOREM UnscannedIsNotAdmitted == Spec => []AdmittedIsScanned
<1>1. NoContainerIsLost => AdmittedIsScanned
  BY DEF NoContainerIsLost, LookedAtIsScanned, NothingIsLeft, AdmittedIsScanned
<1>. QED BY <1>1, ContainersAreTracked, PTL

-----------------------------------------------------------------------------
(* The safety half of FirstScanComes *)

(* An image without a result has a scan under way, or the request that     *)
(* created it is about to ask for one.                                     *)
Unforgotten ==
  \A i \in 1 .. Len(image) :
    image[i].scan = "none" =>
      i \in queue \/ \E e \in Requests : phase[e] = "request" /\ row[e] = i

(* Where the rows stay, as many are queued and no request stops creating   *)
(* its image, no image is forgotten.                                       *)
LEMMA QuietStepsForgetNone ==
  ASSUME Unforgotten, image' = image, queue' = queue,
         \A e \in Requests : phase[e] = "request" =>
                               phase'[e] = "request" /\ row'[e] = row[e]
  PROVE  Unforgotten'
BY DEF Unforgotten

(* Without failures, and while a policy applies, no step forgets an image. *)
LEMMA UnforgottenStep ==
  ASSUME ~Faults, TypeOK, policies, Unforgotten, [Next]_vars
  PROVE  Unforgotten'
<1>0. image \in Seq(Images) /\ Len(image) \in Nat
  BY LenProperties DEF TypeOK
<1>1. ASSUME NEW e \in Requests, NEW p \in PodSpecs, Submit(e, p)
      PROVE  Unforgotten'
  <2>1. image' = image /\ queue' = queue
    BY <1>1 DEF Submit, imageVars
  <2>2. /\ phase[e] = "idle"
        /\ \A f \in Requests \ {e} : phase'[f] = phase[f] /\ row'[f] = row[f]
    BY <1>1 DEF Submit, Answer, Move, TypeOK
  <2>. QED BY <2>1, <2>2, QuietStepsForgetNone
<1>2. ASSUME NEW e \in Requests, NEW r \in Refs, Lookup(e, r) PROVE Unforgotten'
  <2>1. image' = image /\ queue' = queue /\ row' = row
    BY <1>2 DEF Lookup, imageVars
  <2>2. phase[e] = "next" /\ \A f \in Requests \ {e} : phase'[f] = phase[f]
    BY <1>2 DEF Lookup, Move, TypeOK
  <2>. QED BY <2>1, <2>2, QuietStepsForgetNone
<1>3. ASSUME NEW e \in Requests,
             CheckImage(e) \/ ReadExceptions(e) \/ LookedUp(e) \/ Decide(e)
      PROVE  Unforgotten'
  <2>1. image' = image /\ queue' = queue
    BY <1>3 DEF CheckImage, ReadExceptions, LookedUp, Decide, imageVars
  <2>2. phase[e] # "request" /\ \A f \in Requests \ {e} : phase'[f] = phase[f]
    BY <1>3 DEF CheckImage, ReadExceptions, LookedUp, Decide, Answer, Move, TypeOK
  <2>3. \A f \in Requests \ {e} : row'[f] = row[f]
    BY <1>3 DEF CheckImage, ReadExceptions, LookedUp, Decide, Answer, TypeOK
  <2>. QED BY <2>1, <2>2, <2>3, QuietStepsForgetNone
<1>4. ASSUME NEW e \in Requests, NEW i \in 1 .. Len(image), EvaluateImage(e, i)
      PROVE  Unforgotten'
  <2>1. image' = image /\ queue' = queue /\ row' = row
    BY <1>4 DEF EvaluateImage, imageVars
  <2>2. phase' = phase
    BY <1>4 DEF EvaluateImage, Move, TypeOK
  <2>. QED BY <2>1, <2>2, QuietStepsForgetNone
<1>5. ASSUME NEW e \in Requests, InsertImage(e) PROVE Unforgotten'
  <2>. DEFINE a == [ref |-> ref[e], hash |-> NoHash, scan |-> "none"]
  <2>1. a \in Images /\ image' = Append(image, a) /\ queue' = queue
    BY <1>5 DEF InsertImage, Images, TypeOK
  <2>. HIDE DEF a
  <2>2. /\ Len(image') = Len(image) + 1
        /\ \A i \in 1 .. Len(image) : image'[i] = image[i]
    BY <1>0, <2>1, AppendProperties
  <2>3. /\ phase[e] = "insert" /\ phase'[e] = "request"
        /\ row'[e] = Len(image) + 1
        /\ \A f \in Requests \ {e} : phase'[f] = phase[f] /\ row'[f] = row[f]
    BY <1>5 DEF InsertImage, Move, TypeOK
  <2>. SUFFICES ASSUME NEW i \in 1 .. Len(image'), image'[i].scan = "none",
                       i \notin queue
                PROVE  \E f \in Requests : phase'[f] = "request" /\ row'[f] = i
    BY <2>1 DEF Unforgotten
  <2>4. CASE i = Len(image) + 1
    BY <2>3, <2>4
  <2>5. CASE i \in 1 .. Len(image)
    BY <2>2, <2>3, <2>5 DEF Unforgotten
  <2>. QED BY <1>0, <2>2, <2>4, <2>5
<1>6. ASSUME NEW e \in Requests, RequestScan(e) PROVE Unforgotten'
  <2>1. /\ phase[e] = "request" /\ image' = image
        /\ queue' = queue \cup {row[e]}
        /\ phase' = [phase EXCEPT ![e] = "exceptions"]
        /\ row' = [row EXCEPT ![e] = 0]
    BY <1>6 DEF RequestScan, Move
  <2>2. \A f \in Requests \ {e} : phase'[f] = phase[f] /\ row'[f] = row[f]
    BY <2>1 DEF TypeOK
  <2>. QED BY <2>1, <2>2 DEF Unforgotten
<1>7. ASSUME NEW i \in 1 .. Len(image), Scan(i) PROVE Unforgotten'
  <2>1. /\ queue' = queue \ {i} /\ phase' = phase /\ row' = row
    BY <1>7 DEF Scan, requestVars
  <2>2. image[i] \in Images
    BY <1>0, ElementOfSeq
  <2>3. /\ DOMAIN image' = DOMAIN image /\ Len(image') = Len(image)
        /\ image'[i].scan # "none"
        /\ \A k \in 1 .. Len(image) : k # i => image'[k] = image[k]
    BY <1>0, <1>7, <2>2 DEF Scan, Images
  <2>. QED BY <2>1, <2>3 DEF Unforgotten
<1>8. ASSUME NEW r \in Refs, ApiCreates(r) \/ SyncCreates(r) PROVE Unforgotten'
  <2>1. PICK h \in Digests \cup {TmpHash} : AddImage(r, h)
    BY <1>8 DEF ApiCreates, SyncCreates, TypeOK
  <2>. DEFINE a == [ref |-> r, hash |-> h, scan |-> "none"]
  <2>2. /\ a \in Images /\ image' = Append(image, a)
        /\ queue' = queue \cup {Len(image) + 1}
        /\ phase' = phase /\ row' = row
    BY <2>1 DEF AddImage, Images, requestVars
  <2>. HIDE DEF a
  <2>3. /\ Len(image') = Len(image) + 1
        /\ \A i \in 1 .. Len(image) : image'[i] = image[i]
    BY <1>0, <2>2, AppendProperties
  <2>. QED BY <1>0, <2>2, <2>3 DEF Unforgotten
<1>9. CASE Change \/ UNCHANGED vars
  <2>1. image' = image /\ queue' = queue /\ phase' = phase /\ row' = row
    BY <1>9 DEF Change, vars, imageVars, requestVars
  <2>. QED BY <2>1, QuietStepsForgetNone
<1>. QED
  BY <1>1, <1>2, <1>3, <1>4, <1>5, <1>6, <1>7, <1>8, <1>9
  DEF Next, Handle, Fail, LoseScan

(* An image whose first scan has not come in is never forgotten: where     *)
(* nothing fails, and while a policy applies to the cluster, its scan is   *)
(* under way or about to be requested, whoever registered it and however   *)
(* many requests, registrations, scans and changes interleave.  (Without a *)
(* policy createImageScanByImageId throws after the row is stored.)        *)
THEOREM NoImageIsForgotten ==
  ASSUME ~Faults
  PROVE  Spec /\ []policies => []Unforgotten
<1>1. Init => Unforgotten
  BY DEF Init, Unforgotten
<1>2. TypeOK /\ policies /\ Unforgotten /\ [Next]_vars => Unforgotten'
  BY UnforgottenStep
<1>. QED BY <1>1, <1>2, TypeCorrect, PTL DEF Spec
=============================================================================
