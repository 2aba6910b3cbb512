---------------------------- MODULE Nightly_proofs ----------------------------
(* Theorems about Nightly, for every value of its constants. *)
EXTENDS Nightly, TLAPS

LEMMA VerdictsType ==
  ASSUME NEW f, NEW S
  PROVE  f \in Verdicts(S) <=> DOMAIN f \subseteq S /\ f \in [DOMAIN f -> BOOLEAN]
  BY DEF Verdicts

LEMMA ListsType ==
  ASSUME NEW f
  PROVE  f \in Lists <=> DOMAIN f \subseteq Images /\ f \in [DOMAIN f -> Ages]
  BY DEF Lists

LEMMA NobodyType == (\A S : Nobody \in Verdicts(S)) /\ Nobody \in Lists
  BY VerdictsType, ListsType DEF Nobody

LEMMA NoneType == NoImage \in [id : Images, age : Ages] /\ NoTerms \in [Policies -> Ages]
  BY NightlyAssumption DEF NoImage, NoTerms, Ages

(* Every variable keeps its type, whatever the job meets.                  *)
THEOREM TypeCorrect == Spec => []TypeOK
<1>. USE NightlyAssumption
<1>1. Init => TypeOK
  <2>. SUFFICES ASSUME Init PROVE TypeOK
    OBVIOUS
  <2>1. pods \in Verdicts(Pods) /\ spaces \in Verdicts(Spaces)
    BY VerdictsType DEF Init
  <2>2. /\ podRows \in Verdicts(Pods) /\ spaceRows \in Verdicts(Spaces)
        /\ list \in Lists
    BY NobodyType DEF Init
  <2>. QED BY <2>1, <2>2, NoneType DEF Init, TypeOK, Ages
<1>2. TypeOK /\ [Next]_vars => TypeOK'
  <2>. SUFFICES ASSUME TypeOK, [Next]_vars PROVE TypeOK'
    OBVIOUS
  <2>. USE DEF live, scans, rows, loop, Goes, Fault, others, Change
  <2>1. CASE Midnight
    <3>1. \A a \in Ages : Older(a) \in Ages
      BY DEF Older, Ages
    <3>2. age' \in [Images -> Ages]
      BY <2>1, <3>1 DEF Midnight, TypeOK
    <3>. QED BY <2>1, <3>2, NobodyType DEF Midnight, TypeOK
  <2>2. ASSUME NEW saved, CopySpaces(saved) PROVE TypeOK'
    <3>1. spaceRows' \in Verdicts(Spaces)
      BY <2>2, VerdictsType DEF CopySpaces, TypeOK
    <3>. QED BY <2>2, <3>1 DEF CopySpaces, TypeOK
  <2>3. ASSUME NEW saved, CopyPods(saved) PROVE TypeOK'
    <3>1. podRows' \in Verdicts(Pods)
      BY <2>3, VerdictsType DEF CopyPods, TypeOK
    <3>. QED BY <2>3, <3>1 DEF CopyPods, TypeOK
  <2>4. ASSUME NEW T, NEW U, JudgePods(T, U) PROVE TypeOK'
    <3>1. podRows' \in Verdicts(Pods)
      <4>. DEFINE verdict(p) == IF p \in T THEN p \in U ELSE podRows[p]
      <4>1. podRows' = [p \in DOMAIN podRows |-> verdict(p)]
        BY <2>4 DEF JudgePods
      <4>2. ASSUME NEW p \in DOMAIN podRows PROVE verdict(p) \in BOOLEAN
        <5>1. CASE p \in T
          BY <5>1
        <5>2. CASE p \notin T
          BY <5>2, VerdictsType DEF TypeOK
        <5>. QED BY <5>1, <5>2
      <4>. HIDE DEF verdict
      <4>. QED BY <4>1, <4>2, VerdictsType DEF TypeOK
    <3>. QED BY <2>4, <3>1 DEF JudgePods, TypeOK
  <2>5. CASE JudgeSpaces
    <3>1. spaceRows' \in Verdicts(Spaces)
      <4>. DEFINE verdict(s) == IF \E p \in DOMAIN podRows : Space[p] = s
                                THEN AllComply(s) ELSE spaceRows[s]
      <4>1. spaceRows' = [s \in DOMAIN spaceRows |-> verdict(s)]
        BY <2>5 DEF JudgeSpaces
      <4>2. ASSUME NEW s \in DOMAIN spaceRows PROVE verdict(s) \in BOOLEAN
        <5>1. AllComply(s) \in BOOLEAN
          BY DEF AllComply
        <5>2. spaceRows[s] \in BOOLEAN
          BY VerdictsType DEF TypeOK
        <5>. QED BY <5>1, <5>2
      <4>. HIDE DEF verdict
      <4>. QED BY <4>1, <4>2, VerdictsType DEF TypeOK
    <3>. QED BY <2>5, <3>1 DEF JudgeSpaces, TypeOK
  <2>6. CASE RunFails
    <3>1. /\ left' \subseteq Clusters /\ list' \in Lists /\ terms' \in [Policies -> Ages]
          /\ image' \in [id : Images, age : Ages] /\ rest' \subseteq Policies
          /\ step' = "idle" /\ clean' \in BOOLEAN
      BY <2>6, NobodyType, NoneType DEF RunFails
    <3>2. faults' \in 0 .. MaxFaults /\ UNCHANGED <<live, scans, rows>>
      BY <2>6 DEF RunFails, TypeOK
    <3>. QED BY <3>1, <3>2 DEF TypeOK
  <2>7. ASSUME NEW c \in Clusters, ReadCluster(c) PROVE TypeOK'
    <3>1. list' \in Lists
      BY <2>7, ListsType DEF ReadCluster, TypeOK
    <3>. QED BY <2>7, <3>1 DEF ReadCluster, TypeOK
  <2>8. CASE ClustersDone
    BY <2>8 DEF ClustersDone, TypeOK
  <2>9. ASSUME NEW i \in Images, NextImage(i) PROVE TypeOK'
    <3>1. list' \in Lists /\ list[i] \in Ages
      BY <2>9, ListsType DEF NextImage, TypeOK
    <3>. QED BY <2>9, <3>1 DEF NextImage, TypeOK
  <2>10. CASE ImagesDone
    BY <2>10, NoneType DEF ImagesDone, TypeOK
  <2>11. ASSUME NEW p \in Policies, Skip(p) PROVE TypeOK'
    BY <2>11 DEF Skip, TypeOK
  <2>12. ASSUME NEW p \in Policies, Request(p) PROVE TypeOK'
    BY <2>12 DEF Request, TypeOK
  <2>13. CASE PoliciesDone
    BY <2>13, NoneType DEF PoliciesDone, TypeOK
  <2>14. CASE RequestThrows
    BY <2>14, NobodyType, NoneType DEF RequestThrows, TypeOK
  <2>15. ASSUME NEW i \in Images, ScanEnds(i) PROVE TypeOK'
    BY <2>15 DEF ScanEnds, TypeOK, Ages
  <2>16. ASSUME NEW p \in Policies, NEW g \in Ages, SetGrace(p, g) PROVE TypeOK'
    BY <2>16 DEF SetGrace, TypeOK
  <2>17. ASSUME NEW i \in Images, Mark(i) PROVE TypeOK'
    BY <2>17 DEF Mark, TypeOK
  <2>18. ASSUME NEW p \in Pods, NEW v \in Verdicts({p}), ChangePods(p, v) PROVE TypeOK'
    <3>1. pods' \in Verdicts(Pods)
      BY <2>18, VerdictsType DEF ChangePods, TypeOK
    <3>. QED BY <2>18, <3>1 DEF ChangePods, TypeOK
  <2>19. ASSUME NEW s \in Spaces, NEW v \in Verdicts({s}), ChangeSpaces(s, v) PROVE TypeOK'
    <3>1. spaces' \in Verdicts(Spaces)
      BY <2>19, VerdictsType DEF ChangeSpaces, TypeOK
    <3>. QED BY <2>19, <3>1 DEF ChangeSpaces, TypeOK
  <2>20. ASSUME NEW i \in Images, RequestElsewhere(i) PROVE TypeOK'
    BY <2>20 DEF RequestElsewhere, TypeOK
  <2>21. CASE UNCHANGED vars
    BY <2>21 DEF vars, TypeOK
  <2>. QED
    BY <2>1, <2>2, <2>3, <2>4, <2>5, <2>6, <2>7, <2>8, <2>9, <2>10, <2>11, <2>12,
       <2>13, <2>14, <2>15, <2>16, <2>17, <2>18, <2>19, <2>20, <2>21 DEF Next, Job
<1>. QED BY <1>1, <1>2, PTL DEF Spec

(* The verdicts of a day agree: once the job is over nothing touches the   *)
(* rows it left, the last of which it computed from the others, and a job  *)
(* that is not over or has broken off promises nothing.                    *)
THEOREM HistoryAgrees == Spec => []VerdictsAgree
<1>1. Init => VerdictsAgree
  BY DEF Init, VerdictsAgree, Nobody
<1>2. TypeOK /\ VerdictsAgree /\ [Next]_vars => VerdictsAgree'
  <2>. SUFFICES ASSUME TypeOK, VerdictsAgree, [Next]_vars, step' = "idle", clean'
                PROVE  VerdictsAgree'
    BY DEF VerdictsAgree
  <2>. USE DEF live, scans, rows, loop, Goes, Fault, others
  <2>1. CASE JudgeSpaces
    BY <2>1, VerdictsType DEF JudgeSpaces, VerdictsAgree, AllComply, TypeOK
  <2>2. CASE UNCHANGED <<rows, step, clean>>
    BY <2>2 DEF VerdictsAgree, AllComply
  <2>. QED
    BY <2>1, <2>2 DEF Next, Job, vars, Midnight, CopySpaces, CopyPods, JudgePods, RunFails,
       ReadCluster, ClustersDone, NextImage, ImagesDone, Skip, Request, PoliciesDone,
       RequestThrows, ScanEnds, SetGrace, Mark, ChangePods, ChangeSpaces, RequestElsewhere
<1>. QED BY <1>1, <1>2, TypeCorrect, PTL DEF Spec
=============================================================================
