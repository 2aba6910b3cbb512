-------------------------- MODULE Exceptions_proofs ---------------------------
(***************************************************************************)
(* Theorems about what exceptions do to verdicts (ImageCompliance), for    *)
(* every catalogue of policies, scanners, issues and exceptions and for    *)
(* all limits, and about the temporary ones that the grace period of a     *)
(* policy creates (TempExceptions), for any issues, namespaces, days and   *)
(* evaluations.  The two specifications have no variable in common.        *)
(***************************************************************************)
EXTENDS ImageCompliance, TempExceptions, FiniteSetTheorems, TLAPS

-----------------------------------------------------------------------------
(* Verdicts *)

(* Every column stays legal and issues stay with a result of their policy. *)
THEOREM RulesTypeCorrect == RuleSpec => []RuleTypeOK
<1>1. RuleInit => RuleTypeOK
  BY ComplianceAssumption DEF RuleInit, RuleTypeOK
<1>2. RuleTypeOK /\ [RuleNext]_ruleVars => RuleTypeOK'
  <2> SUFFICES ASSUME RuleTypeOK, [RuleNext]_ruleVars PROVE RuleTypeOK'
    OBVIOUS
  <2> USE ComplianceAssumption
  <2>1. ASSUME NEW found \in SUBSET Issues, NEW failed \in SUBSET Policies,
               SaveScan(found, failed)
        PROVE  RuleTypeOK'
    BY <2>1 DEF SaveScan, RuleTypeOK, settingVars
  <2>2. ASSUME NEW p \in Policies, NEW isEnabled \in BOOLEAN,
               NEW isEnforced \in BOOLEAN, UpdatePolicy(p, isEnabled, isEnforced)
        PROVE  RuleTypeOK'
    BY <2>2 DEF UpdatePolicy, RuleTypeOK
  <2>3. ASSUME NEW s \in Scanners, NEW isEnabled \in BOOLEAN,
               NEW isRequired \in BOOLEAN, UpdateScanner(s, isEnabled, isRequired)
        PROVE  RuleTypeOK'
    BY <2>3 DEF UpdateScanner, RuleTypeOK
  <2>4. ASSUME NEW s \in Scanners, DeleteScanner(s)
        PROVE  RuleTypeOK'
    BY <2>4 DEF DeleteScanner, RuleTypeOK
  <2>5. ASSUME NEW x \in Exceptions, AddException(x) \/ RemoveException(x)
        PROVE  RuleTypeOK'
    BY <2>5 DEF AddException, RemoveException, RuleTypeOK, settingVars
  <2>6. CASE UNCHANGED ruleVars
    BY <2>6 DEF ruleVars, settingVars, RuleTypeOK
  <2> QED
    BY <2>1, <2>2, <2>3, <2>4, <2>5, <2>6 DEF RuleNext
<1> QED
  BY <1>1, <1>2, PTL DEF RuleSpec

-----------------------------------------------------------------------------
(* Groups of issues *)

(* A group is finite, so that counting it makes sense.                     *)
LEMMA GroupCounts ==
  ASSUME RuleTypeOK, NEW s \in Scanners, NEW except, NEW severity, NEW fixable
  PROVE  /\ IsFiniteSet(Group(s, except, severity, fixable))
         /\ Cardinality(Group(s, except, severity, fixable)) \in Nat
<1>1. Group(s, except, severity, fixable) \subseteq Issues
  BY DEF Group, Remaining, IssuesOf, RuleTypeOK
<1>2. IsFiniteSet(Group(s, except, severity, fixable))
  BY <1>1, ComplianceAssumption, FS_Subset
<1> QED
  BY <1>2, FS_CardinalityType

(* The limit of an issue is a number.                                      *)
LEMMA LimitIsNumber ==
  ASSUME NEW i \in Issues
  PROVE  Limit[i.scanner][i.severity][i.fixable] \in Nat
<1>1. i.scanner \in Scanners /\ i.fixable \in BOOLEAN /\ i.severity \in Severities
  BY ComplianceAssumption DEF Severities
<1> QED
  BY <1>1, ComplianceAssumption

(* More exceptions leave fewer issues in every group.                      *)
LEMMA ExceptionsShrinkGroups ==
  ASSUME RuleTypeOK, NEW s \in Scanners, NEW less, NEW more, less \subseteq more,
         NEW severity, NEW fixable
  PROVE  /\ Remaining(s, more) \subseteq Remaining(s, less)
         /\ Cardinality(Group(s, more, severity, fixable))
              <= Cardinality(Group(s, less, severity, fixable))
<1>1. Remaining(s, more) \subseteq Remaining(s, less)
  BY DEF Remaining
<1>2. Group(s, more, severity, fixable) \subseteq Group(s, less, severity, fixable)
  BY <1>1 DEF Group
<1> QED
  BY <1>1, <1>2, GroupCounts, FS_Subset

(* Hence no issue fails that did not fail before.                          *)
LEMMA ExceptionsShrinkFailures ==
  ASSUME RuleTypeOK, NEW less, NEW more, less \subseteq more
  PROVE  Failed(more) \subseteq Failed(less)
<1> SUFFICES ASSUME NEW i \in Failed(more)
             PROVE  i \in Failed(less)
  OBVIOUS
<1> DEFINE s == i.scanner
<1>1. i \in issues /\ i \in Issues /\ s \in Scanners
  BY ComplianceAssumption DEF Failed, RuleTypeOK
<1>2. Cardinality(Group(s, more, i.severity, i.fixable))
        >= Limit[s][i.severity][i.fixable]
  BY DEF Failed
<1>3. Limit[s][i.severity][i.fixable] \in Nat
  BY <1>1, LimitIsNumber
<1>4. /\ Cardinality(Group(s, more, i.severity, i.fixable)) \in Nat
      /\ Cardinality(Group(s, less, i.severity, i.fixable)) \in Nat
  BY <1>1, GroupCounts
<1>5. /\ Remaining(s, more) \subseteq Remaining(s, less)
      /\ Cardinality(Group(s, more, i.severity, i.fixable))
           <= Cardinality(Group(s, less, i.severity, i.fixable))
  BY <1>1, ExceptionsShrinkGroups
<1>6. Cardinality(Group(s, less, i.severity, i.fixable))
        >= Limit[s][i.severity][i.fixable]
  BY <1>2, <1>3, <1>4, <1>5
<1> QED
  BY <1>1, <1>5, <1>6 DEF Failed

-----------------------------------------------------------------------------
(* The three promises *)

(* Exceptions are monotone: adding them to the stored ones keeps a         *)
(* compliant image compliant.                                              *)
THEOREM ExceptionsAreMonotone == RuleSpec => ExceptionsNeverHurt
<1>1. ASSUME RuleTypeOK, exceptions \subseteq exceptions',
             UNCHANGED <<settingVars, result, issues>>, Compliant(exceptions)
      PROVE  Compliant(exceptions)'
  <2>1. Failed(exceptions') = {}
    BY <1>1, ExceptionsShrinkFailures DEF Compliant
  <2>2. Failed(exceptions)' = Failed(exceptions')
    BY <1>1 DEF Failed, Results, Considered, ScannersOf, IssuesOf, Remaining,
                Group, settingVars
  <2>3. Scanned' = Scanned /\ Throws' = Throws
    BY <1>1 DEF Scanned, Throws, Results, ScannersOf, settingVars
  <2> QED
    BY <1>1, <2>1, <2>2, <2>3 DEF Compliant
<1>2. RuleTypeOK /\ [RuleNext]_ruleVars =>
        [/\ exceptions \subseteq exceptions'
         /\ UNCHANGED <<settingVars, result, issues>>
         => (Compliant(exceptions) => Compliant(exceptions)')]_ruleVars
  BY <1>1
<1> QED
  BY <1>2, RulesTypeCorrect, PTL DEF RuleSpec, ExceptionsNeverHurt

(* The map is the stricter verdict: what it accepts, the rule accepts.     *)
THEOREM MapIsStricter == RuleSpec => []MapNeverMoreLenient
<1>1. RuleTypeOK => MapNeverMoreLenient
  <2> SUFFICES ASSUME RuleTypeOK, Compliant(exceptions), NEW p \in Results
               PROVE  PolicyPasses(p, exceptions)
    BY DEF MapNeverMoreLenient, Rule, Compliant
  <2>1. ASSUME NEW s \in Considered(p), scanner[s] # "off"
        PROVE  WithinLimits(s, exceptions)
    <3>1. s \in Scanners /\ Owner[s] = p /\ scanner[s] = "on"
      BY <2>1 DEF Considered, ScannersOf, RuleTypeOK
    <3> SUFFICES ASSUME NEW i \in Remaining(s, exceptions)
                 PROVE  Cardinality(Group(s, exceptions, i.severity, i.fixable))
                          <= Limit[s][i.severity][i.fixable]
      BY DEF WithinLimits
    <3>2. i \in issues /\ i \in Issues /\ i.scanner = s
      BY DEF Remaining, IssuesOf, RuleTypeOK
    <3>3. i \notin Failed(exceptions)
      BY DEF Compliant
    <3>4. ~(Cardinality(Group(s, exceptions, i.severity, i.fixable))
              >= Limit[s][i.severity][i.fixable])
      BY <2>1, <3>1, <3>2, <3>3 DEF Failed
    <3>5. Limit[s][i.severity][i.fixable] \in Nat
      BY <3>2, LimitIsNumber
    <3>6. Cardinality(Group(s, exceptions, i.severity, i.fixable)) \in Nat
      BY <3>1, GroupCounts
    <3> QED
      BY <3>4, <3>5, <3>6
  <2>2. \A s \in Considered(p) : Passes(s, exceptions)
    BY <2>1 DEF Passes
  <2> QED
    BY <2>2 DEF PolicyPasses
<1> QED
  BY <1>1, RulesTypeCorrect, PTL

(* Where the two verdicts part: a group that has exactly as many issues as *)
(* its limit, which the map counts as too many and the rule does not, and  *)
(* a policy that is not enforced and passes by one scanner only.           *)
AtLimit(except) ==
  \E p \in Results : \E s \in Considered(p) : \E i \in Remaining(s, except) :
    /\ scanner[s] = "on"
    /\ Cardinality(Group(s, except, i.severity, i.fixable))
         = Limit[s][i.severity][i.fixable]

OneOfSeveral(except) ==
  \E p \in Results \ enforced : \E s, t \in Considered(p) :
    Passes(s, except) /\ ~Passes(t, except)

VerdictsPartThere ==
  Compliant(exceptions) <=>
    Rule(exceptions) /\ ~AtLimit(exceptions) /\ ~OneOfSeveral(exceptions)

(* A scanner that is on passes below its limits and at them.               *)
LEMMA PassesWithin ==
  ASSUME RuleTypeOK, NEW p \in Results, NEW s \in Considered(p), scanner[s] = "on",
         NEW i \in Remaining(s, exceptions)
  PROVE  /\ i \in issues /\ i.scanner = s /\ Owner[s] = p
         /\ Cardinality(Group(s, exceptions, i.severity, i.fixable)) \in Nat
         /\ Limit[s][i.severity][i.fixable] \in Nat
         /\ Passes(s, exceptions) =>
              Cardinality(Group(s, exceptions, i.severity, i.fixable))
                <= Limit[s][i.severity][i.fixable]
<1>1. i \in issues /\ i \in Issues /\ i.scanner = s
  BY DEF Remaining, IssuesOf, RuleTypeOK
<1>2. s \in Scanners /\ Owner[s] = p
  BY DEF Considered, ScannersOf
<1>3. /\ Cardinality(Group(s, exceptions, i.severity, i.fixable)) \in Nat
      /\ Limit[s][i.severity][i.fixable] \in Nat
  BY <1>1, <1>2, GroupCounts, LimitIsNumber
<1>. QED BY <1>1, <1>2, <1>3 DEF Passes, WithinLimits

(* The map and the rule differ in these two cases and in no other, for all *)
(* policies, scanners, limits and exceptions: the facade, which answers    *)
(* with the map, turns down what the rule accepts exactly there.           *)
THEOREM VerdictsPartOnlyThere == RuleSpec => []VerdictsPartThere
<1>1. ASSUME RuleTypeOK, Compliant(exceptions), MapNeverMoreLenient
      PROVE  Rule(exceptions) /\ ~AtLimit(exceptions) /\ ~OneOfSeveral(exceptions)
  <2>1. ASSUME NEW p \in Results, NEW s \in Considered(p), scanner[s] = "on",
               NEW i \in Remaining(s, exceptions)
        PROVE  Cardinality(Group(s, exceptions, i.severity, i.fixable))
                 < Limit[s][i.severity][i.fixable]
    <3>1. i \notin Failed(exceptions)
      BY <1>1 DEF Compliant
    <3>2. i \in issues /\ i.scanner = s /\ Owner[s] = p
      BY <1>1, <2>1, PassesWithin
    <3>3. ~(Cardinality(Group(s, exceptions, i.severity, i.fixable))
              >= Limit[s][i.severity][i.fixable])
      BY <2>1, <3>1, <3>2 DEF Failed
    <3>. QED BY <1>1, <2>1, <3>3, PassesWithin
  <2>2. ~AtLimit(exceptions)
    <3>1. ASSUME NEW p \in Results, NEW s \in Considered(p), scanner[s] = "on",
                 NEW i \in Remaining(s, exceptions),
                 Cardinality(Group(s, exceptions, i.severity, i.fixable))
                   = Limit[s][i.severity][i.fixable]
          PROVE  FALSE
      <4>1. Limit[s][i.severity][i.fixable] \in Nat
        BY <1>1, <3>1, PassesWithin
      <4>. QED BY <2>1, <3>1, <4>1
    <3>. QED BY <3>1 DEF AtLimit
  <2>3. \A p \in Results : \A s \in Considered(p) : Passes(s, exceptions)
    <3>1. ASSUME NEW p \in Results, NEW s \in Considered(p), scanner[s] # "off"
          PROVE  WithinLimits(s, exceptions)
      <4>1. scanner[s] = "on"
        BY <1>1, <3>1 DEF Considered, ScannersOf, RuleTypeOK
      <4>2. ASSUME NEW i \in Remaining(s, exceptions)
            PROVE  Cardinality(Group(s, exceptions, i.severity, i.fixable))
                     <= Limit[s][i.severity][i.fixable]
        BY <1>1, <2>1, <4>1, PassesWithin
      <4>. QED BY <4>2 DEF WithinLimits
    <3>. QED BY <3>1 DEF Passes
  <2>. QED BY <1>1, <2>2, <2>3 DEF MapNeverMoreLenient, OneOfSeveral
<1>2. ASSUME RuleTypeOK, Rule(exceptions), ~AtLimit(exceptions), ~OneOfSeveral(exceptions)
      PROVE  Compliant(exceptions)
  <2>1. ASSUME NEW i \in Failed(exceptions) PROVE FALSE
    <3>. DEFINE s == i.scanner
                p == Owner[s]
    <3>1. /\ p \in Results /\ s \in Considered(p) /\ scanner[s] = "on"
          /\ i \in Remaining(s, exceptions)
          /\ Cardinality(Group(s, exceptions, i.severity, i.fixable))
               >= Limit[s][i.severity][i.fixable]
      BY <2>1 DEF Failed
    <3>. HIDE DEF s, p
    <3>2. Cardinality(Group(s, exceptions, i.severity, i.fixable))
            # Limit[s][i.severity][i.fixable]
      BY <1>2, <3>1 DEF AtLimit
    <3>3. ~Passes(s, exceptions)
      BY <1>2, <3>1, <3>2, PassesWithin
    <3>4. PolicyPasses(p, exceptions)
      BY <1>2, <3>1 DEF Rule
    <3>5. p \notin enforced /\ \E t \in Considered(p) : Passes(t, exceptions)
      BY <3>1, <3>3, <3>4 DEF PolicyPasses
    <3>. QED BY <1>2, <3>1, <3>3, <3>5 DEF OneOfSeveral
  <2>. QED BY <1>2, <2>1 DEF Rule, Compliant
<1>3. RuleTypeOK /\ MapNeverMoreLenient => VerdictsPartThere
  BY <1>1, <1>2 DEF VerdictsPartThere
<1>. QED BY <1>3, RulesTypeCorrect, MapIsStricter, PTL

(* Turning scanners off, requiring fewer of them and enforcing more        *)
(* policies keeps a compliant image compliant.                             *)
THEOREM LooseningIsSafe == RuleSpec => LooseningNeverBlocks
<1>1. ASSUME RuleTypeOK, RuleTypeOK',
             \A s \in Scanners : scanner'[s] \in {scanner[s], "off"},
             required' \subseteq required, enforced \subseteq enforced',
             UNCHANGED <<enabled, result, issues, exceptions>>,
             Compliant(exceptions)
      PROVE  Compliant(exceptions)'
  <2>1. Results' = Results /\ Scanned' = Scanned
    BY <1>1 DEF Results, Scanned
  <2>2. Throws' => Throws
    <3> SUFFICES ASSUME NEW i \in issues, Owner[i.scanner] \in Results,
                        i.scanner \notin ScannersOf(Owner[i.scanner])'
                 PROVE  i.scanner \notin ScannersOf(Owner[i.scanner])
      BY <1>1, <2>1 DEF Throws
    <3>1. i.scanner \in Scanners
      BY <1>1, ComplianceAssumption DEF RuleTypeOK
    <3> QED
      BY <1>1, <3>1 DEF ScannersOf
  <2>3. Failed(exceptions)' \subseteq Failed(exceptions)
    <3> SUFFICES ASSUME NEW i \in Failed(exceptions)'
                 PROVE  i \in Failed(exceptions)
      OBVIOUS
    <3> DEFINE s == i.scanner
    <3>1. i \in issues /\ s \in Scanners
      BY <1>1, ComplianceAssumption DEF Failed, RuleTypeOK
    <3>2. s \in Considered(Owner[s])
      BY <1>1, <3>1 DEF Failed, Considered, ScannersOf, IssuesOf
    <3>3. scanner[s] = "on" /\ Owner[s] \in Results
      BY <1>1, <2>1, <3>1 DEF Failed
    <3>4. /\ i \in Remaining(s, exceptions)
          /\ Cardinality(Group(s, exceptions, i.severity, i.fixable))
               >= Limit[s][i.severity][i.fixable]
      BY <1>1 DEF Failed, Group, Remaining, IssuesOf
    <3> QED
      BY <3>1, <3>2, <3>3, <3>4 DEF Failed
  <2> QED
    BY <1>1, <2>1, <2>2, <2>3 DEF Compliant
<1>2. RuleTypeOK /\ RuleTypeOK' /\ [RuleNext]_ruleVars =>
        [/\ \A s \in Scanners : scanner'[s] \in {scanner[s], "off"}
         /\ required' \subseteq required
         /\ enforced \subseteq enforced'
         /\ UNCHANGED <<enabled, result, issues, exceptions>>
         => (Compliant(exceptions) => Compliant(exceptions)')]_ruleVars
  BY <1>1
<1> QED
  BY <1>2, RulesTypeCorrect, PTL DEF RuleSpec, LooseningNeverBlocks

-----------------------------------------------------------------------------
(* Temporary exceptions *)

(* What an evaluation knows of its own work, beyond the types of its       *)
(* variables: the row it is about to link is stored.                       *)
LinksFit == \A e \in Evaluators : phase[e] = "link" => id[e] \in 1 .. rows

TypeInv == TypeOK /\ LinksFit /\ expired \subseteq 1 .. rows

(* A row is its record: the two ways in which rows change.                 *)
LEMMA RowsType ==
  ASSUME TypeOK
  PROVE  /\ rows \in Nat /\ DOMAIN exception = 1 .. rows
         /\ exception \in [1 .. rows -> ExceptionRows]
         /\ \A r \in 1 .. rows : exception[r] \in ExceptionRows
  BY DEF TypeOK

LEMMA RowReplaced ==
  ASSUME TypeOK, NEW r \in 1 .. rows, NEW row \in ExceptionRows,
         exception' = [exception EXCEPT ![r] = row]
  PROVE  /\ exception' \in Seq(ExceptionRows) /\ Len(exception') = rows
         /\ exception'[r] = row
         /\ \A q \in 1 .. rows : q # r => exception'[q] = exception[q]
  BY RowsType DEF TypeOK

LEMMA RowAppended ==
  ASSUME TypeOK, NEW row \in ExceptionRows, exception' = Append(exception, row)
  PROVE  /\ exception' \in Seq(ExceptionRows) /\ Len(exception') = rows + 1
         /\ exception'[rows + 1] = row
         /\ \A q \in 1 .. rows : exception'[q] = exception[q]
  BY RowsType DEF TypeOK

(* The rows that the actions write, as records of their own.               *)
Linked(r) == [exception[r] EXCEPT !.linked = TRUE]
Deleted(r) == [exception[r] EXCEPT !.deleted = TRUE]
TurnedOff(r) == [exception[r] EXCEPT !.status = "inactive"]
Extended(r, end) == [exception[r] EXCEPT !.end = end, !.status = "active"]
Inserted(e, c) ==
  [scope |-> scope[e], cve |-> c, start |-> day, end |-> day + Grace,
   status |-> "active", temp |-> TRUE, linked |-> FALSE, deleted |-> FALSE]

LEMMA WrittenRows ==
  ASSUME TypeOK, NEW r \in 1 .. rows
  PROVE  /\ Linked(r) \in ExceptionRows /\ Deleted(r) \in ExceptionRows
         /\ TurnedOff(r) \in ExceptionRows
         /\ \A end \in Days : Extended(r, end) \in ExceptionRows
<1>1. exception[r] \in ExceptionRows
  BY RowsType
<1>. QED BY <1>1 DEF  ExceptionRows, Linked, Deleted, TurnedOff, Extended

LEMMA InsertedRow ==
  ASSUME TypeOK, NEW e \in Evaluators, NEW c \in Cves
  PROVE  Inserted(e, c) \in ExceptionRows
<1>1. day \in Days /\ day + Grace \in Days /\ scope[e] \in Scopes
  BY TempAssumption DEF TypeOK, Days
<1>. QED BY <1>1 DEF  ExceptionRows, Inserted

(* How each action changes the rows.                                       *)
LEMMA InsertIs ==
  ASSUME TypeInv, NEW e \in Evaluators, NEW c, InsertException(e, c)
  PROVE  /\ c \in Cves /\ Inserted(e, c) \in ExceptionRows
         /\ exception' = Append(exception, Inserted(e, c))
<1>1. c \in Cves
  BY DEF InsertException, TypeInv, TypeOK
<1>. QED BY <1>1, InsertedRow DEF InsertException, Inserted, TypeInv

LEMMA LinkIs ==
  ASSUME TypeInv, NEW e \in Evaluators, LinkException(e)
  PROVE  /\ id[e] \in 1 .. rows /\ Linked(id[e]) \in ExceptionRows
         /\ exception' = [exception EXCEPT ![id[e]] = Linked(id[e])]
<1>1. id[e] \in 1 .. rows
  BY DEF LinkException, Move, TypeInv, LinksFit
<1>. QED BY <1>1, WrittenRows DEF LinkException, Linked, TypeInv

LEMMA AdminIs ==
  ASSUME TypeInv, NEW r \in 1 .. rows
  PROVE  /\ \A end \in Days : UpdateException(r, end) =>
              /\ Extended(r, end) \in ExceptionRows
              /\ exception' = [exception EXCEPT ![r] = Extended(r, end)]
         /\ DeleteException(r) => /\ Deleted(r) \in ExceptionRows
                                  /\ exception' = [exception EXCEPT ![r] = Deleted(r)]
         /\ SetInactive(r) => /\ TurnedOff(r) \in ExceptionRows
                              /\ exception' = [exception EXCEPT ![r] = TurnedOff(r)]
  BY WrittenRows
     DEF UpdateException, DeleteException, SetInactive, Extended, Deleted, TurnedOff, TypeInv

(* Every variable keeps its type, whatever evaluations, administrators and *)
(* the status job interleave.                                              *)
LEMMA TypeInvariance == Spec => []TypeInv
<1>. USE TempAssumption
<1>1. Init => TypeInv
  <2>. SUFFICES ASSUME Init PROVE TypeInv
    OBVIOUS
  <2>1. exception \in Seq(ExceptionRows) /\ Len(exception) = 0
    BY DEF Init
  <2>. QED BY <2>1 DEF Init, TypeInv, TypeOK, LinksFit, Days
<1>2. TypeInv /\ [Next]_vars => TypeInv'
  <2>. SUFFICES ASSUME TypeInv, [Next]_vars PROVE TypeInv'
    OBVIOUS
  <2>. USE DEF TypeInv, LinksFit, evalVars, jobVars
  <2>1. ASSUME NEW e \in Evaluators, NEW s \in Scopes, NEW cves \in SUBSET Cves,
               Ask(e, s, cves)
        PROVE  TypeInv'
    BY <2>1 DEF Ask, TypeOK
  <2>2. ASSUME NEW e \in Evaluators, ReadExceptions(e) PROVE TypeInv'
    <3>. DEFINE covered == {c \in todo[e] : \E r \in 1 .. rows :
                              InForce(r) /\ Applies(r, scope[e], c)}
    <3>1. covered \subseteq Cves /\ todo[e] \ covered \subseteq Cves
      BY DEF TypeOK
    <3>2. excused' = [excused EXCEPT ![e] = covered]
          /\ todo' = [todo EXCEPT ![e] = todo[e] \ covered]
      BY <2>2 DEF ReadExceptions
    <3>. HIDE DEF covered
    <3>3. day \in Days
      BY DEF TypeOK, Days
    <3>. QED BY <2>2, <3>1, <3>2, <3>3 DEF ReadExceptions, Move, TypeOK
  <2>3. ASSUME NEW e \in Evaluators, NEW c \in Cves, CheckIssue(e, c) PROVE TypeInv'
    <3>1. /\ todo' \in [Evaluators -> SUBSET Cves] /\ denied' \in [Evaluators -> SUBSET Cves]
          /\ create' \in [Evaluators -> SUBSET Cves]
          /\ excused' \in [Evaluators -> SUBSET Cves]
      <4>1. /\ todo \in [Evaluators -> SUBSET Cves] /\ denied \in [Evaluators -> SUBSET Cves]
            /\ create \in [Evaluators -> SUBSET Cves]
            /\ excused \in [Evaluators -> SUBSET Cves]
        BY DEF TypeOK
      <4>2. CASE TempExceptionCreated(scope[e], c) \/ Grace = 0
        BY <2>3, <4>1, <4>2 DEF CheckIssue
      <4>3. CASE ~(TempExceptionCreated(scope[e], c) \/ Grace = 0)
        BY <2>3, <4>1, <4>3 DEF CheckIssue
      <4>. QED BY <4>2, <4>3
    <3>. QED BY <2>3, <3>1 DEF CheckIssue, TypeOK
  <2>4. ASSUME NEW e \in Evaluators, Checked(e) PROVE TypeInv'
    BY <2>4 DEF Checked, Move, TypeOK
  <2>5. ASSUME NEW e \in Evaluators, NEW c \in Cves, InsertException(e, c) PROVE TypeInv'
    <3>1. exception' \in Seq(ExceptionRows) /\ Len(exception') = rows + 1
      BY <2>5, InsertIs, RowAppended
    <3>2. rows' = rows + 1 /\ rows + 1 \in 1 .. MaxRows
      BY <2>5 DEF InsertException, TypeOK
    <3>. QED BY <2>5, <3>1, <3>2 DEF InsertException, Move, TypeOK
  <2>6. ASSUME NEW e \in Evaluators, LinkException(e) PROVE TypeInv'
    <3>1. exception' \in Seq(ExceptionRows) /\ Len(exception') = rows
      BY <2>6, LinkIs, RowReplaced
    <3>. QED BY <2>6, <3>1 DEF LinkException, Move, TypeOK
  <2>7. ASSUME NEW e \in Evaluators, EvaluationFails(e) PROVE TypeInv'
    BY <2>7 DEF EvaluationFails, TypeOK
  <2>8. ASSUME NEW r \in 1 .. rows, NEW end \in Days, UpdateException(r, end)
        PROVE  TypeInv'
    <3>1. exception' \in Seq(ExceptionRows) /\ Len(exception') = rows
      BY <2>8, AdminIs, RowReplaced
    <3>. QED BY <2>8, <3>1 DEF UpdateException, TypeOK
  <2>9. ASSUME NEW r \in 1 .. rows, DeleteException(r) PROVE TypeInv'
    <3>1. exception' \in Seq(ExceptionRows) /\ Len(exception') = rows
      BY <2>9, AdminIs, RowReplaced
    <3>. QED BY <2>9, <3>1 DEF DeleteException, TypeOK
  <2>10. ASSUME NEW r \in 1 .. rows, SetInactive(r) PROVE TypeInv'
    <3>1. exception' \in Seq(ExceptionRows) /\ Len(exception') = rows
      BY <2>10, AdminIs, RowReplaced
    <3>. QED BY <2>10, <3>1 DEF SetInactive, TypeOK
  <2>11. CASE SelectExpired
    BY <2>11 DEF SelectExpired, Stored, Ids, TypeOK
  <2>12. CASE NextDay
    BY <2>12 DEF NextDay, TypeOK
  <2>13. CASE UNCHANGED vars
    BY <2>13 DEF vars, TypeOK
  <2>. QED BY <2>1, <2>2, <2>3, <2>4, <2>5, <2>6, <2>7, <2>8, <2>9, <2>10, <2>11,
              <2>12, <2>13 DEF Next, Evaluate
<1>. QED BY <1>1, <1>2, PTL DEF Spec

(* Every variable keeps its type, for any issues, scopes and evaluators.   *)
THEOREM TypeCorrect == Spec => []TypeOK
<1>1. TypeInv => TypeOK
  BY DEF TypeInv
<1>. QED BY <1>1, TypeInvariance, PTL

-----------------------------------------------------------------------------
(* What no step takes from a row: its issue, its namespace, its first day  *)
(* and its links; its end moves only into the future.                      *)
Kept(q) ==
  /\ exception'[q].cve = exception[q].cve
  /\ exception'[q].scope = exception[q].scope
  /\ exception'[q].start = exception[q].start
  /\ exception[q].linked => exception'[q].linked
  /\ exception[q].deleted => exception'[q].deleted
  /\ exception'[q].end = exception[q].end \/ exception'[q].end > day

(* What an evaluation has of its own; only its own steps change that.      *)
Same(e) ==
  /\ phase'[e] = phase[e] /\ scope'[e] = scope[e] /\ asked'[e] = asked[e]
  /\ create'[e] = create[e] /\ excused'[e] = excused[e] /\ id'[e] = id[e]

Acts(e) ==
  \/ \E s \in Scopes, cves \in SUBSET Cves : Ask(e, s, cves)
  \/ Evaluate(e)
  \/ EvaluationFails(e)

OthersAct ==
  \/ \E r \in 1 .. rows : \/ \E end \in Days : UpdateException(r, end)
                          \/ DeleteException(r) \/ SetInactive(r)
  \/ SelectExpired \/ NextDay \/ UNCHANGED vars

LEMMA Steps ==
  ASSUME TypeInv, [Next]_vars
  PROVE  OthersAct \/ \E e \in Evaluators : Acts(e)
  BY DEF Next, OthersAct, Acts

LEMMA OnlyActorChanges ==
  ASSUME TypeInv
  PROVE  /\ OthersAct => \A f \in Evaluators : Same(f)
         /\ \A e \in Evaluators : Acts(e) => \A f \in Evaluators \ {e} : Same(f)
<1>. USE DEF TypeInv, Same, evalVars
<1>1. OthersAct => \A f \in Evaluators : Same(f)
  BY DEF OthersAct, UpdateException, DeleteException, SetInactive, SelectExpired, NextDay, vars
<1>2. ASSUME NEW e \in Evaluators, Acts(e), NEW f \in Evaluators, f # e
      PROVE  Same(f)
  <2>1. CASE \E s \in Scopes, cves \in SUBSET Cves : Ask(e, s, cves)
    BY <1>2, <2>1 DEF Ask, TypeOK
  <2>2. CASE ReadExceptions(e) \/ Checked(e) \/ LinkException(e)
    BY <1>2, <2>2 DEF ReadExceptions, Checked, LinkException, Move, TypeOK
  <2>3. CASE \E c \in Cves : CheckIssue(e, c) \/ InsertException(e, c)
    BY <1>2, <2>3 DEF CheckIssue, InsertException, Move, TypeOK
  <2>4. CASE EvaluationFails(e)
    BY <1>2, <2>4 DEF EvaluationFails, TypeOK
  <2>. QED BY <1>2, <2>1, <2>2, <2>3, <2>4 DEF Acts, Evaluate
<1>. QED BY <1>1, <1>2

LEMMA ReplacedKept ==
  ASSUME TypeInv, NEW r \in 1 .. rows, NEW row \in ExceptionRows,
         exception' = [exception EXCEPT ![r] = row],
         row.cve = exception[r].cve, row.scope = exception[r].scope,
         row.start = exception[r].start,
         exception[r].linked => row.linked, exception[r].deleted => row.deleted,
         row.end = exception[r].end \/ row.end > day
  PROVE  \A q \in 1 .. rows : Kept(q)
  BY RowReplaced DEF Kept, TypeInv

LEMMA RowsKept ==
  ASSUME TypeInv, [Next]_vars
  PROVE  /\ rows' >= rows /\ day' >= day
         /\ \A q \in 1 .. rows : Kept(q)
<1>. USE DEF TypeInv, evalVars
<1>0. \A q \in 1 .. rows : exception[q] \in ExceptionRows
  BY RowsType
<1>1. ASSUME NEW e \in Evaluators, NEW c, InsertException(e, c)
      PROVE  rows' = rows + 1 /\ \A q \in 1 .. rows : Kept(q)
  BY <1>1, InsertIs, RowAppended DEF Kept, InsertException
<1>2. ASSUME NEW e \in Evaluators, LinkException(e)
      PROVE  \A q \in 1 .. rows : Kept(q)
  <2>1. id[e] \in 1 .. rows
    BY <1>2, LinkIs
  <2>2. /\ Linked(id[e]).cve = exception[id[e]].cve
        /\ Linked(id[e]).scope = exception[id[e]].scope
        /\ Linked(id[e]).start = exception[id[e]].start
        /\ Linked(id[e]).end = exception[id[e]].end
        /\ Linked(id[e]).deleted = exception[id[e]].deleted
        /\ Linked(id[e]).linked
    BY <1>0, <2>1 DEF Linked, ExceptionRows
  <2>. QED BY <1>2, <2>1, <2>2, LinkIs, ReplacedKept
<1>3. ASSUME NEW r \in 1 .. rows, NEW end \in Days, UpdateException(r, end)
      PROVE  \A q \in 1 .. rows : Kept(q)
  <2>1. end > day
    BY <1>3 DEF UpdateException, TypeOK
  <2>2. /\ Extended(r, end).cve = exception[r].cve
        /\ Extended(r, end).scope = exception[r].scope
        /\ Extended(r, end).start = exception[r].start
        /\ Extended(r, end).linked = exception[r].linked
        /\ Extended(r, end).deleted = exception[r].deleted
        /\ Extended(r, end).end = end
    BY <1>0 DEF Extended, ExceptionRows
  <2>. QED BY <1>3, <2>1, <2>2, AdminIs, ReplacedKept
<1>4. ASSUME NEW r \in 1 .. rows, DeleteException(r)
      PROVE  \A q \in 1 .. rows : Kept(q)
  <2>1. /\ Deleted(r).cve = exception[r].cve /\ Deleted(r).scope = exception[r].scope
        /\ Deleted(r).start = exception[r].start /\ Deleted(r).end = exception[r].end
        /\ Deleted(r).linked = exception[r].linked /\ Deleted(r).deleted
    BY <1>0 DEF Deleted, ExceptionRows
  <2>. QED BY <1>4, <2>1, AdminIs, ReplacedKept
<1>5. ASSUME NEW r \in 1 .. rows, SetInactive(r)
      PROVE  \A q \in 1 .. rows : Kept(q)
  <2>1. /\ TurnedOff(r).cve = exception[r].cve /\ TurnedOff(r).scope = exception[r].scope
        /\ TurnedOff(r).start = exception[r].start /\ TurnedOff(r).end = exception[r].end
        /\ TurnedOff(r).linked = exception[r].linked
        /\ TurnedOff(r).deleted = exception[r].deleted
    BY <1>0 DEF TurnedOff, ExceptionRows
  <2>. QED BY <1>5, <2>1, AdminIs, ReplacedKept
<1>6. UNCHANGED exception => \A q \in 1 .. rows : Kept(q)
  BY DEF Kept
<1>7. rows' >= rows /\ day' >= day
  <2>1. rows' \in {rows, rows + 1} /\ day' \in {day, day + 1}
    BY DEF Next, vars, Evaluate, Ask, ReadExceptions, CheckIssue, Checked, InsertException,
           LinkException, EvaluationFails, UpdateException, DeleteException, SetInactive,
           SelectExpired, NextDay
  <2>2. rows \in Nat /\ day \in Nat
    BY TempAssumption DEF TypeOK
  <2>. QED BY <2>1, <2>2
<1>8. \/ UNCHANGED exception
      \/ \E e \in Evaluators : LinkException(e) \/ \E c \in Cves : InsertException(e, c)
      \/ \E r \in 1 .. rows : \/ \E end \in Days : UpdateException(r, end)
                              \/ DeleteException(r) \/ SetInactive(r)
  BY DEF Next, vars, Evaluate, Ask, ReadExceptions, CheckIssue, Checked,
         EvaluationFails, SelectExpired, NextDay
<1>. QED BY <1>1, <1>2, <1>3, <1>4, <1>5, <1>6, <1>7, <1>8

-----------------------------------------------------------------------------
(* An excuse of an evaluation is one of three things: still to be stored,  *)
(* stored but not yet linked, or backed by a row that outlives its day.    *)
Outlives(e, c, r) ==
  /\ exception[r].cve = c /\ exception[r].scope \in {scope[e], Everywhere}
  /\ exception[r].end > asked[e]
Backed(e, c) == \E r \in 1 .. rows : exception[r].linked /\ Outlives(e, c, r)
HalfStored(e, c) == phase[e] = "link" /\ Outlives(e, c, id[e])

ExcuseOf(e) ==
  /\ asked[e] <= day
  /\ create[e] # {} => Grace > 0
  /\ phase[e] \in {"read", "answered"} => create[e] = {}
  /\ phase[e] \in {"check", "insert", "link", "answered"} =>
       \A c \in excused[e] : c \in create[e] \/ HalfStored(e, c) \/ Backed(e, c)

LEMMA OutlivesLasts ==
  ASSUME TypeInv, TypeInv', [Next]_vars, NEW e \in Evaluators, asked[e] <= day,
         scope'[e] = scope[e], asked'[e] = asked[e], NEW c
  PROVE  /\ \A r \in 1 .. rows : Outlives(e, c, r) => Outlives(e, c, r)'
         /\ Backed(e, c) => Backed(e, c)'
<1>1. /\ rows \in Nat /\ rows' \in Nat /\ rows' >= rows
      /\ \A r \in 1 .. rows' : exception'[r].end \in Nat
      /\ asked[e] \in Nat /\ day \in Nat
  <2>1. rows' \in Nat /\ \A r \in 1 .. rows' : exception'[r].end \in Nat
    <3>1. rows' \in Nat /\ Len(exception') = rows' /\ exception' \in Seq(ExceptionRows)
      BY DEF TypeInv, TypeOK
    <3>2. \A r \in 1 .. rows' : exception'[r] \in ExceptionRows
      BY <3>1
    <3>. QED BY <3>1, <3>2, TempAssumption DEF  ExceptionRows, Days
  <2>2. rows \in Nat /\ asked[e] \in Nat /\ day \in Nat
    BY TempAssumption DEF TypeInv, TypeOK, Days
  <2>. QED BY <2>1, <2>2, RowsKept
<1>2. \A r \in 1 .. rows : r \in 1 .. rows' /\ (exception[r].linked => exception'[r].linked)
  BY <1>1, RowsKept DEF Kept
<1>3. ASSUME NEW r \in 1 .. rows, Outlives(e, c, r) PROVE Outlives(e, c, r)'
  <2>1. Kept(r) /\ exception'[r].end \in Nat
    BY <1>1, RowsKept
  <2>. QED BY <1>1, <1>3, <2>1 DEF Kept, Outlives
<1>. QED BY <1>2, <1>3 DEF Backed

ExcuseInv == \A e \in Evaluators : ExcuseOf(e)

LEMMA ExcuseInvariance == Spec => []ExcuseInv
<1>. DEFINE Inv == ExcuseInv
<1>. USE DEF ExcuseInv
<1>1. Init => Inv
  BY DEF Init, ExcuseOf
<1>2. TypeInv /\ TypeInv' /\ Inv /\ [Next]_vars => Inv'
  <2>. SUFFICES ASSUME TypeInv, TypeInv', Inv, [Next]_vars, NEW f \in Evaluators
                PROVE  ExcuseOf(f)'
    OBVIOUS
  <2>0. /\ day \in Nat /\ day' \in Nat /\ day' >= day /\ asked[f] \in Nat /\ Grace \in Nat
        /\ \A g \in Evaluators : ExcuseOf(g)
        /\ phase[f] = "link" => id[f] \in 1 .. rows
    <3>1. day' >= day
      BY RowsKept
    <3>2. day \in Nat /\ asked[f] \in Nat /\ Grace \in Nat
      BY TempAssumption DEF TypeInv, TypeOK, Days
    <3>3. day' \in Nat
      BY TempAssumption DEF TypeInv, TypeOK, Days
    <3>4. phase[f] = "link" => id[f] \in 1 .. rows
      BY DEF TypeInv, LinksFit
    <3>. QED BY <3>1, <3>2, <3>3, <3>4
  <2>1. ASSUME Same(f) PROVE ExcuseOf(f)'
    <3>1. ASSUME NEW c
          PROVE  (HalfStored(f, c) => HalfStored(f, c)') /\ (Backed(f, c) => Backed(f, c)')
      <4>0. asked[f] <= day /\ scope'[f] = scope[f] /\ asked'[f] = asked[f]
        BY <2>0, <2>1 DEF Same, ExcuseOf
      <4>1. /\ \A r \in 1 .. rows : Outlives(f, c, r) => Outlives(f, c, r)'
            /\ Backed(f, c) => Backed(f, c)'
        BY <4>0, OutlivesLasts
      <4>2. HalfStored(f, c) => phase'[f] = "link" /\ id'[f] = id[f] /\ id[f] \in 1 .. rows
        BY <2>0, <2>1 DEF Same, HalfStored
      <4>. QED BY <4>1, <4>2 DEF HalfStored, Outlives
    <3>. QED BY <2>0, <2>1, <3>1 DEF Same, ExcuseOf
  <2>2. ASSUME NEW s \in Scopes, NEW cves \in SUBSET Cves, Ask(f, s, cves)
        PROVE  ExcuseOf(f)'
    BY <2>0, <2>2 DEF Ask, ExcuseOf, TypeInv, TypeOK
  <2>3. ASSUME ReadExceptions(f) PROVE ExcuseOf(f)'
    <3>1. ASSUME NEW c \in excused'[f] PROVE Backed(f, c)'
      <4>1. PICK r \in 1 .. rows : InForce(r) /\ Applies(r, scope[f], c)
        BY <2>3, <3>1 DEF ReadExceptions, TypeInv, TypeOK
      <4>. QED BY <2>3, <4>1
           DEF ReadExceptions, InForce, Applies, Backed, Outlives, TypeInv, TypeOK
    <3>2. asked'[f] = day /\ day' = day /\ create'[f] = create[f] /\ phase'[f] = "check"
          /\ phase[f] = "read"
      BY <2>3 DEF ReadExceptions, Move, TypeInv, TypeOK
    <3>. QED BY <2>0, <3>1, <3>2 DEF ExcuseOf
  <2>4. ASSUME NEW c \in Cves, CheckIssue(f, c) PROVE ExcuseOf(f)'
    <3>1. /\ phase'[f] = phase[f] /\ scope'[f] = scope[f] /\ asked'[f] = asked[f]
          /\ phase[f] = "check" /\ day' = day
      BY <2>4 DEF CheckIssue
    <3>2. \A d : Backed(f, d) => Backed(f, d)'
      BY <2>0, <3>1, OutlivesLasts DEF ExcuseOf
    <3>3. \/ create'[f] = create[f] /\ excused'[f] = excused[f]
          \/ /\ create'[f] = create[f] \cup {c} /\ excused'[f] = excused[f] \cup {c}
             /\ Grace # 0
      BY <2>4 DEF CheckIssue, TypeInv, TypeOK
    <3>. QED BY <2>0, <3>1, <3>2, <3>3 DEF ExcuseOf, HalfStored
  <2>5. ASSUME Checked(f) PROVE ExcuseOf(f)'
    <3>1. /\ scope'[f] = scope[f] /\ asked'[f] = asked[f] /\ create'[f] = create[f]
          /\ excused'[f] = excused[f] /\ phase[f] = "check" /\ day' = day
          /\ phase'[f] = IF create[f] = {} THEN "answered" ELSE "insert"
      BY <2>5 DEF Checked, Move, TypeInv, TypeOK
    <3>2. \A d : Backed(f, d) => Backed(f, d)'
      BY <2>0, <3>1, OutlivesLasts DEF ExcuseOf
    <3>. QED BY <2>0, <3>1, <3>2 DEF ExcuseOf, HalfStored
  <2>6. ASSUME NEW c \in Cves, InsertException(f, c) PROVE ExcuseOf(f)'
    <3>1. /\ scope'[f] = scope[f] /\ asked'[f] = asked[f] /\ create'[f] = create[f] \ {c}
          /\ excused'[f] = excused[f] /\ phase[f] = "insert" /\ phase'[f] = "link"
          /\ id'[f] = rows + 1 /\ day' = day /\ c \in create[f]
      BY <2>6 DEF InsertException, Move, TypeInv, TypeOK
    <3>2. \A d : Backed(f, d) => Backed(f, d)'
      BY <2>0, <3>1, OutlivesLasts DEF ExcuseOf
    <3>3. exception'[rows + 1] = Inserted(f, c)
      BY <2>6, InsertIs, RowAppended DEF TypeInv
    <3>4. HalfStored(f, c)'
      BY <2>0, <3>1, <3>3 DEF HalfStored, Outlives, Inserted, ExcuseOf
    <3>. QED BY <2>0, <3>1, <3>2, <3>4 DEF ExcuseOf, HalfStored
  <2>7. ASSUME LinkException(f) PROVE ExcuseOf(f)'
    <3>1. /\ scope'[f] = scope[f] /\ asked'[f] = asked[f] /\ create'[f] = create[f]
          /\ excused'[f] = excused[f] /\ phase[f] = "link" /\ day' = day /\ id'[f] = id[f]
          /\ phase'[f] = IF create[f] = {} THEN "answered" ELSE "insert"
          /\ rows' = rows
      BY <2>7 DEF LinkException, Move, TypeInv, TypeOK
    <3>2. \A d : Backed(f, d) => Backed(f, d)'
      BY <2>0, <3>1, OutlivesLasts DEF ExcuseOf
    <3>3. exception'[id[f]].linked /\ id[f] \in 1 .. rows
      <4>1. Linked(id[f]).linked
        BY <2>7, LinkIs, RowsType DEF Linked, ExceptionRows, TypeInv
      <4>. QED BY <2>7, <4>1, LinkIs, RowReplaced DEF TypeInv
    <3>4. \A d : HalfStored(f, d) => Backed(f, d)'
      BY <2>0, <3>1, <3>3, OutlivesLasts DEF HalfStored, Backed, ExcuseOf
    <3>. QED BY <2>0, <3>1, <3>2, <3>4 DEF ExcuseOf
  <2>8. ASSUME EvaluationFails(f) PROVE ExcuseOf(f)'
    BY <2>0, <2>8 DEF EvaluationFails, ExcuseOf, TypeInv, TypeOK
  <2>. QED BY <2>1, <2>2, <2>3, <2>4, <2>5, <2>6, <2>7, <2>8, Steps, OnlyActorChanges
       DEF Acts, Evaluate
<1>. HIDE DEF ExcuseInv
<1>. QED BY <1>1, <1>2, TypeInvariance, PTL DEF Spec

(* An answer that excuses an issue rests on an exception that is stored,   *)
(* linked and outlives the day on which the evaluation read, however many  *)
(* evaluations, administrators and status jobs interleave.                 *)
THEOREM ExcusesAreStored == Spec => []ExcusedIsStored
<1>1. ExcuseInv => ExcusedIsStored
  BY DEF ExcuseInv, ExcuseOf, ExcusedIsStored, HalfStored, Backed, Outlives, Applies
<1>. QED BY <1>1, ExcuseInvariance, PTL

(* The status job turns off no exception before its end, unless that was   *)
(* moved after the job selected it.                                        *)
THEOREM OnlyExpiredAreTurnedOff == Spec => OnlyExpiredGoInactive
<1>. DEFINE Inv == \A r \in expired : exception[r].end <= day \/ r \in moved
<1>1. Init => Inv
  BY DEF Init
<1>2. TypeInv /\ TypeInv' /\ Inv /\ [Next]_vars => Inv'
  <2>. SUFFICES ASSUME TypeInv, TypeInv', Inv, [Next]_vars, NEW r \in expired'
                PROVE  (exception[r].end <= day \/ r \in moved)'
    OBVIOUS
  <2>0. day \in Nat /\ day' \in Nat /\ day' >= day
    BY RowsKept, TempAssumption DEF TypeInv, TypeOK
  <2>1. CASE SelectExpired
    BY <2>1 DEF SelectExpired, Stored
  <2>2. ASSUME r \in expired, exception'[r].end = exception[r].end,
               r \in moved => r \in moved'
        PROVE  (exception[r].end <= day \/ r \in moved)'
    <3>1. exception[r].end \in Nat
      BY <2>2, RowsType DEF TypeInv, ExceptionRows, Days
    <3>. QED BY <2>0, <2>2, <3>1
  <2>3. ASSUME NEW q \in 1 .. rows, NEW end \in Days, UpdateException(q, end)
        PROVE  (exception[r].end <= day \/ r \in moved)'
    <3>1. CASE r = q
      BY <2>3, <3>1 DEF UpdateException
    <3>2. CASE r # q
      BY <2>2, <2>3, <3>2, AdminIs, RowReplaced DEF UpdateException, TypeInv
    <3>. QED BY <3>1, <3>2
  <2>4. ASSUME NEW q \in 1 .. rows, DeleteException(q) \/ SetInactive(q)
        PROVE  (exception[r].end <= day \/ r \in moved)'
    <3>1. /\ r \in expired /\ (r \in moved => r \in moved')
      BY <2>4 DEF DeleteException, SetInactive, jobVars
    <3>2. exception'[r].end = exception[r].end
      BY <2>4, <3>1, RowsType DEF DeleteException, SetInactive, TypeInv, ExceptionRows
    <3>. QED BY <2>2, <3>1, <3>2
  <2>5. ASSUME UNCHANGED jobVars, \E e \in Evaluators : Acts(e)
        PROVE  (exception[r].end <= day \/ r \in moved)'
    <3>1. r \in 1 .. rows /\ r \in expired
      BY <2>5 DEF jobVars, TypeInv
    <3>2. \/ UNCHANGED exception
          \/ \E e \in Evaluators : LinkException(e) \/ \E c \in Cves : InsertException(e, c)
      BY <2>5 DEF Acts, Evaluate, Ask, ReadExceptions, CheckIssue, Checked, EvaluationFails
    <3>3. ASSUME NEW e \in Evaluators, LinkException(e)
          PROVE  exception'[r].end = exception[r].end
      BY <3>1, <3>3, RowsType, LinkIs DEF LinkException, TypeInv, ExceptionRows, Linked
    <3>4. ASSUME NEW e \in Evaluators, NEW c \in Cves, InsertException(e, c)
          PROVE  exception'[r].end = exception[r].end
      BY <3>1, <3>4, InsertIs, RowAppended DEF TypeInv
    <3>. QED BY <2>2, <2>5, <3>1, <3>2, <3>3, <3>4 DEF jobVars
  <2>6. CASE NextDay \/ UNCHANGED vars
    BY <2>2, <2>6 DEF NextDay, vars, jobVars
  <2>7. (\E e \in Evaluators : Acts(e)) => UNCHANGED jobVars
    BY DEF Acts, Evaluate, Ask, ReadExceptions, CheckIssue, Checked, InsertException,
           LinkException, EvaluationFails
  <2>. QED BY <2>1, <2>3, <2>4, <2>5, <2>6, <2>7, Steps DEF OthersAct
<1>3. TypeInv /\ Inv /\ [Next]_vars =>
        [\A r \in 1 .. rows :
           exception[r].status = "active" /\ exception'[r].status = "inactive"
             => exception[r].end <= day \/ r \in moved]_vars
  <2>. SUFFICES ASSUME TypeInv, Inv, [Next]_vars, NEW r \in 1 .. rows,
                       exception[r].status = "active", exception'[r].status = "inactive"
                PROVE  exception[r].end <= day \/ r \in moved
    OBVIOUS
  <2>0. exception[r] \in ExceptionRows
    BY RowsType DEF TypeInv
  <2>1. ASSUME NEW q \in 1 .. rows, SetInactive(q)
        PROVE  exception[r].end <= day \/ r \in moved
    <3>1. CASE r = q
      BY <2>1, <3>1 DEF SetInactive
    <3>2. CASE r # q
      BY <2>1, <3>2, AdminIs, RowReplaced DEF TypeInv
    <3>. QED BY <3>1, <3>2
  <2>2. ASSUME NEW q \in 1 .. rows, NEW end \in Days, UpdateException(q, end) \/ DeleteException(q)
        PROVE  exception'[r].status = "active"
    <3>1. \/ exception' = [exception EXCEPT ![q] = Extended(q, end)]
          \/ exception' = [exception EXCEPT ![q] = Deleted(q)]
      BY <2>2 DEF UpdateException, DeleteException, Extended, Deleted
    <3>2. Extended(r, end).status = "active" /\ Deleted(r).status = "active"
      BY <2>0 DEF Extended, Deleted, ExceptionRows
    <3>3. exception \in [1 .. rows -> ExceptionRows]
      BY RowsType DEF TypeInv
    <3>. QED BY <3>1, <3>2, <3>3
  <2>3. ASSUME NEW e \in Evaluators, LinkException(e) PROVE exception'[r].status = "active"
    BY <2>0, <2>3, RowsType, LinkIs DEF LinkException, TypeInv, ExceptionRows
  <2>4. ASSUME NEW e \in Evaluators, NEW c \in Cves, InsertException(e, c)
        PROVE  exception'[r].status = "active"
    BY <2>4, InsertIs, RowAppended DEF TypeInv
  <2>5. \/ UNCHANGED exception
        \/ \E e \in Evaluators : LinkException(e) \/ \E c \in Cves : InsertException(e, c)
        \/ \E q \in 1 .. rows : \/ \E end \in Days : UpdateException(q, end)
                                \/ DeleteException(q) \/ SetInactive(q)
    BY DEF Next, vars, Evaluate, Ask, ReadExceptions, CheckIssue, Checked,
           EvaluationFails, SelectExpired, NextDay
  <2>6. 0 \in Days
    BY TempAssumption DEF Days
  <2>. QED BY <2>1, <2>2, <2>3, <2>4, <2>5, <2>6
<1>. HIDE DEF Inv
<1>. QED BY <1>1, <1>2, <1>3, TypeInvariance, PTL DEF Spec, OnlyExpiredGoInactive

-----------------------------------------------------------------------------
(* Evaluations that overlap meet where they may still create an exception  *)
(* for one issue, in one scope or in scopes of which one covers the other. *)
Covers(q, s, c) == q \in Stored /\ Applies(q, s, c)
Creating(e) == phase[e] \in {"check", "insert", "link"}
Answers(e) == Creating(e) \/ phase[e] = "answered"
Pending(e) == IF phase[e] = "link" THEN {exception[id[e]].cve} ELSE {}
Wants(e) == todo[e] \cup create[e] \cup Pending(e)
Related(s, t) == s = t \/ Everywhere \in {s, t}

NoRace ==
  \A e, f \in Evaluators :
    e # f /\ Creating(e) /\ Creating(f) /\ Related(scope[e], scope[f])
      => Wants(e) \cap Wants(f) = {}

(* What an evaluation is about to create is covered by no stored row, the  *)
(* row it has inserted came after all that it would cover, and what it has *)
(* excused in its own scope outlives its day: now, and when a row that is  *)
(* not yet linked will be.                                                 *)
OfItsOwn(e, c) ==
  \A r \in 1 .. rows : Applies(r, scope[e], c) => exception[r].scope = scope[e]

NotCovered(e) ==
  Creating(e) => \A c \in create[e] \cup Pending(e), q \in 1 .. rows :
                   ~Covers(q, scope[e], c)
PendingFits(e) ==
  phase[e] = "link" => /\ exception[id[e]].scope = scope[e]
                       /\ exception[id[e]].cve \notin create[e]
PendingIsLast(e) ==
  phase[e] = "link" =>
    \A r \in 1 .. rows : r > id[e] /\ exception[r].cve = exception[id[e]].cve =>
      scope[e] \notin {exception[r].scope, Everywhere}
ExcuseLasts(e) ==
  Answers(e) => \A c \in excused[e] : OfItsOwn(e, c) =>
    \A r \in 1 .. rows : Covers(r, scope[e], c) => exception[r].end > asked[e]
PendingLasts(e) ==
  Answers(e) => \A f \in Evaluators :
    phase[f] = "link" /\ scope[f] = scope[e] /\ exception[id[f]].cve \in excused[e]
      => exception[id[f]].end > asked[e]

GraceOf(e) ==
  NotCovered(e) /\ PendingFits(e) /\ PendingIsLast(e) /\ ExcuseLasts(e) /\ PendingLasts(e)

GraceInv ==
  /\ GraceOnce
  /\ \A r \in 1 .. rows : exception[r].temp
  /\ \A e \in Evaluators : GraceOf(e)

(* Steps that link no row and bring none back.                             *)
Quiet ==
  /\ rows' = rows
  /\ \A q \in 1 .. rows : /\ exception'[q].linked = exception[q].linked
                          /\ exception'[q].temp = exception[q].temp

LEMMA OthersAreQuiet ==
  ASSUME TypeInv, OthersAct
  PROVE  Quiet
<1>. USE DEF TypeInv, Quiet
<1>0. \A q \in 1 .. rows : exception[q] \in ExceptionRows
  BY RowsType
<1>1. ASSUME NEW r \in 1 .. rows, NEW end \in Days, UpdateException(r, end) PROVE Quiet
  <2>1. Extended(r, end).linked = exception[r].linked
        /\ Extended(r, end).temp = exception[r].temp
    BY <1>0 DEF Extended, ExceptionRows
  <2>2. /\ Extended(r, end) \in ExceptionRows
        /\ exception' = [exception EXCEPT ![r] = Extended(r, end)]
    BY <1>1, AdminIs
  <2>3. \A q \in 1 .. rows : /\ exception'[q].linked = exception[q].linked
                             /\ exception'[q].temp = exception[q].temp
    BY <2>1, <2>2, RowReplaced
  <2>. QED BY <1>1, <2>3 DEF UpdateException
<1>2. ASSUME NEW r \in 1 .. rows, DeleteException(r) PROVE Quiet
  <2>1. Deleted(r).linked = exception[r].linked /\ Deleted(r).temp = exception[r].temp
    BY <1>0 DEF Deleted, ExceptionRows
  <2>. QED BY <1>2, <2>1, AdminIs, RowReplaced DEF DeleteException
<1>3. ASSUME NEW r \in 1 .. rows, SetInactive(r) PROVE Quiet
  <2>1. TurnedOff(r).linked = exception[r].linked /\ TurnedOff(r).temp = exception[r].temp
    BY <1>0 DEF TurnedOff, ExceptionRows
  <2>. QED BY <1>3, <2>1, AdminIs, RowReplaced DEF SetInactive
<1>4. CASE SelectExpired \/ NextDay \/ UNCHANGED vars
  BY <1>4 DEF SelectExpired, NextDay, vars
<1>. QED BY <1>1, <1>2, <1>3, <1>4 DEF OthersAct

(* After a quiet step a row covers only what it has covered before.        *)
LEMMA QuietCovers ==
  ASSUME TypeInv, [Next]_vars, Quiet, NEW q \in 1 .. rows, NEW s, NEW c
  PROVE  /\ Covers(q, s, c)' => Covers(q, s, c)
         /\ Applies(q, s, c)' <=> Applies(q, s, c)
  BY RowsKept DEF Quiet, Kept, Covers, Stored, Applies

LEMMA QuietKeepsGraceOnce ==
  ASSUME TypeInv, [Next]_vars, Quiet, GraceOnce, \A r \in 1 .. rows : exception[r].temp
  PROVE  GraceOnce' /\ (\A r \in 1 .. rows : exception[r].temp)'
<1>1. rows \in Nat
  BY RowsType DEF TypeInv
<1>2. ASSUME NEW r \in 1 .. rows, NEW q \in 1 .. (r - 1), (q \in Stored)',
             Applies(q, exception[r].scope, exception[r].cve)'
      PROVE  FALSE
  <2>1. q \in 1 .. rows /\ Kept(r)
    BY <1>1, RowsKept
  <2>2. Covers(q, exception[r].scope, exception[r].cve)
    BY <1>2, <2>1, RowsKept DEF Kept, Quiet, Covers, Stored, Applies
  <2>. QED BY <1>2, <2>2 DEF Covers, GraceOnce
<1>. QED BY <1>2 DEF Quiet, GraceOnce

(* A step keeps what holds of an evaluation that does not take it, if it   *)
(* is quiet and nobody inserts.                                            *)
LEMMA QuietKeepsGraceOf ==
  ASSUME TypeInv, TypeInv', [Next]_vars, Quiet, NEW e \in Evaluators, Same(e),
         asked[e] <= day, GraceOf(e),
         \A f \in Evaluators : phase'[f] = "link" => Same(f)
  PROVE  GraceOf(e)'
<1>1. /\ rows \in Nat /\ asked[e] \in Nat /\ day \in Nat
      /\ \A r \in 1 .. rows : exception[r].end \in Nat /\ exception'[r].end \in Nat
      /\ \A f \in Evaluators : phase[f] = "link" => id[f] \in 1 .. rows
  <2>1. rows \in Nat /\ asked[e] \in Nat /\ day \in Nat
    BY RowsType, TempAssumption DEF TypeInv, TypeOK, Days
  <2>2. exception' \in Seq(ExceptionRows) /\ Len(exception') = rows
    BY DEF TypeInv, TypeOK, Quiet
  <2>3. \A r \in 1 .. rows : exception[r] \in ExceptionRows /\ exception'[r] \in ExceptionRows
    BY <2>1, <2>2, RowsType DEF TypeInv
  <2>4. \A r \in 1 .. rows : exception[r].end \in Nat /\ exception'[r].end \in Nat
    BY <2>3, TempAssumption DEF ExceptionRows, Days
  <2>. QED BY <2>1, <2>4 DEF TypeInv, LinksFit
<1>2. \A r \in 1 .. rows : exception[r].end > asked[e] => exception'[r].end > asked[e]
  BY <1>1, RowsKept DEF Kept
<1>3. ASSUME NEW f \in Evaluators, phase'[f] = "link"
      PROVE  /\ phase[f] = "link" /\ scope'[f] = scope[f] /\ create'[f] = create[f]
             /\ id'[f] = id[f] /\ id[f] \in 1 .. rows
             /\ exception'[id[f]].cve = exception[id[f]].cve
             /\ exception'[id[f]].scope = exception[id[f]].scope
  BY <1>1, <1>3, RowsKept DEF Kept, Same
<1>4. /\ phase'[e] = phase[e] /\ scope'[e] = scope[e] /\ asked'[e] = asked[e]
      /\ create'[e] = create[e] /\ excused'[e] = excused[e] /\ id'[e] = id[e] /\ rows' = rows
  BY DEF Same, Quiet
<1>5. Pending(e)' = Pending(e)
  BY <1>3, <1>4 DEF Pending
<1>6. NotCovered(e)'
  <2>1. ASSUME NEW c, NEW q \in 1 .. rows, Covers(q, scope[e], c)'
        PROVE  Covers(q, scope[e], c)
    BY <1>4, <2>1, QuietCovers
  <2>. QED BY <1>4, <1>5, <2>1 DEF NotCovered, Creating, GraceOf
<1>7. PendingFits(e)'
  BY <1>3, <1>4 DEF PendingFits, GraceOf
<1>8. PendingIsLast(e)'
  <2>1. \A r \in 1 .. rows : /\ exception'[r].cve = exception[r].cve
                             /\ exception'[r].scope = exception[r].scope
    BY RowsKept DEF Kept
  <2>. QED BY <1>3, <1>4, <2>1 DEF PendingIsLast, GraceOf
<1>9. ExcuseLasts(e)'
  <2>1. ASSUME Answers(e), NEW c \in excused[e], OfItsOwn(e, c)', NEW r \in 1 .. rows,
               Covers(r, scope[e], c)'
        PROVE  exception'[r].end > asked[e]
    <3>1. OfItsOwn(e, c)
      BY <1>4, <2>1, QuietCovers, RowsKept DEF OfItsOwn, Kept
    <3>2. Covers(r, scope[e], c)
      BY <1>4, <2>1, QuietCovers
    <3>. QED BY <1>2, <2>1, <3>1, <3>2 DEF ExcuseLasts, GraceOf
  <2>. QED BY <1>4, <2>1 DEF ExcuseLasts, Answers, Creating
<1>10. PendingLasts(e)'
  <2>1. ASSUME Answers(e), NEW f \in Evaluators, phase'[f] = "link", scope'[f] = scope[e],
               exception'[id[f]].cve \in excused[e]
        PROVE  exception'[id[f]].end > asked[e]
    BY <1>2, <1>3, <2>1 DEF PendingLasts, GraceOf
  <2>. QED BY <1>3, <1>4, <2>1 DEF PendingLasts, Answers, Creating
<1>. QED BY <1>6, <1>7, <1>8, <1>9, <1>10 DEF GraceOf

(* What every step relies on.                                              *)
LEMMA GraceFacts ==
  ASSUME TypeInv, ExcuseInv, GraceInv
  PROVE  /\ rows \in Nat /\ day \in Nat /\ Grace \in Nat
         /\ GraceOnce /\ \A r \in 1 .. rows : exception[r].temp
         /\ \A f \in Evaluators :
              /\ asked[f] \in Nat /\ asked[f] <= day /\ GraceOf(f)
              /\ create[f] # {} => Grace > 0
              /\ phase[f] = "link" => id[f] \in 1 .. rows
<1>1. rows \in Nat /\ day \in Nat /\ Grace \in Nat /\ \A f \in Evaluators : asked[f] \in Nat
  BY RowsType, TempAssumption DEF TypeInv, TypeOK, Days
<1>. QED BY <1>1 DEF GraceInv, ExcuseInv, ExcuseOf, TypeInv, LinksFit

(* The step of an evaluation that writes no row needs to keep only what    *)
(* holds of itself.                                                        *)
LEMMA OwnStep ==
  ASSUME TypeInv, TypeInv', ExcuseInv, GraceInv, [Next]_vars, NEW e \in Evaluators,
         Acts(e), UNCHANGED <<rows, exception>>, phase'[e] # "link",
         NotCovered(e)', ExcuseLasts(e)', PendingLasts(e)'
  PROVE  GraceInv'
<1>1. Quiet
  BY DEF Quiet
<1>2. GraceOnce' /\ (\A r \in 1 .. rows : exception[r].temp)'
  BY DEF GraceInv, GraceOnce, Stored, Applies
<1>3. \A f \in Evaluators : (phase'[f] = "link" \/ f # e) => Same(f)
  BY OnlyActorChanges
<1>4. ASSUME NEW f \in Evaluators, f # e PROVE GraceOf(f)'
  BY <1>1, <1>3, <1>4, GraceFacts, QuietKeepsGraceOf
<1>5. GraceOf(e)'
  BY DEF GraceOf, PendingFits, PendingIsLast
<1>. QED BY <1>2, <1>4, <1>5 DEF GraceInv

LEMMA ReadKeepsGrace ==
  ASSUME TypeInv, TypeInv', ExcuseInv, GraceInv, [Next]_vars, NEW e \in Evaluators,
         ReadExceptions(e)
  PROVE  GraceInv'
<1>1. /\ phase[e] = "read" /\ phase'[e] = "check" /\ asked'[e] = day
      /\ scope' = scope /\ create' = create /\ id' = id
      /\ UNCHANGED <<day, rows, exception>>
      /\ \A f \in Evaluators \ {e} : phase'[f] = phase[f]
  BY DEF ReadExceptions, Move, TypeInv, TypeOK
<1>2. create'[e] = {}
  BY <1>1 DEF ExcuseInv, ExcuseOf
<1>3. ASSUME NEW c \in excused'[e]
      PROVE  \E q \in 1 .. rows : InForce(q) /\ Applies(q, scope[e], c)
  BY <1>3 DEF ReadExceptions, TypeInv, TypeOK
<1>4. /\ \A q \in 1 .. rows : \A s, d : Covers(q, s, d)' <=> Covers(q, s, d)
      /\ \A d : OfItsOwn(e, d)' <=> OfItsOwn(e, d)
  BY <1>1 DEF Covers, Stored, Applies, OfItsOwn
<1>5. NotCovered(e)'
  BY <1>1, <1>2 DEF NotCovered, Pending
<1>6. ExcuseLasts(e)'
  <2>1. ASSUME NEW c \in excused'[e], OfItsOwn(e, c), NEW r \in 1 .. rows,
               Covers(r, scope[e], c)
        PROVE  exception[r].end > day
    <3>1. PICK q \in 1 .. rows : InForce(q) /\ Applies(q, scope[e], c)
      BY <1>3, <2>1
    <3>2. exception[r].scope = scope[e] /\ exception[q].scope = scope[e]
      BY <2>1, <3>1 DEF Covers, OfItsOwn
    <3>3. r = q
      BY <2>1, <3>1, <3>2, GraceFacts DEF Covers, InForce, Applies, Stored, GraceOnce
    <3>. QED BY <3>1, <3>3 DEF InForce
  <2>. QED BY <1>1, <1>4, <2>1 DEF ExcuseLasts
<1>7. PendingLasts(e)'
  <2>1. ASSUME NEW f \in Evaluators, phase[f] = "link", scope[f] = scope[e],
               exception[id[f]].cve \in excused'[e]
        PROVE  FALSE
    <3>1. PICK q \in 1 .. rows :
            InForce(q) /\ Applies(q, scope[e], exception[id[f]].cve)
      BY <1>3, <2>1
    <3>2. Covers(q, scope[f], exception[id[f]].cve)
      BY <2>1, <3>1 DEF Covers, InForce
    <3>. QED BY <2>1, <3>1, <3>2, GraceFacts DEF GraceOf, NotCovered, Creating, Pending
  <2>. QED BY <1>1, <2>1 DEF PendingLasts
<1>8. Acts(e)
  BY DEF Acts, Evaluate
<1>. QED BY <1>1, <1>5, <1>6, <1>7, <1>8, OwnStep

LEMMA CheckKeepsGrace ==
  ASSUME TypeInv, TypeInv', ExcuseInv, GraceInv, NoRace, [Next]_vars, NEW e \in Evaluators,
         NEW c \in Cves, CheckIssue(e, c)
  PROVE  GraceInv'
<1>1. /\ phase[e] = "check" /\ c \in todo[e]
      /\ UNCHANGED <<day, rows, exception, phase, scope, asked, id>>
  BY DEF CheckIssue
<1>2. \/ create'[e] = create[e] /\ excused'[e] = excused[e]
      \/ /\ create'[e] = create[e] \cup {c} /\ excused'[e] = excused[e] \cup {c}
         /\ ~TempExceptionCreated(scope[e], c)
  BY DEF CheckIssue, TypeInv, TypeOK
<1>3. ~TempExceptionCreated(scope[e], c) => \A q \in 1 .. rows : ~Covers(q, scope[e], c)
  BY GraceFacts DEF TempExceptionCreated, Covers
<1>4. /\ \A q \in 1 .. rows : \A s, d : Covers(q, s, d)' <=> Covers(q, s, d)
      /\ \A d : OfItsOwn(e, d)' <=> OfItsOwn(e, d)
      /\ Pending(e)' = {} /\ GraceOf(e)
  BY <1>1, GraceFacts DEF Covers, Stored, Applies, OfItsOwn, Pending
<1>5. NotCovered(e)'
  BY <1>1, <1>2, <1>3, <1>4 DEF NotCovered, Creating, GraceOf
<1>6. ExcuseLasts(e)'
  BY <1>1, <1>2, <1>3, <1>4 DEF ExcuseLasts, Answers, Creating, GraceOf
<1>7. PendingLasts(e)'
  <2>1. ASSUME NEW f \in Evaluators, phase[f] = "link", scope[f] = scope[e],
               exception[id[f]].cve = c
        PROVE  FALSE
    <3>1. e # f /\ Creating(e) /\ Creating(f) /\ Related(scope[e], scope[f])
      BY <1>1, <2>1 DEF Creating, Related
    <3>2. c \in Wants(e) /\ c \in Wants(f)
      BY <1>1, <2>1 DEF Wants, Pending
    <3>. QED BY <3>1, <3>2 DEF NoRace
  <2>. QED BY <1>1, <1>2, <1>4, <2>1 DEF PendingLasts, Answers, Creating, GraceOf
<1>8. Acts(e) /\ phase'[e] # "link"
  BY <1>1 DEF Acts, Evaluate
<1>. QED BY <1>1, <1>5, <1>6, <1>7, <1>8, OwnStep

LEMMA InsertKeepsGrace ==
  ASSUME TypeInv, TypeInv', ExcuseInv, GraceInv, NoRace, [Next]_vars, NEW e \in Evaluators,
         NEW c \in Cves, InsertException(e, c)
  PROVE  GraceInv'
<1>1. /\ phase[e] = "insert" /\ phase'[e] = "link" /\ id'[e] = rows + 1 /\ rows' = rows + 1
      /\ create'[e] = create[e] \ {c} /\ c \in create[e]
      /\ day' = day /\ scope' = scope /\ asked' = asked /\ excused' = excused
  BY DEF InsertException, Move, TypeInv, TypeOK
<1>2. /\ exception'[rows + 1] = Inserted(e, c)
      /\ \A q \in 1 .. rows : exception'[q] = exception[q]
  BY InsertIs, RowAppended DEF TypeInv
<1>3. /\ ~exception'[rows + 1].linked /\ exception'[rows + 1].temp
      /\ exception'[rows + 1].scope = scope[e] /\ exception'[rows + 1].cve = c
      /\ exception'[rows + 1].end > day
  <2>1. Grace > 0
    BY <1>1, GraceFacts
  <2>. QED BY <1>2, <2>1, GraceFacts DEF Inserted
<1>4. /\ \A q : q \in 1 .. rows' <=> q \in 1 .. rows \/ q = rows + 1
      /\ \A q \in 1 .. rows : \A s, d : Applies(q, s, d)' <=> Applies(q, s, d)
      /\ \A q \in 1 .. rows : \A s, d : Covers(q, s, d)' <=> Covers(q, s, d)
      /\ \A q, s, d : Covers(q, s, d)' => q \in 1 .. rows
  <2>1. \A q : q \in 1 .. rows' <=> q \in 1 .. rows \/ q = rows + 1
    BY <1>1, GraceFacts
  <2>2. \A q \in 1 .. rows : \A s, d : Applies(q, s, d)' <=> Applies(q, s, d)
    BY <1>2 DEF Applies
  <2>3. \A q \in 1 .. rows : (q \in Stored)' <=> q \in Stored
    BY <1>2, <2>1 DEF Stored
  <2>4. \A q, s, d : q = rows + 1 => ~Applies(q, s, d)'
    BY <1>3 DEF Applies
  <2>. QED BY <2>1, <2>2, <2>3, <2>4 DEF Covers, Stored
<1>5. /\ \A f \in Evaluators \ {e} :
           phase'[f] = phase[f] /\ create'[f] = create[f] /\ id'[f] = id[f]
      /\ \A f \in Evaluators : phase[f] = "link" => id[f] \in 1 .. rows
  <2>1. Acts(e)
    BY DEF Acts, Evaluate
  <2>. QED BY <2>1, OnlyActorChanges, GraceFacts DEF Same
<1>6. ASSUME NEW f \in Evaluators, f # e, Creating(f), Related(scope[e], scope[f])
      PROVE  c \notin Wants(f)
  <2>1. Creating(e) /\ c \in Wants(e)
    BY <1>1 DEF Creating, Wants
  <2>. QED BY <1>6, <2>1 DEF NoRace
<1>7. GraceOnce' /\ (\A r \in 1 .. rows : exception[r].temp)'
  <2>1. ASSUME NEW r \in 1 .. rows', NEW q \in 1 .. (r - 1), (q \in Stored)',
               Applies(q, exception[r].scope, exception[r].cve)'
        PROVE  FALSE
    <3>1. q \in 1 .. rows
      BY <1>1, <2>1, GraceFacts
    <3>2. CASE r = rows + 1
      <4>1. Covers(q, scope[e], c)
        BY <1>3, <1>4, <2>1, <3>1, <3>2 DEF Covers, Applies
      <4>. QED BY <1>1, <3>1, <4>1, GraceFacts DEF GraceOf, NotCovered, Creating
    <3>3. CASE r \in 1 .. rows
      <4>1. q \in Stored /\ Applies(q, exception[r].scope, exception[r].cve)
        BY <1>2, <2>1, <3>1, <3>3 DEF Stored, Applies
      <4>. QED BY <2>1, <3>3, <4>1, GraceFacts DEF GraceOnce
    <3>. QED BY <1>4, <3>2, <3>3
  <2>. QED BY <1>2, <1>3, <1>4, <2>1, GraceFacts DEF GraceOnce
<1>8. ASSUME NEW f \in Evaluators PROVE GraceOf(f)'
  <2>0. GraceOf(f) /\ asked[f] \in Nat /\ day \in Nat /\ asked[f] <= day /\ rows \in Nat
    BY GraceFacts
  <2>1. /\ Creating(f)' <=> Creating(f)
        /\ Answers(f)' <=> Answers(f)
    BY <1>1, <1>5 DEF Creating, Answers
  <2>2. create'[f] \cup Pending(f)' \subseteq create[f] \cup Pending(f)
    <3>1. CASE f = e
      BY <1>1, <1>3, <3>1 DEF Pending
    <3>2. CASE f # e
      BY <1>2, <1>5, <3>2 DEF Pending
    <3>. QED BY <3>1, <3>2
  <2>3. NotCovered(f)'
    BY <1>1, <1>4, <2>0, <2>1, <2>2 DEF GraceOf, NotCovered
  <2>4. PendingFits(f)'
    <3>1. CASE f = e
      BY <1>1, <1>3, <3>1 DEF PendingFits
    <3>2. CASE f # e
      BY <1>1, <1>2, <1>5, <2>0, <3>2 DEF GraceOf, PendingFits
    <3>. QED BY <3>1, <3>2
  <2>5. PendingIsLast(f)'
    <3>1. CASE f = e
      BY <1>1, <2>0, <3>1 DEF PendingIsLast
    <3>2. ASSUME f # e, phase[f] = "link", NEW r \in 1 .. rows', r > id[f],
                 exception'[r].cve = exception[id[f]].cve
          PROVE  scope[f] \notin {exception'[r].scope, Everywhere}
      <4>1. CASE r \in 1 .. rows
        BY <1>2, <2>0, <3>2, <4>1 DEF GraceOf, PendingIsLast
      <4>2. CASE r = rows + 1
        <5>1. Creating(f) /\ c \in Wants(f)
          BY <1>3, <3>2, <4>2 DEF Creating, Wants, Pending
        <5>. QED BY <1>3, <1>6, <3>2, <4>2, <5>1 DEF Related
      <4>. QED BY <1>4, <4>1, <4>2
    <3>. QED BY <1>1, <1>2, <1>5, <3>1, <3>2 DEF PendingIsLast
  <2>6. ExcuseLasts(f)'
    <3>1. \A d : OfItsOwn(f, d)' => OfItsOwn(f, d)
      BY <1>1, <1>2, <1>4 DEF OfItsOwn
    <3>. QED BY <1>1, <1>2, <1>4, <2>0, <2>1, <3>1 DEF GraceOf, ExcuseLasts
  <2>7. PendingLasts(f)'
    <3>1. ASSUME Answers(f), NEW g \in Evaluators, phase'[g] = "link",
                 scope[g] = scope[f], exception'[id'[g]].cve \in excused[f]
          PROVE  exception'[id'[g]].end > asked[f]
      <4>1. CASE g = e
        <5>1. exception'[id'[g]].end = day + Grace /\ Grace > 0 /\ Grace \in Nat
          BY <1>1, <1>2, <4>1, GraceFacts DEF Inserted
        <5>. QED BY <2>0, <5>1
      <4>2. CASE g # e
        BY <1>2, <1>5, <2>0, <3>1, <4>2 DEF GraceOf, PendingLasts
      <4>. QED BY <4>1, <4>2
    <3>. QED BY <1>1, <2>1, <3>1 DEF PendingLasts
  <2>. QED BY <2>3, <2>4, <2>5, <2>6, <2>7 DEF GraceOf
<1>. QED BY <1>7, <1>8 DEF GraceInv

LEMMA LinkKeepsGrace ==
  ASSUME TypeInv, TypeInv', ExcuseInv, GraceInv, NoRace, [Next]_vars, NEW e \in Evaluators,
         LinkException(e)
  PROVE  GraceInv'
<1>. DEFINE n == id[e]
<1>1. /\ phase[e] = "link" /\ phase'[e] \in {"answered", "insert"} /\ n \in 1 .. rows
      /\ UNCHANGED <<day, rows, scope, asked, create, excused, id>>
      /\ \A f \in Evaluators \ {e} : phase'[f] = phase[f]
  BY LinkIs DEF LinkException, Move, TypeInv, TypeOK
<1>2. /\ exception'[n] = Linked(n)
      /\ \A q \in 1 .. rows : q # n => exception'[q] = exception[q]
  BY LinkIs, RowReplaced DEF TypeInv
<1>3. \A q \in 1 .. rows :
        /\ exception'[q].cve = exception[q].cve /\ exception'[q].scope = exception[q].scope
        /\ exception'[q].temp = exception[q].temp /\ exception'[q].end = exception[q].end
        /\ exception'[q].deleted = exception[q].deleted
        /\ exception[q].linked => exception'[q].linked
  <2>1. /\ exception'[n].cve = exception[n].cve /\ exception'[n].scope = exception[n].scope
        /\ exception'[n].temp = exception[n].temp /\ exception'[n].end = exception[n].end
        /\ exception'[n].deleted = exception[n].deleted /\ exception'[n].linked
    BY <1>1, <1>2, RowsType DEF Linked, ExceptionRows, TypeInv
  <2>. QED BY <1>2, <2>1
<1>. HIDE DEF n
<1>4. /\ \A q \in 1 .. rows : \A s, d : q # n => (Covers(q, s, d)' <=> Covers(q, s, d))
      /\ \A q \in 1 .. rows : \A s, d : q # n => (Applies(q, s, d)' <=> Applies(q, s, d))
      /\ \A q \in 1 .. rows : \A s, d : Applies(q, s, d) => Applies(q, s, d)'
  BY <1>1, <1>2, <1>3 DEF Covers, Stored, Applies
<1>5. /\ exception[n].scope = scope[e] /\ exception[n].cve \notin create[e]
      /\ \A r \in 1 .. rows : r > n /\ exception[r].cve = exception[n].cve =>
           scope[e] \notin {exception[r].scope, Everywhere}
  BY <1>1, GraceFacts DEF GraceOf, PendingFits, PendingIsLast, n
<1>6. ASSUME NEW f \in Evaluators, f # e, Creating(f), Related(scope[e], scope[f])
      PROVE  exception[n].cve \notin Wants(f)
  <2>1. Creating(e) /\ exception[n].cve \in Wants(e)
    BY <1>1 DEF Creating, Wants, Pending, n
  <2>. QED BY <1>6, <2>1 DEF NoRace
<1>7. GraceOnce' /\ (\A r \in 1 .. rows : exception[r].temp)'
  <2>1. ASSUME NEW r \in 1 .. rows, NEW q \in 1 .. (r - 1), (q \in Stored)',
               Applies(q, exception[r].scope, exception[r].cve)'
        PROVE  FALSE
    <3>1. q \in 1 .. rows /\ q \in Stored /\ r > q
      BY <1>1, <1>3, <2>1, GraceFacts DEF Stored
    <3>2. CASE q = n
      BY <1>3, <1>5, <2>1, <3>1, <3>2 DEF Applies
    <3>3. CASE q # n
      <4>1. Applies(q, exception[r].scope, exception[r].cve)
        BY <1>2, <1>3, <2>1, <3>1, <3>3 DEF Applies
      <4>. QED BY <2>1, <3>1, <4>1, GraceFacts DEF GraceOnce
    <3>. QED BY <3>2, <3>3
  <2>. QED BY <1>1, <1>3, <2>1, GraceFacts DEF GraceOnce
<1>8. ASSUME NEW f \in Evaluators PROVE GraceOf(f)'
  <2>0. GraceOf(f) /\ \A g \in Evaluators : phase[g] = "link" => id[g] \in 1 .. rows
    BY GraceFacts
  <2>1. /\ Creating(f)' => Creating(f)
        /\ Answers(f)' => Answers(f)
        /\ phase'[f] = "link" => phase[f] = "link" /\ f # e
    BY <1>1 DEF Creating, Answers
  <2>2. Pending(f)' \subseteq Pending(f)
    BY <1>1, <1>3, <2>0, <2>1 DEF Pending
  <2>3. NotCovered(f)'
    <3>1. ASSUME Creating(f)', NEW d \in create[f] \cup Pending(f)', NEW q \in 1 .. rows,
                 Covers(q, scope[f], d)'
          PROVE  FALSE
      <4>1. CASE q # n
        BY <1>1, <1>4, <2>0, <2>1, <2>2, <3>1, <4>1 DEF GraceOf, NotCovered
      <4>2. CASE q = n
        <5>1. d = exception[n].cve /\ scope[e] \in {scope[f], Everywhere}
          BY <1>1, <1>3, <1>5, <3>1, <4>2 DEF Covers, Applies
        <5>2. CASE f = e
          BY <1>1, <1>5, <3>1, <5>1, <5>2 DEF Pending
        <5>3. CASE f # e
          BY <1>6, <2>1, <2>2, <3>1, <5>1, <5>3 DEF Related, Wants
        <5>. QED BY <5>2, <5>3
      <4>. QED BY <4>1, <4>2
    <3>. QED BY <1>1, <3>1 DEF NotCovered
  <2>4. PendingFits(f)'
    BY <1>1, <1>3, <2>0, <2>1 DEF GraceOf, PendingFits
  <2>5. PendingIsLast(f)'
    BY <1>1, <1>3, <2>0, <2>1 DEF GraceOf, PendingIsLast
  <2>6. ExcuseLasts(f)'
    <3>1. ASSUME Answers(f), NEW c \in excused[f], OfItsOwn(f, c)', NEW r \in 1 .. rows,
                 Covers(r, scope[f], c)'
          PROVE  exception[r].end > asked[f]
      <4>1. OfItsOwn(f, c)
        BY <1>1, <1>3, <1>4, <3>1 DEF OfItsOwn
      <4>2. CASE r = n
        <5>1. exception[n].cve = c /\ scope[e] = scope[f]
          BY <1>1, <1>3, <1>5, <3>1, <4>2 DEF Covers, Applies, OfItsOwn
        <5>. QED BY <1>1, <2>0, <3>1, <4>2, <5>1 DEF GraceOf, PendingLasts, n
      <4>3. CASE r # n
        BY <1>1, <1>4, <2>0, <3>1, <4>1, <4>3 DEF GraceOf, ExcuseLasts
      <4>. QED BY <4>2, <4>3
    <3>. QED BY <1>1, <1>3, <2>1, <3>1 DEF ExcuseLasts
  <2>7. PendingLasts(f)'
    <3>1. \A g \in Evaluators : phase'[g] = "link" => phase[g] = "link"
      BY <1>1
    <3>. QED BY <1>1, <1>3, <2>0, <2>1, <3>1 DEF GraceOf, PendingLasts
  <2>. QED BY <2>3, <2>4, <2>5, <2>6, <2>7 DEF GraceOf
<1>. QED BY <1>7, <1>8 DEF GraceInv

LEMMA GraceStep ==
  ASSUME TypeInv, TypeInv', ExcuseInv, GraceInv, NoRace, [Next]_vars
  PROVE  GraceInv'
<1>1. CASE OthersAct
  <2>1. Quiet /\ \A f \in Evaluators : Same(f)
    BY <1>1, OthersAreQuiet, OnlyActorChanges
  <2>2. GraceOnce' /\ (\A r \in 1 .. rows : exception[r].temp)'
    BY <2>1, GraceFacts, QuietKeepsGraceOnce
  <2>3. \A f \in Evaluators : GraceOf(f)'
    BY <2>1, GraceFacts, QuietKeepsGraceOf
  <2>. QED BY <2>2, <2>3 DEF GraceInv
<1>2. ASSUME NEW e \in Evaluators, UNCHANGED <<rows, exception>>, Acts(e),
             ~Creating(e)', phase'[e] # "answered"
      PROVE  GraceInv'
  BY <1>2, OwnStep DEF NotCovered, ExcuseLasts, PendingLasts, Answers, Creating
<1>3. ASSUME NEW e \in Evaluators, NEW s \in Scopes, NEW cves \in SUBSET Cves, Ask(e, s, cves)
      PROVE  GraceInv'
  BY <1>2, <1>3 DEF Ask, Acts, Creating, TypeInv, TypeOK
<1>4. ASSUME NEW e \in Evaluators, EvaluationFails(e) PROVE GraceInv'
  BY <1>2, <1>4 DEF EvaluationFails, Acts, Creating, TypeInv, TypeOK
<1>5. ASSUME NEW e \in Evaluators, Checked(e) PROVE GraceInv'
  <2>1. /\ phase[e] = "check" /\ phase'[e] \in {"answered", "insert"}
        /\ UNCHANGED <<day, rows, exception, scope, asked, create, excused, id>>
        /\ \A f \in Evaluators \ {e} : phase'[f] = phase[f]
    BY <1>5 DEF Checked, Move, TypeInv, TypeOK
  <2>2. /\ \A q \in 1 .. rows : \A s, d : Covers(q, s, d)' <=> Covers(q, s, d)
        /\ \A d : OfItsOwn(e, d)' <=> OfItsOwn(e, d)
        /\ Pending(e)' = {} /\ GraceOf(e)
    BY <2>1, GraceFacts DEF Covers, Stored, Applies, OfItsOwn, Pending
  <2>3. NotCovered(e)'
    BY <2>1, <2>2 DEF NotCovered, Creating, GraceOf
  <2>4. ExcuseLasts(e)'
    BY <2>1, <2>2 DEF ExcuseLasts, Answers, Creating, GraceOf
  <2>5. PendingLasts(e)'
    BY <2>1, <2>2 DEF PendingLasts, Answers, Creating, GraceOf
  <2>6. Acts(e)
    BY <1>5 DEF Acts, Evaluate
  <2>. QED BY <2>1, <2>3, <2>4, <2>5, <2>6, OwnStep
<1>. QED BY <1>1, <1>3, <1>4, <1>5, ReadKeepsGrace, CheckKeepsGrace, InsertKeepsGrace,
        LinkKeepsGrace, Steps DEF Acts, Evaluate

LEMMA GraceInvariance == Spec /\ []NoRace => []GraceInv
<1>1. Init => GraceInv
  BY DEF Init, GraceInv, GraceOnce, GraceOf, Stored, NotCovered, PendingFits,
         PendingIsLast, ExcuseLasts, PendingLasts, Answers, Creating
<1>2. TypeInv /\ TypeInv' /\ ExcuseInv /\ NoRace /\ GraceInv /\ [Next]_vars => GraceInv'
  BY GraceStep
<1>. QED BY <1>1, <1>2, TypeInvariance, ExcuseInvariance, PTL DEF Spec

(* However many evaluations overlap, an issue is given a second grace      *)
(* period only if two that could create its exception were under way in    *)
(* related scopes at once.                                                 *)
THEOREM OnlyRacesGrantAgain == Spec /\ []NoRace => []GraceOnce
<1>1. GraceInv => GraceOnce
  BY DEF GraceInv
<1>. QED BY <1>1, GraceInvariance, PTL

(* Nor is an issue excused again, without such a race, by an evaluation    *)
(* that began after its grace period.                                      *)
THEOREM OnlyRacesExcuseAgain == Spec /\ []NoRace => []GraceEnds
<1>1. GraceInv => GraceEnds
  BY DEF GraceInv, GraceOf, ExcuseLasts, Answers, GraceEnds, OfItsOwn, Covers
<1>. QED BY <1>1, GraceInvariance, PTL

(* Where evaluations do not overlap, an issue is given one grace period.   *)
THEOREM OneGracePeriod ==
  ASSUME NEW e, Evaluators = {e}
  PROVE  Spec => []GraceOnce
<1>1. NoRace
  BY DEF NoRace
<1>. QED BY <1>1, OnlyRacesGrantAgain, PTL

(* Where evaluations do not overlap, a grace period that is over is over.  *)
THEOREM GracePeriodsEnd ==
  ASSUME NEW e, Evaluators = {e}
  PROVE  Spec => []GraceEnds
<1>1. NoRace
  BY DEF NoRace
<1>. QED BY <1>1, OnlyRacesExcuseAgain, PTL
=============================================================================
