-------------------------- MODULE ImageCompliance ---------------------------
(***************************************************************************)
(* Whether an image of a pod complies with the policies of its cluster: the*)
(* answer of pod compliance and the compliance facade, before temporary    *)
(* exceptions, as a function of the stored scan results, the settings of   *)
(* policies and scanners and the exceptions in force.  Administrators and  *)
(* scans change these one at a time, and the admission webhook and the     *)
(* cluster sync ask for the answer at any moment.                          *)
(*                                                                         *)
(* The service computes two verdicts: the Boolean it returns and the       *)
(* ComplianceResultMap it fills.  The facade answers with the map's.       *)
(***************************************************************************)
EXTENDS Integers, FiniteSets

CONSTANTS
  Policies,
  Scanners,
  Owner,        \* Owner[s]: scanners.policy_id
  Issues,       \* what scans can find: records [scanner, cve, severity, fixable]
  Exceptions,   \* records [policy, scanner, cve], each possibly All
  All,          \* no policy, scanner or issue named
  Limit         \* Limit[s][severity][fixable]: vulnerability settings

Severities == {i.severity : i \in Issues}

ASSUME ComplianceAssumption ==
  /\ Owner \in [Scanners -> Policies]
  /\ IsFiniteSet(Issues)
  /\ \A i \in Issues : i.scanner \in Scanners /\ i.fixable \in BOOLEAN
  /\ \A x \in Exceptions : /\ x.policy \in Policies \cup {All}
                           /\ x.scanner \in Scanners \cup {All}
  /\ Limit \in [Scanners -> [Severities -> [BOOLEAN -> Nat]]]

VARIABLES
  enabled,     \* policies.enabled
  enforced,    \* policies.enforcement
  scanner,     \* "on", "off" (not enabled) or "removed" (deleted_at is set)
  required,    \* scanners.required
  result,      \* per policy: what the latest scan result says
  issues,      \* the issues of the latest results
  exceptions   \* exceptions in force for the image, cluster and namespace

settingVars == <<enabled, enforced, scanner, required>>
ruleVars == <<settingVars, result, issues, exceptions>>

(* Every column holds a legal value, and an issue belongs to a result of   *)
(* its scanner's policy (image_scan_results_issues.image_results_id).      *)
RuleTypeOK ==
  /\ enabled \in SUBSET Policies
  /\ enforced \in SUBSET Policies
  /\ scanner \in [Scanners -> {"on", "off", "removed"}]
  /\ required \in SUBSET Scanners
  /\ result \in [Policies -> {"none", "found", "error"}]
  /\ issues \in SUBSET Issues
  /\ exceptions \in SUBSET Exceptions
  /\ \A i \in issues : result[Owner[i.scanner]] # "none"

RuleInit ==
  /\ enabled = Policies
  /\ enforced = {}
  /\ scanner = [s \in Scanners |-> "on"]
  /\ required = {}
  /\ result = [p \in Policies |-> "none"]
  /\ issues = {}
  /\ exceptions = {}

-----------------------------------------------------------------------------
(* The compliance service *)

(* The results that are looked at: the latest ones of enabled policies.    *)
Results == {p \in enabled : result[p] # "none"}

(* Without results there is a phantom policy, and an error in one result   *)
(* fails the image; otherwise every result is checked.                     *)
Scanned == Results # {} /\ \A p \in Results : result[p] # "error"

(* getScannersByPolicyId leaves out removed scanners.                      *)
ScannersOf(p) == {s \in Scanners : Owner[s] = p /\ scanner[s] # "removed"}

IssuesOf(s) == {i \in issues : i.scanner = s}

(* applyExceptions: policy specific and general exceptions, for one        *)
(* scanner or any, for one issue or all of them.                           *)
Matches(x, i) ==
  /\ x.policy \in {All, Owner[i.scanner]}
  /\ x.scanner \in {All, i.scanner}
  /\ x.cve \in {All, i.cve}

(* A wrong applyExceptions: a scanner with exceptions of its own is not    *)
(* looked up among the general ones.                                       *)
RemainingOwnFirst(s, except) ==
  LET own == {x \in except : x.scanner = s}
  IN  {i \in IssuesOf(s) :
         \A x \in (IF own # {} THEN own ELSE except) : ~Matches(x, i)}

Remaining(s, except) == {i \in IssuesOf(s) : \A x \in except : ~Matches(x, i)}

(* checkScannerSettings works on the issues of one severity and, within    *)
(* them, on the fixable and the unfixable ones.                            *)
Group(s, except, severity, fixable) ==
  {i \in Remaining(s, except) : i.severity = severity /\ i.fixable = fixable}

(* checkCompliance looks at scanners with issues; of a policy that is      *)
(* enforced only at those required.                                        *)
Considered(p) ==
  {s \in ScannersOf(p) : IssuesOf(s) # {} /\ (p \in enforced => s \in required)}

(* A wrong checkCompliance: scanners that are not required are filtered    *)
(* out before the issues are matched with the scanners.                    *)
ThrowsAfterFilter ==
  \E i \in issues : /\ Owner[i.scanner] \in Results
                    /\ i.scanner \notin Considered(Owner[i.scanner])

(* "Invalid scanner list provided": an issue of a scanner that is gone.    *)
Throws ==
  \E i \in issues : /\ Owner[i.scanner] \in Results
                    /\ i.scanner \notin ScannersOf(Owner[i.scanner])

(* A wrong checkScannerSettings: unfixable issues are never set to false.  *)
FailedFixable(except) ==
  {i \in issues :
     LET s == i.scanner IN
     /\ s \in Considered(Owner[s])
     /\ Owner[s] \in Results
     /\ scanner[s] = "on"
     /\ i.fixable
     /\ i \in Remaining(s, except)
     /\ Cardinality(Group(s, except, i.severity, i.fixable))
          >= Limit[s][i.severity][i.fixable]}

(* The issues set to false in the map.  Those of a scanner that is off are *)
(* covered by the scanner's own entry.                                     *)
Failed(except) ==
  {i \in issues :
     LET s == i.scanner IN
     /\ Owner[s] \in Results
     /\ s \in Considered(Owner[s])
     /\ scanner[s] = "on"
     /\ i \in Remaining(s, except)
     /\ Cardinality(Group(s, except, i.severity, i.fixable))
          >= Limit[s][i.severity][i.fixable]}

(* The answer: the map is compliant when nothing in it is false.  An image *)
(* whose check ends in an exception gets no answer, which is not a         *)
(* compliant one.                                                          *)
Compliant(except) == Scanned /\ ~Throws /\ Failed(except) = {}

(* The Boolean of checkScannerSettings over all severities of a scanner.   *)
WithinLimits(s, except) ==
  \A i \in Remaining(s, except) :
    Cardinality(Group(s, except, i.severity, i.fixable))
      <= Limit[s][i.severity][i.fixable]

Passes(s, except) == scanner[s] = "off" \/ WithinLimits(s, except)

(* The Boolean of checkCompliance: every scanner of an enforced policy,    *)
(* any scanner of another one.                                             *)
PolicyPasses(p, except) ==
  LET considered == Considered(p) IN
  IF p \in enforced THEN \A s \in considered : Passes(s, except)
  ELSE considered = {} \/ \E s \in considered : Passes(s, except)

(* The Boolean of isImageCompliant, which the facade does not use.         *)
Rule(except) ==
  Scanned /\ ~Throws /\ \A p \in Results : PolicyPasses(p, except)

-----------------------------------------------------------------------------
(* Scans and administrators *)

(* A scan runs the enabled scanners of the enabled policies and stores one *)
(* result for each of these policies, with its error flag.                 *)
SaveScan(found, failed) ==
  /\ failed \subseteq enabled
  /\ \A i \in found : scanner[i.scanner] = "on" /\ Owner[i.scanner] \in enabled
  /\ result' = [p \in Policies |-> IF p \notin enabled THEN result[p]
                                   ELSE IF p \in failed THEN "error" ELSE "found"]
  /\ issues' = {i \in issues : Owner[i.scanner] \notin enabled} \cup found
  /\ UNCHANGED <<settingVars, exceptions>>

(* An active policy needs at least one active scanner when it is saved.    *)
UpdatePolicy(p, isEnabled, isEnforced) ==
  /\ isEnabled => \E s \in ScannersOf(p) : scanner[s] = "on"
  /\ enabled' = IF isEnabled THEN enabled \cup {p} ELSE enabled \ {p}
  /\ enforced' = IF isEnforced THEN enforced \cup {p} ELSE enforced \ {p}
  /\ UNCHANGED <<scanner, required, result, issues, exceptions>>

(* Nothing is checked when a scanner is saved.                             *)
UpdateScanner(s, isEnabled, isRequired) ==
  /\ scanner[s] # "removed"
  /\ scanner' = [scanner EXCEPT ![s] = IF isEnabled THEN "on" ELSE "off"]
  /\ required' = IF isRequired THEN required \cup {s} ELSE required \ {s}
  /\ UNCHANGED <<enabled, enforced, result, issues, exceptions>>

DeleteScanner(s) ==
  /\ scanner[s] # "removed"
  /\ scanner' = [scanner EXCEPT ![s] = "removed"]
  /\ UNCHANGED <<enabled, enforced, required, result, issues, exceptions>>

(* An exception comes into force: created, activated or its start reached. *)
AddException(x) ==
  /\ exceptions' = exceptions \cup {x}
  /\ UNCHANGED <<settingVars, result, issues>>

(* ... and ceases to be: deleted, deactivated or its end passed.           *)
RemoveException(x) ==
  /\ exceptions' = exceptions \ {x}
  /\ UNCHANGED <<settingVars, result, issues>>

RuleNext ==
  \/ \E found \in SUBSET Issues, failed \in SUBSET Policies :
       SaveScan(found, failed)
  \/ \E p \in Policies, isEnabled, isEnforced \in BOOLEAN :
       UpdatePolicy(p, isEnabled, isEnforced)
  \/ \E s \in Scanners, isEnabled, isRequired \in BOOLEAN :
       UpdateScanner(s, isEnabled, isRequired)
  \/ \E s \in Scanners : DeleteScanner(s)
  \/ \E x \in Exceptions : AddException(x) \/ RemoveException(x)

RuleSpec == RuleInit /\ [][RuleNext]_ruleVars

-----------------------------------------------------------------------------
(* What the answers promise *)

(* Adding exceptions never makes an image fail, whatever mixture of        *)
(* policies, scanners and issues they name: an image that is not compliant *)
(* cannot be cured by taking an exception away.                            *)
ExceptionsNeverHurt ==
  [][/\ exceptions \subseteq exceptions'
     /\ UNCHANGED <<settingVars, result, issues>>
     => (Compliant(exceptions) => Compliant(exceptions)')]_ruleVars

(* The map, which the facade answers with, never accepts an image that the *)
(* rule of checkCompliance and isImageCompliant turns down.                *)
MapNeverMoreLenient == Compliant(exceptions) => Rule(exceptions)

(* Turning a scanner off, no longer requiring it, or enforcing a policy    *)
(* never makes a compliant image fail: enforcement only ever narrows the   *)
(* scanners that checkCompliance looks at.                                 *)
LooseningNeverBlocks ==
  [][/\ \A s \in Scanners : scanner'[s] \in {scanner[s], "off"}
     /\ required' \subseteq required
     /\ enforced \subseteq enforced'
     /\ UNCHANGED <<enabled, result, issues, exceptions>>
     => (Compliant(exceptions) => Compliant(exceptions)')]_ruleVars

=============================================================================
