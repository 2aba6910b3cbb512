--------------------------- MODULE TempExceptions ---------------------------
(***************************************************************************)
(* The grace period of one policy in one cluster: an evaluation of an      *)
(* image reads the exceptions in force, asks for every issue left over     *)
(* whether a temporary exception was ever created for it, and creates one  *)
(* that ends Grace days later.  Every awaited query is a step, so that     *)
(* evaluations, the daily status job and administrators interleave.        *)
(*                                                                         *)
(* An evaluation is for a namespace (pods) or for the whole cluster (scan  *)
(* results).  A temporary exception carries no image name, so the images   *)
(* only differ in the issues that exceed the limits.                       *)
(***************************************************************************)
EXTENDS Naturals, Sequences

CONSTANTS
  Cves,         \* issues that a scan can find over the limits
  Scopes,       \* namespaces evaluated, and Everywhere
  Everywhere,   \* no namespace: the whole cluster
  Evaluators,   \* evaluations that may overlap
  Grace,        \* policies.new_scan_grace_period, in days
  MaxDay,       \* bound: days that pass
  MaxRows,      \* bound: rows of exceptions
  AdminExtends, \* an admin may move the end date of an exception
  AdminDeletes, \* an admin may delete an exception
  Faults        \* an evaluation may fail at any query

ASSUME TempAssumption ==
  /\ {Grace, MaxDay, MaxRows} \subseteq Nat
  /\ {AdminExtends, AdminDeletes, Faults} \subseteq BOOLEAN

Ids == 1 .. MaxRows
Days == 0 .. MaxDay + Grace

VARIABLES
  day,       \* today
  rows,      \* rows inserted into exceptions so far
  exception, \* the rows
  phase,     \* per evaluation: the query it waits for
  scope,     \* per evaluation: the namespace, or Everywhere
  asked,     \* per evaluation: the day on which it read the exceptions
  todo,      \* per evaluation: nonCompliantIssues not yet looked at
  create,    \* per evaluation: issuesToCreate
  excused,   \* per evaluation: issues it counts as compliant
  denied,    \* per evaluation: issues that stay non-compliant
  id,        \* per evaluation: the row it has just inserted
  expired,   \* rows the status job is about to set inactive
  moved      \* those whose end date was moved since it selected them

evalVars == <<phase, scope, asked, todo, create, excused, denied, id>>
jobVars == <<expired, moved>>
vars == <<day, rows, exception, evalVars, jobVars>>

ExceptionRows == [scope : Scopes, cve : Cves, start : Days, end : Days,
               status : {"active", "inactive"}, temp : BOOLEAN,
               linked : BOOLEAN, deleted : BOOLEAN]

TypeOK ==
  /\ day \in 0 .. MaxDay
  /\ rows \in 0 .. MaxRows
  /\ exception \in Seq(ExceptionRows) /\ Len(exception) = rows
  /\ phase \in [Evaluators -> {"idle", "read", "check", "insert", "link",
                               "answered"}]
  /\ scope \in [Evaluators -> Scopes]
  /\ asked \in [Evaluators -> Days]
  /\ {todo, create, excused, denied} \subseteq [Evaluators -> SUBSET Cves]
  /\ id \in [Evaluators -> 0 .. MaxRows]
  /\ expired \in SUBSET Ids /\ moved \subseteq expired

Init ==
  /\ day = 0
  /\ rows = 0
  /\ exception = <<>>
  /\ phase = [e \in Evaluators |-> "idle"]
  /\ scope \in [Evaluators -> Scopes]
  /\ asked = [e \in Evaluators |-> 0]
  /\ todo = [e \in Evaluators |-> {}]
  /\ create = [e \in Evaluators |-> {}]
  /\ excused = [e \in Evaluators |-> {}]
  /\ denied = [e \in Evaluators |-> {}]
  /\ id = [e \in Evaluators |-> 0]
  /\ expired = {} /\ moved = {}

Move(e, from, to) ==
  /\ phase[e] = from
  /\ phase' = [phase EXCEPT ![e] = to]

Stored == {r \in 1 .. rows : ~exception[r].deleted}

(* A row with no namespace is relevant for all of them; the rows that link *)
(* it to its policy, cluster and namespace are written after it.           *)
Applies(r, s, c) ==
  /\ exception[r].linked
  /\ exception[r].cve = c
  /\ exception[r].scope \in {s, Everywhere}

(* getAllFilteredPolicyExceptions                                          *)
InForce(r) ==
  /\ r \in Stored
  /\ exception[r].status = "active"
  /\ exception[r].start <= day
  /\ exception[r].end > day

(* A wrong tempExceptionCreated: only exceptions in force count.           *)
CreatedAndInForce(s, c) ==
  \E r \in Stored : exception[r].temp /\ Applies(r, s, c) /\ InForce(r)

(* tempExceptionCreated: neither the status nor the dates are looked at.   *)
TempExceptionCreated(s, c) ==
  \E r \in Stored : exception[r].temp /\ Applies(r, s, c)

-----------------------------------------------------------------------------
(* Evaluations: isImageClusterCompliant and isImageNamespaceCompliant *)

Ask(e, s, issues) ==
  /\ phase[e] \in {"idle", "answered"}
  /\ issues # {}
  /\ phase' = [phase EXCEPT ![e] = "read"]
  /\ scope' = [scope EXCEPT ![e] = s]
  /\ todo' = [todo EXCEPT ![e] = issues]
  /\ create' = [create EXCEPT ![e] = {}]
  /\ excused' = [excused EXCEPT ![e] = {}]
  /\ denied' = [denied EXCEPT ![e] = {}]
  /\ UNCHANGED <<day, rows, exception, asked, id, jobVars>>

(* Issues with an exception in force are compliant.                        *)
ReadExceptions(e) ==
  /\ Move(e, "read", "check")
  /\ asked' = [asked EXCEPT ![e] = day]
  /\ LET covered == {c \in todo[e] : \E r \in 1 .. rows :
                       InForce(r) /\ Applies(r, scope[e], c)}
     IN  /\ excused' = [excused EXCEPT ![e] = covered]
         /\ todo' = [todo EXCEPT ![e] = @ \ covered]
  /\ UNCHANGED <<day, rows, exception, scope, create, denied, id, jobVars>>

(* applyTemporaryExceptions: the issue is set compliant in the map here,   *)
(* before anything is saved.                                               *)
CheckIssue(e, c) ==
  /\ phase[e] = "check"
  /\ c \in todo[e]
  /\ todo' = [todo EXCEPT ![e] = @ \ {c}]
  /\ IF TempExceptionCreated(scope[e], c) \/ Grace = 0
       THEN /\ denied' = [denied EXCEPT ![e] = @ \cup {c}]
            /\ UNCHANGED <<create, excused>>
       ELSE /\ create' = [create EXCEPT ![e] = @ \cup {c}]
            /\ excused' = [excused EXCEPT ![e] = @ \cup {c}]
            /\ UNCHANGED denied
  /\ UNCHANGED <<day, rows, exception, phase, scope, asked, id, jobVars>>

(* A wrong Checked: the answer is sent before the exceptions are saved.    *)
AnswerUnsaved(e) ==
  /\ todo[e] = {}
  /\ Move(e, "check", "answered")
  /\ UNCHANGED <<day, rows, exception, scope, asked, todo, create, excused,
                 denied, id, jobVars>>

(* saveTemporaryException creates the exceptions one after the other, and  *)
(* the answer follows the last.                                            *)
Checked(e) ==
  /\ todo[e] = {}
  /\ Move(e, "check", IF create[e] = {} THEN "answered" ELSE "insert")
  /\ UNCHANGED <<day, rows, exception, scope, asked, todo, create, excused,
                 denied, id, jobVars>>

InsertException(e, c) ==
  /\ Move(e, "insert", "link")
  /\ c \in create[e]
  /\ rows < MaxRows
  /\ rows' = rows + 1
  /\ exception' = Append(exception,
       [scope |-> scope[e], cve |-> c, start |-> day, end |-> day + Grace,
        status |-> "active", temp |-> TRUE, linked |-> FALSE, deleted |-> FALSE])
  /\ create' = [create EXCEPT ![e] = @ \ {c}]
  /\ id' = [id EXCEPT ![e] = rows + 1]
  /\ UNCHANGED <<day, scope, asked, todo, excused, denied, jobVars>>

LinkException(e) ==
  /\ Move(e, "link", IF create[e] = {} THEN "answered" ELSE "insert")
  /\ exception' = [exception EXCEPT ![id[e]].linked = TRUE]
  /\ UNCHANGED <<day, rows, scope, asked, todo, create, excused, denied, id,
                 jobVars>>

(* A query fails or the process dies: no answer, and a row without links   *)
(* may stay behind.                                                        *)
EvaluationFails(e) ==
  /\ Faults
  /\ phase[e] \notin {"idle", "answered"}
  /\ phase' = [phase EXCEPT ![e] = "idle"]
  /\ todo' = [todo EXCEPT ![e] = {}]
  /\ create' = [create EXCEPT ![e] = {}]
  /\ excused' = [excused EXCEPT ![e] = {}]
  /\ denied' = [denied EXCEPT ![e] = {}]
  /\ UNCHANGED <<day, rows, exception, scope, asked, id, jobVars>>

-----------------------------------------------------------------------------
(* Administrators *)

(* The review the docs ask for: a new end date.  The page sends back the   *)
(* is_temp_exception that it has loaded, and updateException stores it.    *)
UpdateException(r, end) ==
  /\ AdminExtends
  /\ r \in Stored
  /\ exception[r].linked
  /\ end \in day + 1 .. MaxDay
  /\ exception' = [exception EXCEPT ![r].end = end, ![r].status = "active"]
  /\ moved' = moved \cup ({r} \cap expired)
  /\ UNCHANGED <<day, rows, evalVars, expired>>

DeleteException(r) ==
  /\ AdminDeletes
  /\ r \in Stored
  /\ exception' = [exception EXCEPT ![r].deleted = TRUE]
  /\ UNCHANGED <<day, rows, evalVars, jobVars>>

-----------------------------------------------------------------------------
(* syncExceptionStatus: one query, then one update per exception *)

(* Two wrong selections: those not yet expired, those inactive already.    *)
SelectUnexpired ==
  /\ expired = {}
  /\ expired' = {r \in Stored : exception[r].end > day}
  /\ UNCHANGED <<day, rows, exception, evalVars, moved>>

SelectInactive ==
  /\ expired = {}
  /\ expired' = {r \in Stored : exception[r].status = "inactive"}
  /\ UNCHANGED <<day, rows, exception, evalVars, moved>>

SelectExpired ==
  /\ expired = {}
  /\ expired' = {r \in Stored : exception[r].end <= day}
  /\ UNCHANGED <<day, rows, exception, evalVars, moved>>

SetInactive(r) ==
  /\ r \in expired
  /\ expired' = expired \ {r} /\ moved' = moved \ {r}
  /\ exception' = [exception EXCEPT ![r].status = "inactive"]
  /\ UNCHANGED <<day, rows, evalVars>>

NextDay ==
  /\ day < MaxDay
  /\ day' = day + 1
  /\ UNCHANGED <<rows, exception, evalVars, jobVars>>

-----------------------------------------------------------------------------
Evaluate(e) ==
  \/ ReadExceptions(e) \/ Checked(e) \/ LinkException(e)
  \/ \E c \in Cves : CheckIssue(e, c) \/ InsertException(e, c)

Next ==
  \/ \E e \in Evaluators :
       \/ \E s \in Scopes, issues \in SUBSET Cves : Ask(e, s, issues)
       \/ Evaluate(e)
       \/ EvaluationFails(e)
  \/ \E r \in 1 .. rows :
       \/ \E end \in Days : UpdateException(r, end)
       \/ DeleteException(r)
       \/ SetInactive(r)
  \/ SelectExpired
  \/ NextDay

Spec == Init /\ [][Next]_vars

(* The status job is scheduled for ever and its updates run to the end.    *)
FairSpec ==
  /\ Spec
  /\ WF_vars(SelectExpired)
  /\ \A r \in Ids : WF_vars(r \in 1 .. rows /\ SetInactive(r))

-----------------------------------------------------------------------------
(* Properties *)

(* "Find if a temporary exception has ever been created for the given      *)
(* issue in the given circumstances", says the comment: no temporary       *)
(* exception is created where an earlier one that is still stored already  *)
(* applied, whatever its status and dates are by now.                      *)
GraceOnce ==
  \A r \in 1 .. rows : \A q \in Stored \cap 1 .. (r - 1) :
    ~Applies(q, exception[r].scope, exception[r].cve)

(* An answer that excuses an issue rests on an exception that is stored,   *)
(* linked and matches: the next evaluation on the same day agrees with it. *)
ExcusedIsStored ==
  \A e \in Evaluators : phase[e] = "answered" =>
    \A c \in excused[e] : \E r \in 1 .. rows :
      /\ Applies(r, scope[e], c)
      /\ exception[r].end > asked[e]

(* "A certain amount of time before it would block their deployments": no  *)
(* evaluation that began after the first grace period of an issue in its   *)
(* scope ended excuses the issue again, as long as that exception is kept, *)
(* no administrator has moved its end, and no exception for all namespaces *)
(* joined it (an evaluation of the cluster gives each of them another).    *)
GraceEnds ==
  \A e \in Evaluators : phase[e] = "answered" =>
    \A c \in excused[e] :
      LET theirs == {r \in 1 .. rows : Applies(r, scope[e], c)}
      IN  (\A r \in theirs : /\ exception[r].end = exception[r].start + Grace
                             /\ exception[r].scope = scope[e])
            => \A r \in theirs \cap Stored : asked[e] < exception[r].start + Grace

(* The status job only turns off exceptions whose end date has come, or    *)
(* was moved while the job went through those it had selected.             *)
OnlyExpiredGoInactive ==
  [][\A r \in 1 .. rows :
       exception[r].status = "active" /\ exception'[r].status = "inactive"
         => exception[r].end <= day \/ r \in moved]_vars

Overdue(r) ==
  r \in Stored /\ exception[r].status = "active" /\ exception[r].end <= day

(* An exception past its end date does not stay active for ever.           *)
ExpiredGoInactive == \A r \in Ids : Overdue(r) ~> ~Overdue(r)
=============================================================================
