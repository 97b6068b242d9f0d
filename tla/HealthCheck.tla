----------------------------- MODULE HealthCheck -----------------------------
(***************************************************************************)
(* build_plugin_health_report: `plugin_ctl check <id>` looks at a plugin's *)
(* package, its action records, the cluster configuration, the nodes (with *)
(* the questions of DistributedVerify) and the database, one after the     *)
(* other, and condenses what it saw into one final status.  The manifest   *)
(* has been found.  Items that are only informative are left out: what is  *)
(* kept decides the status (_final_status).  Defects of the package that   *)
(* no command changes (a version that does not match in the control file,  *)
(* an invalid role or hook) end as a missing script does, in a FAIL of the *)
(* package, and are not told apart from one.                               *)
(***************************************************************************)
EXTENDS DistributedVerify

CONSTANTS
  Home,          \* the coordinator that OpenTenBaseRuntime talks to
  Scripts,       \* verify_sql, rollback_sql: linted, no payload
  Libraries,     \* the declared library_files
  CProject,      \* is the plugin of type c?
  RemovedProbe   \* does its manifest have a removed_probe?

Actions == {"verify", "rollback"}
Records == {"none", "ok", "failed"}
Statuses == {"NEW", "READY", "DEPLOYED", "REGISTERED", "BROKEN", "REMOVED", "UNKNOWN",
             "BUILD_REQUIRED"}

ASSUME HealthCheckAssumption ==
  /\ Home \in Coordinators
  /\ Scripts \subseteq Files /\ Scripts \intersect (Scanned \union Declared) = {}
  /\ Libraries \subseteq Declared
  /\ CProject \in BOOLEAN /\ RemovedProbe \in BOOLEAN

VARIABLES
  setup,      \* what cluster.toml is like, and is the plugin in the catalog?
  history,    \* [Actions -> the latest record of the plugin in state.json]
  place,      \* the section that comes next
  items,      \* the items of the sections so far
  final,      \* the final status
  ownFaults,  \* calls of the check's own that fail: the smoke SQL, the removed probe
  recorded    \* records that other commands write meanwhile

checkVars == <<place, items, final, ownFaults>>
allVars == <<vars, setup, history, recorded, checkVars>>

Marks == {"none", "OK", "WARN", "FAIL", "SKIP", "INFO", "BUILD_REQUIRED"}

CheckTypeOK ==
  /\ TypeOK
  /\ setup \in [cluster : {"none", "invalid", "valid"}, listed : BOOLEAN]
  /\ history \in [Actions -> Records]
  /\ place \in {"package", "books", "cluster", "plan", "verify", "smoke", "removed",
                "decide", "checked"}
  /\ items \in [package : Marks, books : [Actions -> Records], cluster : Marks,
                plan : Marks, files : Marks, extension : Marks, smoke : Marks,
                removed : Marks]
  /\ final \in Statuses \union {"none"}
  /\ ownFaults \in Nat /\ recorded \in Nat

CheckInit ==
  /\ Init
  /\ setup \in [cluster : {"none", "invalid", "valid"}, listed : BOOLEAN]
  /\ history \in [Actions -> Records]
  /\ place = "package"
  /\ items = [package |-> "none", books |-> [a \in Actions |-> "none"], cluster |-> "none",
              plan |-> "none", files |-> "none", extension |-> "none", smoke |-> "none",
              removed |-> "none"]
  /\ final = "none"
  /\ ownFaults = 0 /\ recorded = 0

----------------------------------------------------------------------------
(* The sections.                                                           *)

Section(here, next) ==
  /\ place = here
  /\ place' = next
  /\ UNCHANGED <<final, setup, history, recorded>>

Smoothly == UNCHANGED <<vars, ownFaults>>

OwnFault ==
  /\ ownFaults < MaxFaults
  /\ ownFaults' = ownFaults + 1
  /\ UNCHANGED vars

Missing(files) == {f \in files : local[f] = Absent}

\* lint_manifest, _declared_optional_files and _check_extension_files: a library that
\* a C project has not built yet is no failure.
PackageMark ==
  IF Missing((Declared \union Scripts) \ Libraries) # {} \/ Unsupported # {} THEN "FAIL"
  ELSE IF Missing(Libraries) = {} THEN "OK"
  ELSE IF CProject THEN "BUILD_REQUIRED" ELSE "FAIL"

CheckPackage ==
  /\ Section("package", "books")
  /\ items' = [items EXCEPT !.package = PackageMark]
  /\ Smoothly

\* _check_management_state: the latest record of every action.
ReadBooks ==
  /\ Section("books", "cluster")
  /\ items' = [items EXCEPT !.books = history]
  /\ Smoothly

\* _check_cluster, as far as cluster.toml: without a good one no node is asked.
FindCluster ==
  /\ Section("cluster", IF setup.cluster = "valid" THEN "plan" ELSE "smoke")
  /\ items' = CASE setup.cluster = "valid" -> [items EXCEPT !.cluster = "OK"]
                [] setup.cluster = "invalid" ->
                     [items EXCEPT !.cluster = "FAIL", !.files = "SKIP", !.extension = "SKIP"]
                [] OTHER ->
                     [items EXCEPT !.cluster = "SKIP", !.files = "SKIP", !.extension = "SKIP"]
  /\ Smoothly

\* build_distribution_plan; the errors are forgiven if all of them are unbuilt libraries.
PlanMark ==
  IF \/ Coordinators = {} \/ Datanodes = {} \/ Payload = {} \/ Unsupported # {}
     \/ Missing(IF CProject THEN Declared \ Libraries ELSE Declared) # {}
  THEN "FAIL"
  ELSE IF Missing(Declared) # {} THEN "BUILD_REQUIRED" ELSE "OK"

CheckPlan ==
  /\ Section("plan", "verify")
  /\ items' = [items EXCEPT !.plan = PlanMark]
  /\ Smoothly

\* run_distributed_verify.
Verify ==
  /\ place = "verify"
  /\ Step
  /\ UNCHANGED <<setup, history, recorded, checkVars>>

FileAnswers == {answer[q] : q \in FileQuestions} \ {"none"}
ExtensionAnswers == {answer[q] : q \in ExtensionQuestions} \ {"none"}

\* Mutant: a file that is there, whatever it holds, is counted as distributed.
FilesMarkLenient ==
  IF FileAnswers = {} THEN "SKIP"
  ELSE IF "missing" \in FileAnswers THEN "WARN" ELSE "OK"

\* Mutant: the worst answer is passed on as the mark.
FilesMarkRaw ==
  IF FileAnswers = {} THEN "SKIP"
  ELSE IF "checksum_failed" \in FileAnswers THEN "checksum_failed"
  ELSE IF "missing" \in FileAnswers THEN "WARN" ELSE "OK"

FilesMark ==
  IF FileAnswers = {} THEN "SKIP"
  ELSE IF FileAnswers \intersect {"missing", "checksum_failed"} # {} THEN "WARN" ELSE "OK"

\* Mutant: one coordinator that has the extension is enough.
ExtensionMarkAny ==
  IF ExtensionAnswers \intersect Versions # {} THEN "OK" ELSE "WARN"

ExtensionMark ==
  IF ExtensionAnswers # {} /\ ExtensionAnswers \subseteq Versions THEN "OK" ELSE "WARN"

\* The report's file items and extension items; without a report there are none.
Collect ==
  /\ Ended
  /\ Section("verify", "smoke")
  /\ items' = IF stage = "raised"
              THEN [items EXCEPT !.extension = "SKIP"]
              ELSE [items EXCEPT !.files = FilesMark, !.extension = ExtensionMark]
  /\ Smoothly

\* _check_registration_and_verify: the smoke SQL works where the extension is.
RunSmoke ==
  /\ Section("smoke", "removed")
  /\ items' = [items EXCEPT !.smoke =
                 IF items.extension # "OK" THEN "SKIP"
                 ELSE IF catalog[Home] # Absent THEN "OK" ELSE "FAIL"]
  /\ Smoothly

SmokeFails ==
  /\ Section("smoke", "removed")
  /\ items.extension = "OK"
  /\ OwnFault
  /\ items' = [items EXCEPT !.smoke = "FAIL"]

\* Mutant: the probe is not asked when the records say rolled back.
RemovedMarkOfRecords ==
  IF items.books["rollback"] = "ok" THEN "OK" ELSE "INFO"

RemovedMark ==
  IF ~RemovedProbe THEN "WARN"
  ELSE IF items.books["rollback"] # "ok" THEN "INFO"
  ELSE IF catalog[Home] = Absent THEN "OK" ELSE "WARN"

ProbeRemoved ==
  /\ Section("removed", "decide")
  /\ items' = [items EXCEPT !.removed = RemovedMark]
  /\ Smoothly

ProbeFails ==
  /\ Section("removed", "decide")
  /\ RemovedProbe /\ items.books["rollback"] = "ok"
  /\ OwnFault
  /\ items' = [items EXCEPT !.removed = "WARN"]

Failing ==
  \/ "FAIL" \in {items.package, items.cluster, items.plan, items.smoke}
  \/ \E a \in Actions : items.books[a] = "failed"

\* Mutant: the history is asked before the present.
FinalStatusOfHistory ==
  IF Failing THEN "BROKEN"
  ELSE IF "BUILD_REQUIRED" \in {items.package, items.plan} THEN "BUILD_REQUIRED"
  ELSE IF ~setup.listed THEN "NEW"
  ELSE IF items.books["rollback"] = "ok" THEN "REMOVED"
  ELSE IF items.extension = "OK" /\ items.smoke = "OK" THEN "REGISTERED"
  ELSE IF items.files = "OK" THEN "DEPLOYED" ELSE "READY"

\* _final_status, in its order of precedence.
FinalStatus ==
  IF Failing THEN "BROKEN"
  ELSE IF "BUILD_REQUIRED" \in {items.package, items.plan} THEN "BUILD_REQUIRED"
  ELSE IF ~setup.listed THEN "NEW"
  ELSE IF items.extension = "OK" /\ items.smoke = "OK" THEN "REGISTERED"
  ELSE IF items.files = "OK" THEN "DEPLOYED"
  ELSE IF items.books["rollback"] = "ok" /\ items.removed = "OK" THEN "REMOVED"
  ELSE IF setup.cluster = "none" THEN "READY"
  ELSE IF "SKIP" \in {items.files, items.extension} THEN "UNKNOWN"
  ELSE "READY"

Decide ==
  /\ place = "decide"
  /\ place' = "checked"
  /\ final' = FinalStatus
  /\ UNCHANGED <<vars, items, setup, history, recorded, ownFaults>>

\* A verify or a rollback that ends while the check runs.
Record ==
  /\ place # "checked"
  /\ recorded < MaxChanges
  /\ recorded' = recorded + 1
  /\ \E a \in Actions, r \in Records \ {"none"} : history' = [history EXCEPT ![a] = r]
  /\ UNCHANGED <<vars, setup, checkVars>>

CheckStep ==
  \/ CheckPackage \/ ReadBooks \/ FindCluster \/ CheckPlan
  \/ Collect \/ RunSmoke \/ SmokeFails \/ ProbeRemoved \/ ProbeFails \/ Decide

CheckNext ==
  \/ CheckStep
  \/ Verify /\ Watch
  \/ Change /\ place # "checked" /\ Watch /\ UNCHANGED <<setup, history, recorded, checkVars>>
  \/ Record

CheckSpec == CheckInit /\ [][CheckNext]_allVars

----------------------------------------------------------------------------
(* Properties.                                                             *)

Checked == place = "checked"
Undisturbed == faults = 0 /\ ownFaults = 0 /\ changes = 0 /\ recorded = 0

\* Nothing but the nodes decides: a listed plugin with a complete package, a valid
\* cluster.toml and no failed record.
Fit ==
  /\ setup = [cluster |-> "valid", listed |-> TRUE]
  /\ NameValid /\ Unsupported = {} /\ Payload # {} /\ Datanodes # {}
  /\ Missing(Declared \union Scripts) = {}
  /\ \A a \in Actions : history[a] # "failed"

Everywhere == \A n \in Coordinators : catalog[n] # Absent
Distributed == \A q \in FileQuestions : q \notin Defects

\* For a fit plugin that nobody touches meanwhile, the status says where it really
\* stands, whatever its records say of the past (_final_status).
StatusOfFit ==
  (Checked /\ Fit /\ Undisturbed) =>
    /\ (final = "REGISTERED") <=> Everywhere
    /\ (final = "DEPLOYED") <=> (Distributed /\ ~Everywhere)
    /\ final \in {"REGISTERED", "DEPLOYED", "REMOVED", "READY"}

\* REGISTERED is never said of an extension that one of the coordinators lacked from
\* the beginning to the end, whatever fails and changes meanwhile
\* (_check_registration_and_verify).
RegisteredWasServed ==
  final = "REGISTERED" => lasting \intersect ExtensionQuestions = {} /\ Coordinators # {}

\* DEPLOYED is never said while a stale or missing copy lasts, as long as every call
\* succeeds (_check_cluster).
DeployedWasSeen ==
  (final = "DEPLOYED" /\ faults = 0) => lasting \intersect FileQuestions = {}

\* REMOVED is said only if a rollback has been recorded as successful and the
\* extension is gone (run_removed_verify).
RemovedWasGone ==
  (final = "REMOVED" /\ changes = 0 /\ recorded = 0) =>
    history["rollback"] = "ok" /\ catalog[Home] = Absent

\* README.md:249: "DEPLOYED, files are distributed to CN/DN nodes".
DeployedMeansDistributed ==
  (final = "DEPLOYED" /\ changes = 0) => Distributed

\* CHANGELOG.md:31: "REGISTERED and DEPLOYED take priority over old rollback history".
RegisteredTakesPriority ==
  (Checked /\ Undisturbed /\ Everywhere /\ PackageMark = "OK" /\ PlanMark = "OK" /\ NameValid
     /\ setup = [cluster |-> "valid", listed |-> TRUE] /\ history["verify"] # "failed")
  => final = "REGISTERED"

=============================================================================
