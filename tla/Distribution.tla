---------------------------- MODULE Distribution ----------------------------
(***************************************************************************)
(* The physical distribution of a plugin: `plugin_ctl deploy <id> -f ...`  *)
(* and `plugin_ctl cluster distribute <id> -f ...`.                        *)
(*                                                                         *)
(* Each makes a plan and, unless it is a dry run or the plan has errors,   *)
(* runs a thread pool that puts every loadable file on every node; deploy  *)
(* then runs a second one that puts the manifest and the same files in the *)
(* nodes' package cache.  Each job is a chain of external calls (ssh, scp  *)
(* or opentenbase_ctl) that other jobs, failures and a concurrent rebuild  *)
(* of the plugin interleave with.  Result: OK is printed when every job    *)
(* ended well.                                                             *)
(*                                                                         *)
(* A file's content is <<file, version>>: different files differ, and so   *)
(* do the versions of one file.  Equal SHA256 digests are equal contents.  *)
(***************************************************************************)
EXTENDS Integers, FiniteSets

CONSTANTS
  Coordinators,   \* the cn nodes of cluster.toml
  Datanodes,      \* its dn nodes
  NodeRank,       \* [Nodes -> Nat]: coordinators first, in the order of cluster.toml
  FileRank,       \* [Files -> Nat]: the sorted order of the paths
  Site,           \* [Nodes -> sites]: nodes of one site share host and directories
  Files,          \* the local files that matter to this plugin
  Manifest,       \* the manifest file
  Scanned,        \* .so and .control files below source_root: listed while they exist
  SourceRoot,     \* TRUE iff source_root is a directory
  Declared,       \* install_sql, extension_files, library_files: always listed
  Suffix,         \* [Files -> {"so", "control", "sql", "other"}]
  Base,           \* [Files -> base names]
  PackageDir,     \* [Files -> directories]: package root joined with the relative parent
  OutsideRoot,    \* files that do not lie below the project root
  Versions,       \* the versions a local file may have
  Current,        \* the version the files have when the command starts
  Leftovers,      \* the contents an earlier deployment may have left on a node
  Absent,         \* content of a path that does not exist
  Torn,           \* content of a file that a copy has truncated and not completed
  Backend,        \* "ssh_scp" or "opentenbase_ctl"
  MaxWorkers,     \* size of each thread pool (8 in the code)
  MaxFaults,      \* bound: remote calls that fail
  MaxEdits        \* bound: changes of local files while the command runs

Nodes == Coordinators \union Datanodes
Batches == {"payload", "metadata"}
Commands == {"deploy", "cluster distribute"}

\* A job is <<batch, node, file>>.
Jobs == Batches \X Nodes \X Files
Batch(j) == j[1]
Node(j) == j[2]
File(j) == j[3]

PackageRoot == "package"
Sites == {Site[n] : n \in Nodes}
Directories == {"lib_dir", "extension_dir", PackageRoot}
                 \union {PackageDir[f] : f \in Files}
Names == {Base[f] : f \in Files} \union {"manifest.yml"}
Paths == Sites \X Directories \X Names
Contents == (Files \X Versions) \union {Absent, Torn}

Failures == {"unsupported", "missing_local_file", "directory_failed",
             "copy_failed", "checksum_failed", "executor_failed"}
Successes == {"distributed", "metadata_synced"}

ASSUME ConstantsAssumption ==
  /\ IsFiniteSet(Nodes) /\ IsFiniteSet(Files)
  /\ Coordinators \intersect Datanodes = {}
  /\ NodeRank \in [Nodes -> Nat] /\ FileRank \in [Files -> Nat]
  /\ Manifest \in Files /\ OutsideRoot \subseteq Files
  /\ Scanned \subseteq Files /\ Declared \subseteq Files
  /\ SourceRoot \in BOOLEAN
  /\ Suffix \in [Files -> {"so", "control", "sql", "other"}]
  /\ \A f \in Scanned : Suffix[f] \in {"so", "control"}
  /\ Current \in Versions /\ Leftovers \subseteq Contents
  /\ Absent # Torn /\ Absent \notin Versions
  /\ {Absent, Torn} \intersect (Files \X Versions) = {}
  /\ Backend \in {"ssh_scp", "opentenbase_ctl"}
  /\ MaxWorkers \in Nat \ {0} /\ MaxFaults \in Nat /\ MaxEdits \in Nat

VARIABLES
  command,    \* which of the two commands is run
  local,      \* [Files -> versions or Absent]: the operator's file system
  remote,     \* [Paths -> Contents]: the nodes' file systems
  phase,      \* where the command is
  planned,    \* the files of the plan that was printed
  pc,         \* [Jobs -> step of the job]
  digest,     \* [Jobs -> content]: local_digest of the job
  sent,       \* [Jobs -> content]: what the running copy opened, if any
  status,     \* [Jobs -> PayloadDistributionResult.status, or "none"]
  result,     \* the line printed last: "OK", "FAILED", or "none"
  faults,     \* remote calls that have failed
  edits       \* changes of local files so far

jobVars == <<pc, digest, sent, status>>
vars == <<command, local, remote, phase, planned, pc, digest, sent, status, result,
          faults, edits>>

Steps == {"none", "queued", "hash", "directory", "copy", "copying", "verify",
          "done"}
Ended == {"reported", "previewed", "blocked"}
Phases == {"start", "planned", "payload", "metadata"} \union Ended

TypeOK ==
  /\ command \in Commands
  /\ local \in [Files -> Versions \union {Absent}]
  /\ remote \in [Paths -> Contents]
  /\ phase \in Phases
  /\ planned \in SUBSET Files
  /\ pc \in [Jobs -> Steps]
  /\ digest \in [Jobs -> Contents]
  /\ sent \in [Jobs -> Contents]
  /\ status \in [Jobs -> Failures \union Successes \union {"none"}]
  /\ result \in {"none", "OK", "FAILED"}
  /\ faults \in Nat
  /\ edits \in Nat

----------------------------------------------------------------------------
(* Where files go.                                                         *)

Exists(f) == local[f] # Absent
Content(f) == <<f, local[f]>>

\* physical_payload_files: a scan of source_root, made anew at every call, and
\* the files the manifest names whether they exist or not.
PayloadFiles == {f \in Scanned : SourceRoot /\ Exists(f)} \union Declared

\* _remote_target_path: .so files in lib_dir, .control and .sql in extension_dir.
TargetDir(f) == IF Suffix[f] = "so" THEN "lib_dir" ELSE "extension_dir"

\* Mutant: the package copy goes where the payload went.
PackagePlaceInExtensionDir(f) == <<TargetDir(f), Base[f]>>

\* _sync_metadata_one and _remote_package_path: the manifest is renamed, a file
\* outside the project root goes to the package root.
PackagePlace(f) ==
  IF f = Manifest THEN <<PackageRoot, "manifest.yml">>
  ELSE <<IF f \in OutsideRoot THEN PackageRoot ELSE PackageDir[f], Base[f]>>

\* The path a job means to write, and whose checksum it asks for.
RemotePath(j) ==
  LET place == IF Batch(j) = "payload"
               THEN <<TargetDir(File(j)), Base[File(j)]>>
               ELSE PackagePlace(File(j))
  IN  <<Site[Node(j)], place[1], place[2]>>

\* Mutant: the package cache is flattened on its way.
LandingPathFlattened(j) ==
  IF Batch(j) = "metadata" THEN <<Site[Node(j)], PackageRoot, Base[File(j)]>>
  ELSE RemotePath(j)

\* The path copy_file writes.  scp is given the full path; opentenbase_ctl is
\* given the directory alone, so the file keeps its local name.
LandingPath(j) ==
  IF Backend = "opentenbase_ctl"
  THEN <<RemotePath(j)[1], RemotePath(j)[2], Base[File(j)]>>
  ELSE RemotePath(j)

----------------------------------------------------------------------------
(* The command: plan, payload pool, metadata pool, report.                 *)

Init ==
  /\ command \in Commands
  /\ local \in [Files -> {Current, Absent}]
  /\ local[Manifest] = Current          \* it has just been loaded
  /\ remote \in [Paths -> Leftovers]
  /\ phase = "start"
  /\ planned = {}
  /\ pc = [j \in Jobs |-> "none"]
  /\ digest = [j \in Jobs |-> Absent]
  /\ sent = [j \in Jobs |-> Absent]
  /\ status = [j \in Jobs |-> "none"]
  /\ result = "none"
  /\ faults = 0
  /\ edits = 0

\* Mutant: the plan does not look whether the files exist.
PlanErrorsUnseen == ~SourceRoot \/ Coordinators = {} \/ Datanodes = {}

\* build_distribution_plan(...).errors is not empty.
PlanErrors ==
  \/ ~SourceRoot
  \/ PayloadFiles = {}
  \/ Coordinators = {}
  \/ Datanodes = {}
  \/ \E f \in PayloadFiles : ~Exists(f) \/ Suffix[f] = "other"

Verdict(ok) == IF ok THEN "OK" ELSE "FAILED"

\* --dry-run: the plan is the whole run.
Preview ==
  /\ phase = "start"
  /\ phase' = "previewed"
  /\ planned' = PayloadFiles
  /\ result' = Verdict(~PlanErrors)
  /\ UNCHANGED <<command, local, remote, jobVars, faults, edits>>

\* A plan with errors blocks the execution.
Plan ==
  /\ phase = "start"
  /\ planned' = PayloadFiles
  /\ IF PlanErrors
     THEN phase' = "blocked" /\ result' = "FAILED"
     ELSE phase' = "planned" /\ UNCHANGED result
  /\ UNCHANGED <<command, local, remote, jobVars, faults, edits>>

Queue(batch, files) ==
  pc' = [j \in Jobs |-> IF Batch(j) = batch /\ File(j) \in files
                        THEN "queued" ELSE pc[j]]

\* Mutant: the pool is shut down without waiting for the running jobs.
PoolNotAwaited(batch) == \A j \in Jobs : Batch(j) = batch => pc[j] # "queued"

\* Mutant: the next phase waits for successes.
PoolDrainedWell(batch) ==
  \A j \in Jobs : Batch(j) = batch => pc[j] = "none" \/ status[j] \in Successes

\* The with-block of the pool is left when every future is done.
PoolDrained(batch) ==
  \A j \in Jobs : Batch(j) = batch => pc[j] \in {"none", "done"}

SubmitPayload ==
  /\ phase = "planned"
  /\ phase' = "payload"
  /\ Queue("payload", PayloadFiles)
  /\ UNCHANGED <<command, local, remote, planned, digest, sent, status, result, faults,
                 edits>>

\* sync_plugin_metadata_to_nodes runs whatever the payload results were.
SubmitMetadata ==
  /\ phase = "payload"
  /\ PoolDrained("payload")
  /\ phase' = "metadata"
  /\ Queue("metadata", {Manifest} \union PayloadFiles)
  /\ UNCHANGED <<command, local, remote, planned, digest, sent, status, result, faults,
                 edits>>

\* Mutant: the metadata results do not count.
PayloadSucceeded ==
  \A j \in Jobs : pc[j] = "done" /\ Batch(j) = "payload" => status[j] \in Successes

\* _distribution_errors: one result that is not ok fails the command.
AllSucceeded == \A j \in Jobs : pc[j] = "done" => status[j] \in Successes

ReportAfter(batch) ==
  /\ phase = batch
  /\ PoolDrained(batch)
  /\ phase' = "reported"
  /\ result' = Verdict(AllSucceeded)
  /\ UNCHANGED <<command, local, remote, planned, jobVars, faults, edits>>

----------------------------------------------------------------------------
(* A job: _distribute_one for the payload, _copy_with_checksum for the      *)
(* metadata.  The two take the same steps and differ in how an exception   *)
(* of the executor is reported.                                            *)

Active == {j \in Jobs : pc[j] \notin {"none", "queued", "done"}}
WorkerFree == Cardinality(Active) < MaxWorkers

Settle(j, s) ==
  /\ status' = [status EXCEPT ![j] = s]
  /\ pc' = [pc EXCEPT ![j] = "done"]

Advance(j, step) ==
  /\ pc' = [pc EXCEPT ![j] = step]
  /\ UNCHANGED status

\* One more remote call has failed.
Fault ==
  /\ faults < MaxFaults
  /\ faults' = faults + 1

\* The status of a call that returned non-zero, and of one that raised: the
\* payload job catches it, a metadata job leaves it to the pool.
FaultStatus(j, s) ==
  {s} \union (IF Batch(j) = "metadata" THEN {"executor_failed"} ELSE {})

\* The order of submission: for node in nodes, for path in files.
Earlier(k, j) ==
  \/ NodeRank[Node(k)] < NodeRank[Node(j)]
  \/ Node(k) = Node(j) /\ FileRank[File(k)] < FileRank[File(j)]

FirstQueued(j) ==
  pc[j] = "queued" /\ \A k \in Jobs : pc[k] = "queued" => ~Earlier(k, j)

\* The pool hands the first queued job to an idle thread, which looks at the file.
Start(j) ==
  /\ FirstQueued(j)
  /\ WorkerFree
  /\ CASE Batch(j) = "payload" /\ Suffix[File(j)] = "other" -> Settle(j, "unsupported")
       [] ~Exists(File(j)) -> Settle(j, "missing_local_file")
       [] OTHER -> Advance(j, "hash")
  /\ UNCHANGED <<command, local, remote, phase, planned, digest, sent, result, faults, edits>>

\* _local_sha256; the file may be gone since the job looked: the pool catches that.
Hash(j) ==
  /\ pc[j] = "hash"
  /\ IF Exists(File(j))
     THEN /\ digest' = [digest EXCEPT ![j] = Content(File(j))]
          /\ Advance(j, "directory")
     ELSE /\ Settle(j, "executor_failed")
          /\ UNCHANGED digest
  /\ UNCHANGED <<command, local, remote, phase, planned, sent, result, faults, edits>>

\* test -d and test -w (payload), mkdir -p (metadata).
CheckDirectory(j) ==
  /\ pc[j] = "directory"
  /\ Advance(j, "copy")
  /\ UNCHANGED <<command, local, remote, phase, planned, digest, sent, result, faults, edits>>

DirectoryFails(j) ==
  /\ pc[j] = "directory"
  /\ Fault
  /\ \E s \in FaultStatus(j, "directory_failed") : Settle(j, s)
  /\ UNCHANGED <<command, local, remote, phase, planned, digest, sent, result, edits>>

\* The copy opens the local file and truncates the one it writes.
BeginCopy(j) ==
  /\ pc[j] = "copy"
  /\ Exists(File(j))
  /\ Advance(j, "copying")
  /\ sent' = [sent EXCEPT ![j] = Content(File(j))]
  /\ remote' = [remote EXCEPT ![LandingPath(j)] = Torn]
  /\ UNCHANGED <<command, local, phase, planned, digest, result, faults, edits>>

\* The local file has gone since it was hashed: scp finds nothing to send.
CopyNothing(j) ==
  /\ pc[j] = "copy"
  /\ ~Exists(File(j))
  /\ Settle(j, "copy_failed")
  /\ UNCHANGED <<command, local, remote, phase, planned, digest, sent, result, faults, edits>>

\* No connection, no scp binary: nothing has been written.
CopyRefused(j) ==
  /\ pc[j] = "copy"
  /\ Fault
  /\ \E s \in FaultStatus(j, "copy_failed") : Settle(j, s)
  /\ UNCHANGED <<command, local, remote, phase, planned, digest, sent, result, edits>>

\* Another job is copying to the path that j copies to.
Contended(j) ==
  \E k \in Jobs : k # j /\ pc[k] = "copying" /\ LandingPath(k) = LandingPath(j)

\* What the finished copy leaves: what it opened, or a mixture when the local
\* file was written meanwhile or another copy has the same remote file open.
Landed(j) ==
  {sent[j]} \union (IF sent[j] # Content(File(j)) \/ Contended(j) THEN {Torn} ELSE {})

EndCopy(j) ==
  /\ pc[j] = "copying"
  /\ Advance(j, "verify")
  /\ \E c \in Landed(j) : remote' = [remote EXCEPT ![LandingPath(j)] = c]
  /\ sent' = [sent EXCEPT ![j] = Absent]
  /\ UNCHANGED <<command, local, phase, planned, digest, result, faults, edits>>

\* A time-out (return code 124) or a broken connection: the file stays torn, or
\* it was complete and only the answer is lost.
CopyBroken(j) ==
  /\ pc[j] = "copying"
  /\ Fault
  /\ Settle(j, "copy_failed")
  /\ \E c \in {Torn} \union Landed(j) : remote' = [remote EXCEPT ![LandingPath(j)] = c]
  /\ sent' = [sent EXCEPT ![j] = Absent]
  /\ UNCHANGED <<command, local, phase, planned, digest, result, edits>>

\* Mutant: the status of a metadata copy is left at that of the copy step.
SuccessOfCopy(j) == IF Batch(j) = "payload" THEN "distributed" ELSE "copied"

Success(j) == IF Batch(j) = "payload" THEN "distributed" ELSE "metadata_synced"

\* sha256sum on the node and the comparison; it fails on a path that is absent,
\* and no content has the empty digest then returned.
ChecksumMatches(j) == remote[RemotePath(j)] = digest[j]

Verify(j) ==
  /\ pc[j] = "verify"
  /\ Settle(j, IF ChecksumMatches(j) THEN Success(j) ELSE "checksum_failed")
  /\ UNCHANGED <<command, local, remote, phase, planned, digest, sent, result, faults, edits>>

VerifyFails(j) ==
  /\ pc[j] = "verify"
  /\ Fault
  /\ \E s \in FaultStatus(j, "checksum_failed") : Settle(j, s)
  /\ UNCHANGED <<command, local, remote, phase, planned, digest, sent, result, edits>>

JobStep(j) ==
  \/ Start(j) \/ Hash(j)
  \/ CheckDirectory(j) \/ DirectoryFails(j)
  \/ BeginCopy(j) \/ CopyNothing(j) \/ CopyRefused(j)
  \/ EndCopy(j) \/ CopyBroken(j)
  \/ Verify(j) \/ VerifyFails(j)

----------------------------------------------------------------------------
(* The environment: a build, a make clean or an editor at work on the      *)
(* plugin's sources while the command runs.                                *)
Edit(f) ==
  /\ phase \notin Ended
  /\ edits < MaxEdits
  /\ edits' = edits + 1
  /\ \E v \in (Versions \union {Absent}) \ {local[f]} :
       local' = [local EXCEPT ![f] = v]
  /\ UNCHANGED <<command, remote, phase, planned, jobVars, result, faults>>

DeployStep ==
  /\ command = "deploy"
  /\ Preview \/ Plan \/ SubmitPayload \/ SubmitMetadata \/ ReportAfter("metadata")

\* cmd_cluster_distribute leaves the package caches alone.
DistributeStep ==
  /\ command = "cluster distribute"
  /\ Preview \/ Plan \/ SubmitPayload \/ ReportAfter("payload")

CommandStep == DeployStep \/ DistributeStep

Next ==
  \/ CommandStep
  \/ \E j \in Jobs : JobStep(j)
  \/ \E f \in Files : Edit(f)

Spec == Init /\ [][Next]_vars

\* Every external call has a time-out of 30 or 60 seconds, and the threads and
\* the main thread are scheduled by the operating system.
FairSpec == Spec /\ WF_vars(CommandStep \/ \E j \in Jobs : JobStep(j))

----------------------------------------------------------------------------
(* Properties.                                                             *)

Delivered(j) == remote[RemotePath(j)] = Content(File(j))

\* The jobs that bring the given files to the nodes.
Due(files) ==
  {j \in Jobs :
     \/ Batch(j) = "payload" /\ File(j) \in files
     \/ Batch(j) = "metadata" /\ command = "deploy" /\ File(j) \in files \union {Manifest}}

\* "Result: OK" means that every file of the printed plan, and after `deploy` the package
\* metadata, is complete and current on every node when the command ends, provided
\* nobody changed the sources meanwhile (cmd_deploy_physical_distribution,
\* cmd_cluster_distribute).
DeployedMatchesPlan ==
  (phase = "reported" /\ result = "OK" /\ edits = 0) => \A j \in Due(planned) : Delivered(j)

\* A remote call that failed or raised, in any job of either pool, is never lost on
\* its way to the exit code (_distribute_one, the pools, _distribution_errors).
NoFaultSwallowed == (phase = "reported" /\ faults > 0) => result = "FAILED"

\* When no remote call fails and the sources stand still, an accepted plan is
\* carried out: the jobs never make each other fail.
FaultlessDeploySucceeds ==
  (phase = "reported" /\ faults = 0 /\ edits = 0) => result = "OK"

\* What a job has verified stays as verified until the command ends, even while
\* the local file is rebuilt: no later job writes there.
VerifiedCopiesStay ==
  \A j \in Jobs : status[j] \in Successes => remote[RemotePath(j)] = digest[j]

\* The command writes no path that the printed plan (or, of deploy, its metadata) does not
\* name, as long as the sources stand still after the plan.
OnlyPlannedWrites ==
  [][edits' = 0 => \A p \in Paths : remote'[p] # remote[p] =>
       \E j \in Due(planned) : p = RemotePath(j)]_vars

\* Whatever fails, the command ends and says how it ended.
EventuallyEnded == <>(phase \in Ended /\ result # "none")

----------------------------------------------------------------------------
(* The command keeps the contract of module DeployContract.                *)

Accepted == phase \in {"planned", "payload", "metadata", "reported"}

Contract == INSTANCE DeployContract WITH
  Payload <- {j \in Jobs : Batch(j) = "payload"},
  Metadata <- {j \in Jobs : Batch(j) = "metadata"},
  stage <- CASE phase = "start" -> "open"
             [] phase \in {"planned", "payload"} -> "payload"
             [] phase = "metadata" -> "metadata"
             [] OTHER -> "closed",
  owed <- IF Accepted THEN Due(planned) ELSE {},
  intact <- {j \in Jobs : Delivered(j)},
  verdict <- result

\* The detailed command implements the contract, on instances where the sources
\* stand still and no two files of a pool share a remote path.
KeepsContract == Contract!ContractSpec

=============================================================================
