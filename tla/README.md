# PluginCtl in TLA+

PluginCtl (`plugin_ctl`) manages extensions of an OpenTenBase cluster from an operator's machine: it copies
a plugin's files to the coordinators and datanodes (`deploy`), creates the extension (`register`), checks
the result (`verify`, `check`), undoes it (`rollback`), and keeps records of what it did. This directory
holds TLA+ models of the parts of it that have control worth checking, TLC configurations that check them on
small instances, and theorems about them, proved with TLAPS for every value of the constants. Sources are
cited relative to `src/src/plugin_ctl/`.

## 1. Inventory

PluginCtl has no daemon. Every command is a process of its own (or one dispatch in the interactive shell),
so what interacts is commands of several operators, the threads of one command, the cluster, the database
servers, and the people who edit and build plugins while commands run. The shared state is: the plugin's own
files, the file systems of the nodes, `pg_extension` of each coordinator, and four files of its own,
`state.json`, `archive.json`, `catalog.json` and `cluster.toml`, which are read whole and written whole
without a lock.

| Component | State | Operations | What is hard | What makes it correct |
|---|---|---|---|---|
| deploy (`distribution.py`, `cli.py:1340-1411`, `runtime/opentenbase.py:15-216`) | remote files; results per job | plan, preview, payload pool, metadata pool, verdict | eight threads, each a chain of ssh/scp calls; calls that fail half-way; sources that change meanwhile; nodes that share a host | OK means every planned file is on every node; no failure is lost; nothing else is written |
| register (`activation.py`, `cli.py:1485-1620`) | `pg_extension` on the coordinators | precheck, CREATE EXTENSION on the primary, version queries elsewhere | answers lost to time-outs while the server goes on; concurrent registrations; DROP by others | OK means created, uniformly; a lost answer is never OK; commands do not all fail each other |
| verify, rollback and their books (`verify.py`, `rollback.py`, `state_store.py`, `plugin_archive.py`, `plugin_governance.py`) | `state.json`, `archive.json`, the plugin's objects in the database | verify, verify --removed, rollback, rollback --dry-run | lost updates, torn files, a kill between effect and record, psql killed while its SQL runs | records are not lost; a torn file is never overwritten; the archive says what the database says |
| verify with a cluster file (`distributed_verify.py`) | none of its own | connectivity, extension versions, file checksums, prepared transactions | questions asked at different times by pools of threads, about things that change | the verdict: exact if nothing changes, never blind to a lasting defect or a failed question |
| check (`plugin_health.py`) | none of its own | package, records, cluster, extension, probes, final status | a status condensed from things seen at different times, and from records of the past | each status means what it says of the cluster |
| shell and user catalog (`shell.py`, `catalog.py`, `cli.py:388-408,489-518,1746-1861`) | `catalog.json`, the package cache, the line being worked on | preview, question, dispatch; add, remove, the registration `deploy` makes, `load_one` | a preview and a run that load separately; several shells; manifests that are edited; torn catalog | what runs is what was previewed; add and remove do what they report |
| lint, plan, precheck, diagnose, roles, consistency (`plugin_package.py`, ...) | none | read-only rules | — | string and file rules; those that decide `check` are in HealthCheck |
| cluster configuration (`cluster.py:90-255`, `opentenbase_ctl_backend.py`, `cli.py:411-434,640-725`) | `cluster.toml`, in the working directory or the home directory | init: the choice between `opentenbase_ctl` and psql, their fallbacks, the merge of what both say, the write; every other command: find, load | two sources that may disagree and fail; a file written while others read it or write it; two places of which one hides the other | nodes get their own ports; `auto` finds whatever answers; no command works on half a cluster; an init takes effect |
| build (`build.py`, `cli.py:564-585`) | the plugin's folder: objects, library | the choice of pg_config, PGXS, `make clean`, `make`, the look at the library | builds of one folder at once, edits meanwhile, a `clean` that fails unseen, a `cluster.toml` that is being written | a completed build has built the present sources, for the server that was meant |
| cluster distribute (`cli.py:878-983`) | remote files | the plan and the payload pool of `deploy`, without metadata | as deploy | as deploy; the package caches stay as they are |
| templates (`dev_init.py`), assessment (`source_assess.py`), doctor, reports, messages (`i18n/`) | none | — | — | text generation and rendering |

Calls between the parts: `init` writes the `cluster.toml` that `build` (ClusterInit, Build) and every
command with nodes to ask load; `build` makes the library that `deploy` copies; `deploy` first registers a
path in the catalog (Console) and then distributes (Distribution); `verify` and `rollback` write the books
(Bookkeeping); `check` asks the questions of `verify -f` (HealthCheck extends DistributedVerify) and reads
the books; the shell dispatches all of them.

## 2. Modules and their order

| Module | Models | Role |
|---|---|---|
| `Distribution` | `deploy` and `cluster distribute`: plan, preview, both pools, the steps of `_distribute_one` and `_sync_metadata_one`, both transports | core; written first |
| `DeployContract` | what the two promise: deliveries owed, intact, a verdict | abstract specification, implemented by `Distribution` |
| `Registration` | `register`/`activate` of several operators, and the servers | second |
| `RegistrationContract` | what the commands promise of the extension: each creates it at most once, and answers well only of what it was told | abstract specification, implemented by `Registration` |
| `Bookkeeping` | verify/rollback and `state.json`, `archive.json` | third |
| `Books` | what the two files promise: entries that only grow, a view of the newest of each plugin, until they are spoilt | abstract specification, implemented by `Bookkeeping` |
| `DistributedVerify` | `verify -f` | fourth |
| `HealthCheck` | `check`, EXTENDS `DistributedVerify` | composition of the questions, the package, the records and the probes |
| `ClusterInit` | `init`: discovery, merge and write of `cluster.toml`; how other commands find and load it | fifth |
| `Build` | `build`, EXTENDS `ClusterInit` | composition: builds are the commands that load the configuration |
| `Console` | the shell and the user catalog | composition at the level of whole commands |
| `UserCatalog` | what the lines typed at shells promise of the catalog: one entry changed at once, by whom and when | abstract specification, implemented by `Console` |
| `MC*` | instances for TLC | constants, small sets, narrowed initial states |
| `*_proofs` | theorems and proofs | one per specification module; `HealthCheck_proofs` and `Build_proofs` extend the proofs of the module they compose |

No module that is proved about uses a RECURSIVE operator; each declares its assumptions on the constants
with `ASSUME`, which the runs evaluate.

## 3. How the models correspond to the code

**Distribution.** A *job* is a batch (payload or metadata), a node and a file. `Plan` is the command up to
the printed plan; `SubmitPayload` and `SubmitMetadata` hand the jobs to the pools (the list of files is made
anew each time, as `physical_payload_files` is called anew); `WorkerFree`/`FirstQueued` are the
`ThreadPoolExecutor`; `Start`, `Hash`, `CheckDirectory`, `BeginCopy`, `EndCopy`, `Verify` are the calls of a
job, each an action of its own because other jobs run between them. `BeginCopy` opens the local file and
truncates the remote one, `EndCopy` completes it. Each remote call may fail (`DirectoryFails`,
`CopyRefused`, `CopyBroken`, `VerifyFails`) as often as `MaxFaults` allows; `Edit` is an editor or a build
changing a local file, bounded by `MaxEdits`. `DeployStep` and `DistributeStep` put these together as
`cmd_deploy_physical_distribution` and `cmd_cluster_distribute` do: the second has no metadata, and
`command` says which of the two is run. `ReportAfter` is the summary and the exit code. A content is
`<<file, version>>`, and equal digests are taken for equal contents. `LandingPath` is where the transport
really puts a file, `RemotePath` where the code thinks it is: they differ for `opentenbase_ctl scp`, which
is given a directory only. `Site` gives nodes that share a host the same file system.

**DeployContract.** The refinement mapping in `Distribution` reads `stage` off the phase, `owed` off the
accepted plan, `intact` off the nodes' files and `verdict` off the result. The contract lets deliveries come
and go while the command works, but not after it has ended, keeps payload and metadata apart in time, and
allows OK only if everything owed is intact.

**Registration.** One action per statement of `_run_register_precheck` and `execute_activation`. A CREATE
EXTENSION is *sent*, may take effect on the primary, spreads to the other coordinators in any order, and its
answer comes, is an error, or never comes; the command does not know which. The concurrent queries of
`_query_versions` are answered in any order. The database is external: it is modelled by what the code
relies on. `execute_activation` sends a bare CREATE EXTENSION IF NOT EXISTS and takes no lock, and the
server's look whether the extension exists takes none either. So the look (`CreateLooks`, `CreateSkips`) and
the insertion (`CreateOnPrimary`) are separate actions: several sessions may find nothing, the row on the
primary is unique, and those that come second get an error with no fault involved (`CreateCollides`). Their
commands print FAILED although the extension ends up everywhere; one that asks the others while the winner
is still spreading may fail as well. `RefusedForAReason` says what is left of the promise: in a sound
database a command is refused only because of another one that is not refused itself and that creates or has
created the extension. It rests on one thing of the server: its row on the primary is what a CREATE
EXTENSION inserts first. A server that began with the other coordinators could let two sessions block each
other there until both time out, which counts as a fault here.

**RegistrationContract.** In the refinement mapping, `where` is the coordinators that have the extension,
and `status` reads off a command's recorded CREATE and its result how far it has come. `pending` is the
commands that may still create the extension (`MayCreate`): those whose statement has yet to be sent, and
those whose statement the server has not carried out, even if psql was killed and the command has reported a
failure. The contract takes a command out of `pending` once and never back, lets an answer be good only
after the extension was on the primary or every coordinator was asked and confirmed it, and turns a lost
command into a failed one in every case.

**Bookkeeping.** Each command is a sequence of places (`Places`): its SQL, the read of `state.json`, the
truncation, the write, the probe, the two reads of the log for the archive record, the read, truncation and
write of `archive.json`. `ActionResult` becomes a record `[by, ok]`. `Truncated` and `Mixed` stand for files
that do not parse: emptied by a writer, or written by two at once or by half of one. `ClientMissing` is psql
or docker not being found, which the code does not catch: exit 2.

**Books.** In the refinement mapping of `Bookkeeping`, the entries are the records of `state.json`, or those
that the command which is writing it will put there (`EntriesKept`), and what is shown is the latest actions
in `archive.json`, or those it will show (`ShownKept`). The books are `Unspoilt` as long as no two commands
have kept them at once and a file that cannot be read is just being written; after that the contract
promises nothing, as `_read` and `_write` do without a lock. The mapping leaves the database, the failures
and the kills out: they may end a command before its entry, or between its entry and what is shown, but not
put anything else into the books.

**DistributedVerify.** A question is a kind, a node and a file; `answer` is the status the code records for
it. The four stages follow each other; within a stage all questions of the pool (for files: at most
`MaxWorkers`) are open at once, and `ChangeFile`/`ChangeNode` change the world between any two. `lasting` is
a ghost: the defects that have been there since the start without a break. Changes may go on after the
report; `VerdictExact` is about those that did not.

**HealthCheck.** The items that can decide the final status are kept, one per section; `FinalStatus` is the
chain of `_final_status` in its order. The smoke SQL and the removed probe run on `Home`. While the check
runs, verify and rollback commands of others may leave new records (`Record`). The check's own failing calls
and these records are counted apart from the failures and changes of `DistributedVerify`, so that every
behaviour of `CheckSpec` is one of its `Spec`: what is checked and proved of the verdict holds of the verify
inside a check.

**ClusterInit.** `Begin`, `Help`, `AskStatus` and `AskLocal` are the order in which
`_discover_cluster_for_init` tries its sources: a help text that names the subcommands suffices, otherwise
`available` asks for the status, which `status` then asks for again; each config file that exists is tried
until one is accepted; `auto` falls back to psql at three local ports. `AskPrimary` is psql at the first
coordinator that the status prints. An entry `<<n, m>>` of the written file is node n with the port of node
m: `Merged` pairs what both sources say by position after sorting, as `_merge_ctl_and_sql_topology` does,
which compares numbers and not names. `Open` truncates the file, `Write` fills it; a configuration is taken
to be smaller than one write buffer (8 KiB, some sixty nodes), so that it appears at once. `Truncated` does
not load, `Mixed` (two writers at once) may or may not. `Find` and `Load` are `find_cluster_config` and
`load_cluster_config` of any other command. What `opentenbase_ctl` and each `pgxc_node` know (`listed`,
`pgxc`) need not agree and may change (`Resize`).

**Build.** The builders are the readers of `ClusterInit`. `PgConfigs` is what `resolve_pg_config` may
return: the manifest's, that of the installation in `cluster.toml` if it is on this machine, or the one in
`PATH`. `make` and the compiler are external, and modelled by their rule: the object and the library are
made if missing or older than what they are made from (`outdated`). `Compile` and `Link` are the two halves
of one `make`, between which another build's `make clean` may come. `alone` is a ghost: the builds whose
clean worked and during which neither another build nor an editor was at work.

**Console.** A typed line goes through `run`, `open`, `write`, `load`, `act`; lines that need confirmation
go through them twice, first as a dry run. `Source(p)` is what `load_one` finds: built-in, then entries in
the order of their ids, each by what its manifest *now* declares, then the package cache. What a command
does in the cluster is in the other modules; here it succeeds or fails. `quiet` is a ghost: the shells whose
surroundings nobody else has touched since their line was typed.

**UserCatalog.** The lines that change the catalog take effect when they empty the file: `EntriesNow` is the
catalog or, while it is being written, what its writer will leave. A line is `asked` until then and `done`
afterwards, and a preview that ended well is `shown` until the user answers. `intact` stands for
`Undivided`: nobody is about to write a copy that is out of date, or writes what another is writing, and an
empty file has a writer. The contract promises nothing of a catalog that is not intact, but says who may
have spoilt it: another line that was asked to change it at the same time, or one that was killed between
truncation and write. A line that only reads, a preview, an answer or a foreign edit never spoils it. A
catalog that is not intact may become so again, with whatever entries are then in the file.

`PROJECT.json` maps each definition to its lines. Actions of other parties (servers, editors, other
commands) are marked external there.

## 4. The runs

| Run | Bounds | What it shows |
|---|---|---|
| `deploy` | either command, 2 hosts, 3 files (scanned library, install SQL, manifest), 2 workers, 1 fault, 1 edit | type, `DeployedMatchesPlan`, `NoFaultSwallowed`, `FaultlessDeploySucceeds`, `VerifiedCopiesStay`, `OnlyPlannedWrites` |
| `deploy_one_host` | either command, 2 nodes on 1 host, 2 files, stale leftovers, 1 fault | `EventuallyEnded` and the refinement `KeepsContract` |
| `register` | 2 executed commands and a dry run, 2 coordinators, 2 versions, 1 fault, 1 drop | `CreatedMeansUniform`, `OkMeansRegistered`, `RefusedForAReason` (a race has a winner), liveness `AllAnswered` and the refinement `KeepsContract` |
| `books` | 2 commands, any of 7 requests each, 1 fault, 1 kill, 1 foreign registration | `RecordsKept`, `UnreadableStays`, `ArchiveFollowsLog`, `ArchiveMatchesDatabase`, `PassedRollbackRan` |
| `check` | 2 coordinators, 1 datanode, a library and a script, 2 workers, 2 contents, 2 versions, any configuration and record; 1 failing call, change or record | `StatusOfFit`, `RegisteredWasServed`, `DeployedWasSeen`, `RemovedWasGone`; of the verify inside, `VerdictExact`, `FaultsReported`, `LastingDefectsReported` |
| `prepare` | 2 coordinators and 2 datanodes, printed in another order than sorted; 7 requests of init, 5 manifests, 3 installations, 2 config files to try, 3 local ports; an init and a build on any view of the cluster, or, on a sound one, two and one of either; 1 failing call, edit, kill or change | `PortsMatchNodes`, `AutoFindsWhatAnswers`, `LoadedIsWhole`, `InitTakesEffect`, `GoodBuildIsFresh` |
| `console` | 2 shells, 3 lines of 7 kinds, 2 folders, 3 ids (1 built in), 1 edit, 1 kill | `ActsAsPreviewed`, `DeploysNamedFolder`, `AddedIsFound`, `RemovedIsGone`, `UnreadableStays` |

Why these bounds: every hazard listed in `PROJECT.json` needs at most two actors and one disturbance between
two of their steps; two workers suffice for two jobs to be anywhere in their chains at the same time, two
nodes for a shared host, two versions for a mismatch, two nodes of a role for two orders of them, three
lines for an add, a remove and a preview that interfere. Deadlock is not checked, because a command that has
ended stops. The theorems of section 6 show that most of the properties hold beyond the bounds.

Five runs show a disagreement between the code and its documentation; each is a counterexample of TLC:

| Run | What happens |
|---|---|
| `deploy_colocated` | a coordinator and a datanode on one host: a checksum is computed while the other worker's copy has truncated the file, and a deployment fails without any failing call |
| `deploy_plugin_yml` | a plugin with `plugin.yml` and the `opentenbase_ctl` transport: the manifest lands as `plugin.yml`, its checksum is asked for as `manifest.yml`, every deployment fails |
| `books_preview` | `rollback --dry-run` is recorded as a good rollback, and the archive calls a plugin removed that nobody has rolled back |
| `check_deployed` | a file query that fails counts as neither missing nor stale: DEPLOYED is said of files that are not there |
| `check_priority` | an old failed rollback record outweighs a sound registration: BROKEN |

More situations are premises of the properties rather than runs of their own. Two files of one base name
under `source_root` share a remote path, so that OK is printed although only the later one is there
(`NamesDistinct`). A manifest that was renamed to another plugin's id may be deployed in its place (`edits =
0` in `DeploysNamedFolder`). And what is confirmed may differ from what was previewed if another shell
writes the catalog while the user thinks (`quiet` in `ActsAsPreviewed`), and even without one if the
argument is both an id and the name of a folder in the current directory and a manifest was changed before
(`edits = 0 \/ Arg(s) \notin DOMAIN Here`): the preview cannot load a catalog with a broken manifest, takes
the name for the folder's, and by entering that folder may replace the broken entry; the confirmed run then
loads the catalog and finds another plugin under the name. An `--opentenbase-ctl` that is no program raises
`FileNotFoundError`, which `auto` does not catch, though README.md:84 has init fall back (`ctl # "misnamed"`
in `AutoFindsWhatAnswers`). A `cluster.toml` in the working directory hides the one in the home directory
that init has just written (`InitTakesEffect`). Sources that name as many nodes but not the same, or by
names that sort differently, are merged into wrong pairs (`NamesAgree`, `told = rows`). And `build` ignores
the return code of `make clean`, so that a library of another server may be called built (`alone`). The
shell neither previews nor confirms `activate`, `cluster distribute` and `init`; README.md:153 speaks of
"modifying commands".

Each property of a passing run has a mutant: a definition of the model changed as a plausible bug would
change the code (`Mutant:` in the modules), under which TLC finds the property violated.

## 5. Fairness

Two liveness properties are checked, under weak fairness of the command's own steps only. In `Distribution`,
`CommandStep \/ \E j : JobStep(j)`: as long as some thread can go on, some thread does; every ssh, scp and
ctl call has a time-out (`ScpSshRemoteExecutor._run`, `OpenTenBaseCtlRemoteExecutor._run`), so no step is
disabled for ever. In `Registration`, each command's steps: they are processes of different operators, and
psql is killed at its time-out, so that a command never waits for the server for ever. Nothing is assumed of
the database, of editors or of users. No liveness is claimed of verify and rollback in docker mode, where
the search for psql has no time-out.

## 6. What is proved

All proofs are in `*_proofs.tla` and rest on the modules' `ASSUME`s only, plus the premises named.

* `Distribution_proofs`: the inductive invariant is `IInv == Core /\ Held`. `Core` is `TypeOK` with
  `Coherent` (which places go with which phase and status), `Covered` (every file of the plan has its jobs)
  and `Fresh` (a digest is the current content unless something was edited); `Held` says that a finished
  good job's content is at its remote path, and what a running copy may have done to it.
  `DeployedMatchesPlan` alone is not inductive: it says nothing before the report. `NamesKept` (the
  transport puts files where the code thinks), `NamesDistinct` (one path, one file and batch) and
  `PathsApart` (one path, one job) are premises on the constants, each broken by one of the disagreements
  above. Further parts: `FaultsSeen` for `NoFaultSwallowed`, `Announced` for `OnlyPlannedWrites`, `Smooth`
  for `FaultlessDeploySucceeds`. `ContractKept` is the refinement: initial states map to initial states,
  each step to a contract step or a stutter. Two further theorems are what liveness rests on: each step
  leaves less `Work` (calls of jobs that are left, phases, edits that may come), and `NeverStuck`: before
  the end a job has a call to make, or a worker is free and a job is first in the queue, or the pool is
  drained. The second needs that a queue has a first job and that a worker is free when nobody is active.
* `Registration_proofs`: `Core` relates a command's place to what it has recorded and what the server does;
  on it rest `LostAnswersReported` (a CREATE EXTENSION that failed or was not answered is never reported as
  OK), `CreationUniform` and `RegistrationOnPrimary`. `CommandsComeToEnd` counts the steps that a command
  has left, at most six and one for each coordinator: it has none left exactly when it has printed, its own
  steps lower the number, and no server step and no other command raises it. `ContractKept` is the
  refinement of `RegistrationContract`. Its invariant `Flights` adds `InFlight`: a statement is out only of
  an executed command, to a primary that has the control file, from the moment it is sent until its answer;
  a command that was told `registered`, or has printed OK, has none. Hence `AnswersFinal`
  (`AnsweredForGood`): what a command that printed OK has started is over, so that an extension that appears
  late is always some failed command's. `RefusalsJustified` adds `Race` to `Flights`: in a calm database,
  whenever the primary has the extension some command `Wins` (it is spreading it, or was answered and sees
  one version wherever it asks), and whoever was answered at all was answered after that.
* `Bookkeeping_proofs`: `LogInv` adds to `RecordsKept` that a command between read and write carries all
  kept records (`Carried`) and that overlapping appends know of each other (`OverlapKnown`); `RollbackInv`
  follows a rollback from its session to its verdict; `UnreadableUntouched` needs the type invariant only.
  For commands that run one after the other, `FilesKept` says that whoever keeps the books is alone with
  both files, and that a file that cannot be read is being written. On it rest `FollowInv` (how far a
  command has come with its own plugin; all others' latest actions are in the archive already; the lemma
  `LatestOfOthers` says that an appended record changes those of its own plugin only) and `MatchInv` (a
  status differs from the database only while a command that has rolled the plugin back has yet to look or
  to write). `RecordsKept` says of a record that it stands in the log once and as it was written. Three
  theorems go beyond the runs. `BooksGenuine` (`NothingMadeUp`): overlapping commands lose records but never
  make one up, double one or book it under another plugin; its invariant says the same of whatever a command
  carries between its read and its write. `RemovalsForAReason`: the dry run that `books_preview` shows is
  the only way to a plugin wrongly called removed. `BooksKept`: `Bookkeeping` implements `Books`, which
  needs all of the above: that whoever writes the log writes the entries kept and its own, once, and that
  whoever writes the archive shows the newest entries of its plugin, which others' entries do not change.
* `DistributedVerify_proofs`: `Orderly` (stages and answers), `FaultsKept`, `Judged` (what the verdict was
  computed from), `Watched` (a lasting defect's answer is open or bad), `Refused` and `Truthful` (an answer
  tells the truth as long as nothing has changed). `VerifyWorkShrinks` and `VerifyNeverStuck` do for verify
  what `WorkShrinks` and `CommandNeverStuck` do for a deployment.
* `HealthCheck_proofs`: `ChecksVerify` shows that a check refines `DistributedVerify`, which brings the
  verdict's theorems along (`ChecksVerifyWell`). `Seen` ties the items to the answers they were condensed
  from, `LastingSighted` says that a lasting defect's question was answered truly or not yet (as long as no
  call fails), `BooksSeen` and `RemovedSeen` that the records and the probe still hold if nothing was
  recorded or changed, and `CalmSeen` follows a fit plugin that nobody touches through all sections, on top
  of the invariant of `DistributedVerify`. `DeployedMeansDistributed` fails for the questions that are not
  answered; `DeployedSeen` holds because its premise excludes just those, and `DeployedIfAsked` says that it
  does hold as long as no call fails. Likewise `PriorityOfRegistered` bounds what `check_priority` shows: a
  registration decides the status unless the latest rollback failed. `CheckComesToEnd` extends the measure
  of verify by the sections.
* `ClusterInit_proofs`: `Typed` adds to the types which of an init's variables are set at which place,
  `ViewsMerged` that what will be written is the merge of what was told; `PortsMatched` then needs that
  sorting the same nodes by the same names twice pairs each with itself. `Whole` says of each file, as long
  as no two writers met, that it is truncated by a writer at work or one that was killed, or holds what one
  init wrote whole. `Effective` follows the only writer: it has landed its file, its readers start later and
  find it. `AllTried` counts the sources that an undisturbed init has asked in vain. `EveryNodeOnce` needs
  no premise on the names: `Viewed` says what will be written is what one source said or the merge of both,
  and the merge pairs the nodes of each role one to one, because `PlacesTaken`: the places of n nodes, each
  the number of those before it, are exactly 0 to n - 1. So wrong names may swap ports (`PortsMatchNodes`),
  but never leave a node out, double one or change its role; `LoadedNodesOnce` carries that to the commands
  that load the file. `InitsComeToEnd` counts an init's steps: at most seven and two for each config file.
* `Build_proofs`: builds only read what inits write (`BuildsOnlyRead`), so that the properties of
  `ClusterInit` hold of the composition (`ClusterStaysSound`). `FreshRead` (what was loaded is what the file
  still holds, unless it was opened again), `ResolvedWell` (the server is one that `PgConfigs` allows) and
  `AloneMakes` (an undisturbed build has made what it has made so far from the present sources) give
  `GoodBuildFresh`. `BuildsComeToEnd` counts a build's steps, its search for `cluster.toml` included: at
  most nine, and nobody else's step adds one.
* `Console_proofs`: every property of `Console`, for any number of shells, plugins, folders and lines.
  `Typed` is `TypeOK` with `Busy` (a shell at work has a line and a plugin) and suffices for
  `UnreadableStays`. `EntryInv` adds `Faithful` (as long as no manifest was changed, each entry, and each
  one about to be written, is under the id its folder declares, and none under a built-in one) and
  `Progress` (how far a shell that nobody disturbs has come with the entry it adds or removes);
  `DeploysNamedFolder`, `AddedIsFound` and `RemovedIsGone` follow. `PreviewInv` adds `Asked` and `Repeats`
  for `ActsAsPreviewed`: a preview ends `Settled`, that is, entering the folder again would change nothing,
  so that the second run goes through the same catalog, though it truncates and rewrites the file on its
  way. `CatalogKept` is the refinement of `UserCatalog`, for any interference, edits and kills included. Its
  invariant adds to `PreviewInv` only that none but the changing verbs write, and that a preview comes
  before the yes (`Dutiful`); the work is in the steps that empty the file (`OpenChanges`: either it was
  intact, and one entry changes as the line says, or a rival is to blame) and that fill it (`WriteKeeps`:
  the entries are those promised when it was emptied).

## 7. What is only model-checked, and what is not modelled

Only checked by TLC: the liveness properties `EventuallyEnded` and `AllAnswered` (fairness and ENABLED are
outside the prover's reach). What they rest on is proved: that a command has boundedly many steps to take,
and, of `deploy`, `verify -f` and `check`, that there is always one it can take; the inference from these by
fairness is left to the runs.

The other way round, some theorems are of properties that no run checks: `NothingMadeUp`,
`RemovedForAReason`, `KeepsBooks`, `KeepsCatalog`, `AnsweredForGood`, `EachNodeOnce`, `LoadedOnce` and the
measures. They add to a run a property whose neighbours it checks already. `LostAnswerReported` is implied
by the `KeepsContract` that `register` checks. `KeepsBooks`, `KeepsCatalog` and `EachNodeOnce` were checked
on instances like those of `books`, `console` (two lines, 2.8 million states) and `prepare`, with names that
sort differently, before they were proved.

Not modelled: wording, tables, JSON layout and languages; text rules of lint, assessment and precheck; the
parsing of what `opentenbase_ctl`, psql and cluster.toml say (which nodes they name is an input); templates
(`new`, `dev init`), which write text files into a new directory; `cluster status` and `cluster inspect`,
which only print; doctor and the source assessment; `deploy.py`, which nothing calls. In the models that
exist, the following is abstracted: SHA256 as equality of contents; several reads of unchanging files as
one; the catalog and its manifests are loaded in one step; manifests that raise something other than
`ManifestError`; kept output of time-outs that is bytes rather than text; a `cluster.toml` larger than one
write buffer; what `make` does beyond its rule of missing and older files.

## 8. Plan

Done: the modules of section 2, their runs, and the proofs of section 6. Next, in this order:

1. two deployments of one plugin at once;
2. verify with no coordinator in the configuration (an instance of `DistributedVerify` of its own);
3. a composition of `Console` and `Distribution`: a deployment by path, from the catalog to the nodes, on
   top of `UserCatalog` and `DeployContract`.
