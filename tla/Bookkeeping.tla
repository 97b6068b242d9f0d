----------------------------- MODULE Bookkeeping -----------------------------
(***************************************************************************)
(* What PluginCtl remembers: state.json (StateStore), a list of action     *)
(* records, and archive.json (ArchiveStore), one record per plugin.        *)
(*                                                                         *)
(* `verify`, `verify --removed`, `rollback` and `rollback --dry-run` act   *)
(* on the database, append their result to state.json and refresh the      *)
(* plugin's record in archive.json.  Both files are read whole, changed in *)
(* memory and written whole: the write truncates the file first, nothing   *)
(* is locked, and a command may be killed at any point.  A file that does  *)
(* not parse ends a command with an error (exit 2), whatever it has done   *)
(* in the database by then.                                                *)
(***************************************************************************)
EXTENDS Integers, Sequences, FiniteSets

CONSTANTS
  Commands,         \* the commands that are run
  Plugins,
  Requests,         \* the <<kind, plugin>> pairs a command may be given
  RollbackSql,      \* [Plugins -> {"undeclared", "missing", "present"}]
  SmokeScripts,     \* the plugins whose smoke SQL is there
  InstalledProbes,  \* the plugins whose manifest has an installed_probe
  RemovedProbes,    \* and a removed_probe
  Truncated,        \* content of a file that a writer has opened and not written
  Mixed,            \* content of a file that two writers, or half of one, wrote
  NoRecord,
  MaxFaults,        \* bound: SQL calls that fail
  MaxCrashes,       \* bound: commands that are killed
  MaxRegistrations  \* bound: registrations of a plugin by somebody else

Kinds == {"verify", "verify --removed", "rollback", "rollback --dry-run"}
Actions == {"verify", "rollback"}

\* A StateRecord: plugin and action are those of the command that wrote it.
Records == [by : Commands, ok : BOOLEAN]
Latest == [Actions -> Records \union {NoRecord}]
Statuses == {"unknown", "installed", "not_installed", "removed"}
ArchiveRecords == [status : Statuses, latest : Latest]

Unreadable == {Truncated, Mixed}
Archives == [Plugins -> ArchiveRecords \union {NoRecord}]

ASSUME BookkeepingAssumption ==
  /\ Requests \subseteq Kinds \X Plugins
  /\ RollbackSql \in [Plugins -> {"undeclared", "missing", "present"}]
  /\ SmokeScripts \subseteq Plugins
  /\ InstalledProbes \subseteq Plugins /\ RemovedProbes \subseteq Plugins
  /\ Truncated # Mixed
  /\ Unreadable \intersect (Seq(Records) \union Archives) = {}
  /\ NoRecord \notin Records \union ArchiveRecords
  /\ MaxFaults \in Nat /\ MaxCrashes \in Nat /\ MaxRegistrations \in Nat

VARIABLES
  installed,      \* [Plugins -> are the plugin's objects in the database?]
  session,        \* [Commands -> what the server does about its rollback SQL]
  log,            \* state.json: a sequence of records, or unreadable
  archive,        \* archive.json: a record per plugin, or unreadable
  request,        \* [Commands -> <<kind, plugin>>]
  cmd,            \* [Commands -> the command's place and local variables]
  written,        \* ghost: the commands whose record has been written
  overlapped,     \* ghost: the commands whose append overlapped another's
  concurrent,     \* ghost: two commands have kept their books at the same time
  rolledBack,     \* ghost: the plugins whose rollback SQL has run
  faults, crashes, registrations

database == <<installed, session, rolledBack, registrations>>
files == <<log, archive, written, overlapped, concurrent>>
bounds == <<faults, crashes>>
vars == <<database, files, request, cmd, bounds>>

Kind(c) == request[c][1]
Plugin(c) == request[c][2]
Action(c) == IF Kind(c) \in {"verify", "verify --removed"} THEN "verify" ELSE "rollback"

Places == {"start", "execute", "waiting", "record", "append", "write", "probe",
           "latest", "metadata", "archive", "upsert", "store", "passed", "failed",
           "error", "killed"}
Ended == {"passed", "failed", "error", "killed"}

TypeOK ==
  /\ installed \in [Plugins -> BOOLEAN]
  /\ session \in [Commands -> {"none", "running", "done", "broken"}]
  /\ log \in Seq(Records) \union Unreadable
  /\ archive \in Archives \union Unreadable
  /\ request \in [Commands -> Requests]
  /\ cmd \in [Commands -> [at : Places, ok : BOOLEAN, log : Seq(Records),
                           probed : Statuses, latest : Latest, archive : Archives]]
  /\ written \subseteq Commands /\ overlapped \subseteq Commands
  /\ concurrent \in BOOLEAN
  /\ rolledBack \subseteq Plugins
  /\ faults \in Nat /\ crashes \in Nat /\ registrations \in Nat

Init ==
  /\ installed \in [Plugins -> BOOLEAN]
  /\ session = [c \in Commands |-> "none"]
  /\ log = <<>>
  /\ archive = [p \in Plugins |-> NoRecord]
  /\ request \in [Commands -> Requests]
  /\ cmd = [c \in Commands |->
              [at |-> "start", ok |-> FALSE, log |-> <<>>, probed |-> "unknown",
               latest |-> [a \in Actions |-> NoRecord],
               archive |-> [p \in Plugins |-> NoRecord]]]
  /\ written = {} /\ overlapped = {} /\ rolledBack = {}
  /\ concurrent = FALSE
  /\ faults = 0 /\ crashes = 0 /\ registrations = 0

----------------------------------------------------------------------------
(* The action itself.                                                      *)

At(c, place) == cmd[c].at = place
Goto(c, place) == cmd' = [cmd EXCEPT ![c].at = place]

\* The ActionResult, which is recorded next whether it is good or bad.
Finish(c, ok) == cmd' = [cmd EXCEPT ![c].at = "record", ![c].ok = ok]

Fault ==
  /\ faults < MaxFaults
  /\ faults' = faults + 1

\* What `verify` runs is declared and there; otherwise it raises, and exits with 2.
Verifiable(c) ==
  \/ Kind(c) = "verify" /\ Plugin(c) \in SmokeScripts
  \/ Kind(c) = "verify --removed" /\ Plugin(c) \in RemovedProbes

\* run_smoke_verify and run_removed_verify: the SQL tells whether the plugin's objects
\* are there.
RunVerify(c) ==
  /\ At(c, "start")
  /\ Action(c) = "verify"
  /\ IF Verifiable(c)
     THEN Finish(c, installed[Plugin(c)] = (Kind(c) = "verify"))
     ELSE Goto(c, "error")
  /\ UNCHANGED <<database, files, request, bounds>>

\* rollback_plugin up to its first SQL: no script, or a plan only.
PlanRollback(c) ==
  /\ At(c, "start")
  /\ Action(c) = "rollback"
  /\ CASE RollbackSql[Plugin(c)] # "present" -> Finish(c, FALSE)
       [] Kind(c) = "rollback --dry-run" -> Finish(c, TRUE)
       [] OTHER -> Goto(c, "execute")
  /\ UNCHANGED <<database, files, request, bounds>>

\* The verification SQL or SELECT 1 fails or times out.
SqlFails(c) ==
  /\ (At(c, "start") /\ Verifiable(c)) \/ At(c, "execute")
  /\ Fault
  /\ Finish(c, FALSE)
  /\ UNCHANGED <<database, files, request, crashes>>

\* psql or docker is not found, when the action or the diagnosis after it starts it:
\* _run catches time-outs only, and the command exits with 2.
ClientMissing(c) ==
  /\ (At(c, "start") /\ Verifiable(c)) \/ At(c, "execute") \/ At(c, "probe")
  /\ Fault
  /\ Goto(c, "error")
  /\ UNCHANGED <<database, files, request, crashes>>

\* SELECT 1 was answered; psql -c sends the whole rollback script.
SendRollback(c) ==
  /\ At(c, "execute")
  /\ Goto(c, "waiting")
  /\ session' = [session EXCEPT ![c] = "running"]
  /\ UNCHANGED <<installed, rolledBack, registrations, files, request, bounds>>

RollbackAnswered(c) ==
  /\ At(c, "waiting")
  /\ session[c] \in {"done", "broken"}
  /\ Finish(c, session[c] = "done")
  /\ UNCHANGED <<database, files, request, bounds>>

\* Mutant: the script is taken to have run when psql is killed.
RollbackTimesOutWell(c) ==
  /\ At(c, "waiting")
  /\ faults' = faults + 1
  /\ Finish(c, TRUE)
  /\ UNCHANGED <<database, files, request, crashes>>

\* psql is killed after 10 seconds (return code 124); the script may still run.
RollbackTimesOut(c) ==
  /\ At(c, "waiting")
  /\ faults' = faults + 1
  /\ Finish(c, FALSE)
  /\ UNCHANGED <<database, files, request, crashes>>

----------------------------------------------------------------------------
(* record_action_result: StateStore.append.                                *)

\* The commands that have read state.json and not yet written it.
Appending == {c \in Commands : cmd[c].at \in {"append", "write"}}

\* The commands between their first read of state.json and their verdict.
Booking == {c \in Commands : cmd[c].at \notin {"start", "execute", "waiting", "record"} \union Ended}

\* Mutant: an unreadable file is taken for an empty one.
ReadLogForgiving(c) ==
  /\ At(c, "record")
  /\ cmd' = [cmd EXCEPT ![c].at = "append",
                        ![c].log = IF log \in Unreadable THEN <<>> ELSE log]
  /\ UNCHANGED <<database, files, request, bounds>>

ReadLog(c) ==
  /\ At(c, "record")
  /\ IF log \in Unreadable
     THEN Goto(c, "error") /\ UNCHANGED overlapped
     ELSE /\ cmd' = [cmd EXCEPT ![c].at = "append", ![c].log = log]
          /\ overlapped' = overlapped \union
                             (IF Appending = {} THEN {} ELSE Appending \union {c})
  /\ concurrent' = (concurrent \/ Booking # {})
  /\ UNCHANGED <<database, log, archive, written, request, bounds>>

\* Mutant: every record starts a new list.
AppendedAlone(c) == <<[by |-> c, ok |-> cmd[c].ok]>>

\* Mutant: the record does not say how the action ended.
AppendedMute(c) == Append(cmd[c].log, [by |-> c])

Appended(c) == Append(cmd[c].log, [by |-> c, ok |-> cmd[c].ok])

TruncateLog(c) ==
  /\ At(c, "append")
  /\ Goto(c, "write")
  /\ log' = Truncated
  /\ UNCHANGED <<database, archive, written, overlapped, concurrent, request, bounds>>

\* Another writer's text, if there is any, may stick out behind one's own.
Landed(old, new) == {new} \union (IF old = Truncated THEN {} ELSE {Mixed})

WriteLog(c) ==
  /\ At(c, "write")
  /\ Goto(c, "probe")
  /\ log' \in Landed(log, Appended(c))
  /\ written' = written \union {c}
  /\ UNCHANGED <<database, archive, overlapped, concurrent, request, bounds>>

----------------------------------------------------------------------------
(* refresh_archive: diagnose_plugin, build_archive_record, upsert.         *)

\* installed_state; a probe that fails reads as one that finds nothing.
Probe(c) ==
  /\ At(c, "probe")
  /\ cmd' = [cmd EXCEPT ![c].at = "latest",
                        ![c].probed = IF Plugin(c) \notin InstalledProbes THEN "unknown"
                                      ELSE IF installed[Plugin(c)] THEN "installed"
                                      ELSE "not_installed"]
  /\ UNCHANGED <<database, files, request, bounds>>

ProbeFails(c) ==
  /\ At(c, "probe")
  /\ Plugin(c) \in InstalledProbes
  /\ Fault
  /\ cmd' = [cmd EXCEPT ![c].at = "latest", ![c].probed = "not_installed"]
  /\ UNCHANGED <<database, files, request, crashes>>

\* latest_actions: for each action, the last record of the plugin.
Mine(records, p, a) ==
  {i \in DOMAIN records : Plugin(records[i].by) = p /\ Action(records[i].by) = a}

Last(records, p, a) ==
  {i \in Mine(records, p, a) : \A j \in Mine(records, p, a) : j <= i}

LatestActions(records, p) ==
  [a \in Actions |-> IF Last(records, p, a) = {} THEN NoRecord
                     ELSE records[CHOOSE i \in Last(records, p, a) : TRUE]]

ReadLatest(c) ==
  /\ At(c, "latest")
  /\ IF log \in Unreadable
     THEN Goto(c, "error")
     ELSE cmd' = [cmd EXCEPT ![c].at = "metadata",
                             ![c].latest = LatestActions(log, Plugin(c))]
  /\ UNCHANGED <<database, files, request, bounds>>

\* state.json is read a second time, for the runtime metadata.
ReadMetadata(c) ==
  /\ At(c, "metadata")
  /\ Goto(c, IF log \in Unreadable THEN "error" ELSE "archive")
  /\ UNCHANGED <<database, files, request, bounds>>

ReadArchive(c) ==
  /\ At(c, "archive")
  /\ IF archive \in Unreadable
     THEN Goto(c, "error")
     ELSE cmd' = [cmd EXCEPT ![c].at = "upsert", ![c].archive = archive]
  /\ UNCHANGED <<database, files, request, bounds>>

\* Mutant: the word of the log is taken for the state of the database.
ArchiveStatusUnprobed(c) ==
  LET rollback == cmd[c].latest["rollback"]
  IN  IF rollback # NoRecord /\ rollback.ok THEN "removed" ELSE cmd[c].probed

ArchiveStatus(c) ==
  LET rollback == cmd[c].latest["rollback"]
  IN  IF cmd[c].probed = "not_installed" /\ rollback # NoRecord /\ rollback.ok
      THEN "removed" ELSE cmd[c].probed

\* Mutant: the other plugins' records are not kept.
UpsertedAlone(c) ==
  [p \in Plugins |-> IF p = Plugin(c) THEN [status |-> ArchiveStatus(c), latest |-> cmd[c].latest]
                     ELSE NoRecord]

Upserted(c) ==
  [cmd[c].archive EXCEPT ![Plugin(c)] =
     [status |-> ArchiveStatus(c), latest |-> cmd[c].latest]]

TruncateArchive(c) ==
  /\ At(c, "upsert")
  /\ Goto(c, "store")
  /\ archive' = Truncated
  /\ UNCHANGED <<database, log, written, overlapped, concurrent, request, bounds>>

\* The verdict is printed last.
WriteArchive(c) ==
  /\ At(c, "store")
  /\ Goto(c, IF cmd[c].ok THEN "passed" ELSE "failed")
  /\ archive' \in Landed(archive, Upserted(c))
  /\ UNCHANGED <<database, log, written, overlapped, concurrent, request, bounds>>

----------------------------------------------------------------------------
(* A command that is killed leaves a file it was writing empty, or half    *)
(* written; the database goes on with what it was sent.                    *)
Killed(c) ==
  /\ cmd[c].at \notin Ended
  /\ crashes < MaxCrashes
  /\ crashes' = crashes + 1
  /\ Goto(c, "killed")
  /\ log' \in {log} \union (IF At(c, "write") THEN {Mixed} ELSE {})
  /\ archive' \in {archive} \union (IF At(c, "store") THEN {Mixed} ELSE {})
  /\ UNCHANGED <<database, written, overlapped, concurrent, request, faults>>

(* The database server. *)
RollbackRuns(c) ==
  /\ session[c] = "running"
  /\ session' = [session EXCEPT ![c] = "done"]
  /\ installed' = [installed EXCEPT ![Plugin(c)] = FALSE]
  /\ rolledBack' = rolledBack \union {Plugin(c)}
  /\ UNCHANGED <<registrations, files, request, cmd, bounds>>

RollbackBreaks(c) ==
  /\ session[c] = "running"
  /\ Fault
  /\ session' = [session EXCEPT ![c] = "broken"]
  /\ UNCHANGED <<installed, rolledBack, registrations, files, request, cmd, crashes>>

\* `register`, which leaves no record, or CREATE EXTENSION by hand.
Register(p) ==
  /\ ~installed[p]
  /\ registrations < MaxRegistrations
  /\ registrations' = registrations + 1
  /\ installed' = [installed EXCEPT ![p] = TRUE]
  /\ UNCHANGED <<session, rolledBack, files, request, cmd, bounds>>

Step(c) ==
  \/ RunVerify(c) \/ PlanRollback(c) \/ SqlFails(c) \/ ClientMissing(c)
  \/ SendRollback(c) \/ RollbackAnswered(c) \/ RollbackTimesOut(c)
  \/ ReadLog(c) \/ TruncateLog(c) \/ WriteLog(c)
  \/ Probe(c) \/ ProbeFails(c) \/ ReadLatest(c) \/ ReadMetadata(c)
  \/ ReadArchive(c) \/ TruncateArchive(c) \/ WriteArchive(c)

Next ==
  \/ \E c \in Commands : Step(c) \/ Killed(c) \/ RollbackRuns(c) \/ RollbackBreaks(c)
  \/ \E p \in Plugins : Register(p)

Spec == Init /\ [][Next]_vars

----------------------------------------------------------------------------
(* Properties.                                                             *)

\* A record that was written stays, once and as it was written, as long as state.json
\* can be read, unless its command overlapped another one's append: later commands,
\* killed ones and failed ones among them, take it along (StateStore.append).
RecordsKept ==
  log \notin Unreadable =>
    \A c \in written \ overlapped : \E i \in DOMAIN log :
      /\ log[i] = [by |-> c, ok |-> cmd[c].ok]
      /\ \A j \in DOMAIN log : log[j].by = c => j = i

\* An unreadable state.json is never replaced by a fresh one: once its writers have
\* left, no command gets as far as to write it again, and what it held can still be
\* repaired by hand (StateStore._read raises on what does not parse).
Quarantined == log \in Unreadable /\ Appending = {}

UnreadableStays == [][Quarantined => Quarantined' /\ log' = log]_vars

\* When commands run one after the other, none is killed and none that left a record
\* exits before its verdict, archive.json shows for every plugin the latest actions of
\* state.json (refresh_archive).
Quiet == \A c \in Commands : cmd[c].at \in {"start"} \union Ended

ArchiveFollowsLog ==
  (Quiet /\ ~concurrent /\ crashes = 0 /\ \A c \in written : ~At(c, "error")) =>
    /\ log \notin Unreadable /\ archive \notin Unreadable
    /\ \A p \in Plugins :
         LatestActions(log, p) =
           IF archive[p] = NoRecord THEN [a \in Actions |-> NoRecord] ELSE archive[p].latest

\* If, besides, no SQL call fails and nobody else registers the plugin, the status in
\* archive.json is that of the database: the check archive_vs_runtime passes.
ArchiveMatchesDatabase ==
  (Quiet /\ ~concurrent /\ crashes = 0 /\ faults = 0 /\ registrations = 0) =>
    \A p \in InstalledProbes :
      archive[p] # NoRecord => (archive[p].status = "installed") = installed[p]

\* A rollback that is reported as passed has run its script and left its record.
PassedRollbackRan ==
  \A c \in Commands :
    (Kind(c) = "rollback" /\ At(c, "passed")) => (session[c] = "done" /\ c \in written)

\* A plugin that archive.json calls removed has been rolled back (the status is
\* "removed" when the probe finds nothing and the latest rollback is good).
RemovedMeansRolledBack ==
  archive \notin Unreadable =>
    \A p \in Plugins :
      (archive[p] # NoRecord /\ archive[p].status = "removed") => p \in rolledBack

----------------------------------------------------------------------------
(* The commands keep the books of module Books.  An append and an upsert   *)
(* are entered when they are written, and until then the file is what its  *)
(* writer has read of it.                                                  *)

\* No two commands have kept the books at once, and a file that cannot be read is just
\* being written.
Unspoilt ==
  /\ ~concurrent
  /\ log \in Unreadable => \E c \in Commands : At(c, "write")
  /\ archive \in Unreadable => \E c \in Commands : At(c, "store")

EntriesKept ==
  IF \E c \in Commands : At(c, "write")
  THEN cmd[CHOOSE c \in Commands : At(c, "write")].log ELSE log

ShownIn(a) ==
  [p \in Plugins |-> IF a[p] = NoRecord THEN [b \in Actions |-> NoRecord] ELSE a[p].latest]

ShownKept ==
  ShownIn(IF \E c \in Commands : At(c, "store")
          THEN cmd[CHOOSE c \in Commands : At(c, "store")].archive ELSE archive)

TheBooks == INSTANCE Books WITH
  NoEntry <- NoRecord,
  entries <- EntriesKept,
  shown <- ShownKept,
  orders <- [c \in Commands |-> [plugin |-> Plugin(c), action |-> Action(c)]],
  kept <- Unspoilt

\* Every behaviour of the commands is one of Books.
KeepsBooks == TheBooks!BooksSpec

=============================================================================
