------------------------------- MODULE Console -------------------------------
(***************************************************************************)
(* The interactive shell (run_shell) and the user catalog it works on.     *)
(*                                                                         *)
(* catalog.json maps the id of each plugin a user has added to a folder;   *)
(* the plugin itself is whatever manifest is in that folder when a command *)
(* loads it.  A plugin may also be built in, or only be known from the     *)
(* metadata that a deployment has left under packages/.  The shell runs    *)
(* `deploy`, `register` and `rollback` twice: with --dry-run for the       *)
(* preview and, if the user agrees, again, and each run loads the catalog  *)
(* anew.  Several shells share the files and nothing is locked.  What a    *)
(* command does in the cluster is in Distribution, Registration and        *)
(* Bookkeeping; here it succeeds or fails.                                 *)
(***************************************************************************)
EXTENDS Integers, FiniteSets

CONSTANTS
  Shells,
  Ids,              \* plugin ids: the catalog is sorted by them
  Builtins,         \* the ids of the built-in plugins
  Folders,          \* folders a plugin may be in
  Here,             \* [some of Ids -> Folders]: folders of that name where the shell runs
  Lines,            \* the <<command, argument>> pairs that are typed
  FirstManifests,   \* the contents the folders may have at first
  FirstPackages,    \* the ids earlier deployments may have left under packages/
  Builtin, Package, \* where a plugin comes from, if not from a folder
  None,             \* no manifest, no entry, no plugin
  Broken,           \* a manifest that does not load (ManifestError)
  Truncated,        \* catalog.json, opened by a writer and not written
  Mixed,            \* catalog.json, half written or written by two
  MaxLines,         \* bound: lines typed, over all shells
  MaxEdits,         \* bound: manifests changed by their authors
  MaxKills          \* bound: shells killed

Confirmed == {"deploy", "register", "rollback"}
Verbs == Confirmed \union {"activate", "add", "remove"}
Manifests == [Folders -> Ids \union {None, Broken}]
Catalogs == [Ids -> Folders \union {None}]
Unreadable == {Truncated, Mixed}
Sources == Folders \union {Builtin, Package, None}

ASSUME ConsoleAssumption ==
  /\ Ids \subseteq Nat /\ Builtins \subseteq Ids
  /\ Ids \intersect Folders = {}
  /\ Lines \subseteq ({"add", "deploy"} \X Folders) \union ((Verbs \ {"add"}) \X Ids)
  /\ FirstManifests \subseteq Manifests /\ FirstPackages \subseteq Ids
  /\ DOMAIN Here \subseteq Ids /\ \A p \in DOMAIN Here : Here[p] \in Folders
  /\ None \notin Lines /\ None \notin Ids \union Folders /\ Broken \notin Ids \union {None}
  /\ {Builtin, Package} \intersect (Folders \union {None}) = {} /\ Builtin # Package
  /\ Truncated # Mixed /\ Unreadable \intersect Catalogs = {}
  /\ MaxLines \in Nat /\ MaxEdits \in Nat /\ MaxKills \in Nat

VARIABLES
  manifest,   \* [Folders -> the id its manifest declares, None or Broken]
  catalog,    \* catalog.json: [Ids -> Folders or None], or unreadable
  packages,   \* the ids under packages/
  shell,      \* [Shells -> the shell's place and the local variables of its command]
  quiet,      \* ghost: the shells whose surroundings are as when their line was typed
  typed, edits, kills

vars == <<manifest, catalog, packages, shell, quiet, typed, edits, kills>>
bounds == <<typed, edits, kills>>

Places == {"prompt", "run", "open", "write", "uncache", "load", "act", "confirm", "left"}

TypeOK ==
  /\ manifest \in Manifests
  /\ catalog \in Catalogs \union Unreadable
  /\ packages \subseteq Ids
  /\ shell \in [Shells -> [at : Places, line : Lines \union {None}, ok : BOOLEAN,
                           dry : BOOLEAN, agreed : BOOLEAN, plugin : Ids \union {None},
                           catalog : Catalogs, source : Sources, previewed : Sources]]
  /\ quiet \subseteq Shells
  /\ typed \in Nat /\ edits \in Nat /\ kills \in Nat

NoEntries == [p \in Ids |-> None]

Init ==
  /\ manifest \in FirstManifests
  /\ catalog = NoEntries
  /\ packages \in SUBSET FirstPackages
  /\ shell = [s \in Shells |->
                [at |-> "prompt", line |-> None, ok |-> FALSE, dry |-> FALSE, agreed |-> FALSE,
                 plugin |-> None, catalog |-> NoEntries, source |-> None, previewed |-> None]]
  /\ quiet = {}
  /\ typed = 0 /\ edits = 0 /\ kills = 0

At(s, place) == shell[s].at = place
Verb(s) == shell[s].line[1]
Arg(s) == shell[s].line[2]
Goto(s, place) == shell' = [shell EXCEPT ![s].at = place]

----------------------------------------------------------------------------
(* The catalog as a command loads it.                                      *)

\* The entries whose manifest exists; the others are passed over.
Listed == {i \in Ids : catalog[i] # None /\ manifest[catalog[i]] # None}

\* One manifest that does not load makes the catalog fail for every plugin.
Loads ==
  /\ catalog \notin Unreadable
  /\ \A i \in Listed : manifest[catalog[i]] # Broken

Declaring(p) == {i \in Listed : manifest[catalog[i]] = p}

\* Mutant: what a deployment has left goes before what the user has added.
SourcePackageFirst(p) ==
  CASE p \in Builtins -> Builtin
    [] p \notin Builtins /\ p \in packages -> Package
    [] OTHER -> IF Declaring(p) = {} THEN None
                ELSE catalog[CHOOSE i \in Declaring(p) : \A j \in Declaring(p) : i <= j]

\* The first manifest that declares p: a built-in one, one of the user's entries in the
\* order of their ids, or one under packages/.
Source(p) ==
  CASE p \in Builtins -> Builtin
    [] p \notin Builtins /\ Declaring(p) # {} ->
         catalog[CHOOSE i \in Declaring(p) : \A j \in Declaring(p) : i <= j]
    [] OTHER -> IF p \in packages THEN Package ELSE None

Found(p) == Loads /\ Source(p) # None

----------------------------------------------------------------------------
(* A line and its end.                                                     *)

\* Whatever s changes, the other shells no longer have quiet surroundings.
Disturb(s) == quiet' = quiet \intersect {s}

NeedsConfirmation(line) == line[1] \in Confirmed

Type(s, line) ==
  /\ At(s, "prompt")
  /\ typed < MaxLines
  /\ typed' = typed + 1
  /\ shell' = [shell EXCEPT ![s] = [at |-> "run", line |-> line, ok |-> FALSE,
                                    dry |-> NeedsConfirmation(line), agreed |-> FALSE,
                                    plugin |-> None, catalog |-> NoEntries,
                                    source |-> None, previewed |-> None]]
  /\ quiet' = quiet \union {s}
  /\ UNCHANGED <<manifest, catalog, packages, edits, kills>>

\* Mutant: a preview that fails is followed by the question all the same.
EndsAnyhow(s, ok) ==
  shell' = [shell EXCEPT ![s].at = IF shell[s].dry THEN "confirm" ELSE "prompt",
                         ![s].ok = ok,
                         ![s].catalog = NoEntries,
                         ![s].previewed = IF shell[s].dry /\ ok THEN shell[s].source
                                          ELSE shell[s].previewed]

\* The dispatched command has ended: its exit code or exception goes no further than
\* the shell's loop, and a preview that fails ends the line.
Ends(s, ok) ==
  shell' = [shell EXCEPT ![s].at = IF shell[s].dry /\ ok THEN "confirm" ELSE "prompt",
                         ![s].ok = ok,
                         ![s].catalog = NoEntries,
                         ![s].previewed = IF shell[s].dry /\ ok THEN shell[s].source
                                          ELSE shell[s].previewed]

----------------------------------------------------------------------------
(* The commands.                                                           *)

\* Mutant: an entry that is there is left as it is.
EnteredOnce(p, f) == IF catalog[p] = None THEN [catalog EXCEPT ![p] = f] ELSE catalog

Entered(p, f) == [catalog EXCEPT ![p] = f]

\* Mutant: a catalog that does not parse counts as an empty one.
AddUserPluginForgiving(s, f) ==
  LET p == manifest[f]
  IN  IF p \in {None, Broken} \union Builtins
      THEN Ends(s, FALSE)
      ELSE shell' = [shell EXCEPT ![s].at = "open", ![s].plugin = p,
                       ![s].catalog = IF catalog \in Unreadable THEN [NoEntries EXCEPT ![p] = f]
                                      ELSE Entered(p, f)]

\* Mutant: the manifest is entered as it is.
AddUserPluginUnloaded(s, f) ==
  LET p == manifest[f]
  IN  IF p \in Builtins \/ catalog \in Unreadable
      THEN Ends(s, FALSE)
      ELSE shell' = [shell EXCEPT ![s].at = "open", ![s].plugin = p,
                                  ![s].catalog = Entered(p, f)]

\* add_user_plugin up to the write: the manifest must load and its id not be built in,
\* and the catalog must parse.
AddUserPlugin(s, f) ==
  LET p == manifest[f]
  IN  IF p \in {None, Broken} \union Builtins \/ catalog \in Unreadable
      THEN Ends(s, FALSE)
      ELSE shell' = [shell EXCEPT ![s].at = "open", ![s].plugin = p,
                                  ![s].catalog = Entered(p, f)]

\* ensure_plugin_registered: a path is added; a name is looked up and, if it cannot be
\* loaded for whatever reason, taken for a folder's.
RunDeploy(s) ==
  CASE Arg(s) \in Folders -> AddUserPlugin(s, Arg(s))
    [] Arg(s) \notin Folders /\ ~Found(Arg(s)) /\ Arg(s) \in DOMAIN Here ->
         AddUserPlugin(s, Here[Arg(s)])
    [] OTHER -> shell' = [shell EXCEPT ![s].at = "load", ![s].plugin = Arg(s)]

\* user_plugin_entry and remove_user_plugin: only what is in catalog.json.
RunRemove(s) ==
  IF catalog \in Unreadable \/ catalog[Arg(s)] = None
  THEN Ends(s, FALSE)
  ELSE shell' = [shell EXCEPT ![s].at = "open", ![s].plugin = Arg(s),
                              ![s].catalog = [catalog EXCEPT ![Arg(s)] = None]]

Run(s) ==
  /\ At(s, "run")
  /\ CASE Verb(s) = "add" -> AddUserPlugin(s, Arg(s))
       [] Verb(s) = "remove" -> RunRemove(s)
       [] Verb(s) = "deploy" -> RunDeploy(s)
       [] OTHER -> shell' = [shell EXCEPT ![s].at = "load", ![s].plugin = Arg(s)]
  /\ UNCHANGED <<manifest, catalog, packages, quiet, bounds>>

\* _write_user_catalog: the file is emptied, then written.
OpenCatalog(s) ==
  /\ At(s, "open")
  /\ Goto(s, "write")
  /\ catalog' = Truncated
  /\ Disturb(s)
  /\ UNCHANGED <<manifest, packages, bounds>>

WriteCatalog(s) ==
  /\ At(s, "write")
  /\ catalog' \in {shell[s].catalog} \union (IF catalog = Truncated THEN {} ELSE {Mixed})
  /\ CASE Verb(s) = "add" -> Ends(s, TRUE)
       [] Verb(s) = "remove" -> Goto(s, "uncache")
       [] OTHER -> Goto(s, "load")
  /\ Disturb(s)
  /\ UNCHANGED <<manifest, packages, bounds>>

\* Mutant: the plugin is only taken out of the catalog.
RemovePackageCacheNever(s) ==
  /\ At(s, "uncache")
  /\ Ends(s, TRUE)
  /\ Disturb(s)
  /\ UNCHANGED <<manifest, catalog, packages, bounds>>

RemovePackageCache(s) ==
  /\ At(s, "uncache")
  /\ packages' = packages \ {shell[s].plugin}
  /\ Ends(s, TRUE)
  /\ Disturb(s)
  /\ UNCHANGED <<manifest, catalog, bounds>>

\* load_one, with which every command on a plugin begins.
LoadOne(s) ==
  /\ At(s, "load")
  /\ IF Found(shell[s].plugin)
     THEN shell' = [shell EXCEPT ![s].at = "act", ![s].source = Source(shell[s].plugin)]
     ELSE Ends(s, FALSE)
  /\ UNCHANGED <<manifest, catalog, packages, quiet, bounds>>

\* The command's own work, or its plan.  A deployment may have a node on this machine,
\* where it leaves the plugin's metadata under packages/.
Act(s) ==
  /\ At(s, "act")
  /\ \E ok \in BOOLEAN : Ends(s, ok)
  /\ IF Verb(s) = "deploy" /\ ~shell[s].dry
     THEN packages' \in {packages, packages \union {shell[s].plugin}} /\ Disturb(s)
     ELSE UNCHANGED <<packages, quiet>>
  /\ UNCHANGED <<manifest, catalog, bounds>>

----------------------------------------------------------------------------
(* The user, the authors of the plugins, the operating system.             *)

\* `y` runs the line, anything else drops it.
Answer(s) ==
  /\ At(s, "confirm")
  /\ \/ shell' = [shell EXCEPT ![s].at = "run", ![s].agreed = TRUE, ![s].dry = FALSE]
     \/ shell' = [shell EXCEPT ![s].at = "prompt", ![s].ok = FALSE]
  /\ UNCHANGED <<manifest, catalog, packages, quiet, bounds>>

\* quit, or Ctrl-C or the end of the input at the prompt.  At the question neither is
\* caught: the shell ends there, too.
Leave(s) ==
  /\ At(s, "prompt") \/ At(s, "confirm")
  /\ Goto(s, "left")
  /\ UNCHANGED <<manifest, catalog, packages, quiet, bounds>>

\* A shell that is killed may leave the catalog empty or half written.
Killed(s) ==
  /\ ~At(s, "left")
  /\ kills < MaxKills
  /\ kills' = kills + 1
  /\ Goto(s, "left")
  /\ catalog' \in {catalog} \union (IF At(s, "write") THEN {Mixed} ELSE {})
  /\ Disturb(s)
  /\ UNCHANGED <<manifest, packages, typed, edits>>

Edit(f, content) ==
  /\ edits < MaxEdits
  /\ edits' = edits + 1
  /\ manifest[f] # content
  /\ manifest' = [manifest EXCEPT ![f] = content]
  /\ quiet' = {}
  /\ UNCHANGED <<catalog, packages, shell, typed, kills>>

Step(s) ==
  \/ \E line \in Lines : Type(s, line)
  \/ Run(s) \/ OpenCatalog(s) \/ WriteCatalog(s) \/ RemovePackageCache(s)
  \/ LoadOne(s) \/ Act(s) \/ Answer(s) \/ Leave(s)

Next ==
  \/ \E s \in Shells : Step(s) \/ Killed(s)
  \/ \E f \in Folders, content \in Ids \union {None, Broken} : Edit(f, content)

Spec == Init /\ [][Next]_vars

----------------------------------------------------------------------------
(* Properties.                                                             *)

\* A command that asks first acts on the cluster only after a preview that went well
\* and a yes, and, if nobody else touched the catalog or a manifest meanwhile, on the
\* plugin files the preview was about: the second run finds them again (run_shell).  A
\* name that is also a folder's may be taken for either if a manifest was ever changed:
\* the preview may have repaired a catalog that did not load.
ActsAsPreviewed ==
  \A s \in Shells :
    (At(s, "act") /\ Verb(s) \in Confirmed /\ ~shell[s].dry) =>
      /\ shell[s].agreed /\ shell[s].previewed # None
      /\ (s \in quiet /\ (edits = 0 \/ Arg(s) \notin DOMAIN Here)) =>
           shell[s].source = shell[s].previewed

\* `deploy <path>` deploys the plugin in that folder, whatever was added under its id
\* before, as long as no manifest was ever changed and nobody interferes
\* (ensure_plugin_registered, load_one).
DeploysNamedFolder ==
  \A s \in Shells :
    (At(s, "act") /\ Verb(s) = "deploy" /\ s \in quiet /\ edits = 0 /\ Arg(s) \in Folders) =>
      shell[s].source = Arg(s)

\* What `add` reports as added is what a command on that plugin will load.
Ended(s, verb) == At(s, "prompt") /\ shell[s].ok /\ Verb(s) = verb /\ s \in quiet

AddedIsFound ==
  \A s \in Shells :
    (Ended(s, "add") /\ edits = 0) =>
      Found(shell[s].plugin) /\ Source(shell[s].plugin) = Arg(s)

\* A plugin that `remove` reports as removed can no longer be loaded, from its folder or
\* from what its deployments have left, if no manifest was ever changed (cmd_remove).
RemovedIsGone ==
  \A s \in Shells : (Ended(s, "remove") /\ edits = 0) => ~Found(Arg(s))

\* A catalog that cannot be read is not replaced by a new one: once its writers are gone,
\* no command gets as far as to write it (_read_user_catalog raises).
Quarantined ==
  catalog \in Unreadable /\ \A s \in Shells : ~At(s, "open") /\ ~At(s, "write")

UnreadableStays == [][Quarantined => Quarantined' /\ catalog' = catalog]_vars

----------------------------------------------------------------------------
(* What module UserCatalog promises, the shells and the file keep.         *)

\* The folder that a line enters.
Target(s) == IF Arg(s) \in Folders THEN Arg(s) ELSE Here[Arg(s)]

\* What s is about to write is catalog.json with its own change.
Fresh(s) ==
  /\ catalog \in Catalogs
  /\ IF Verb(s) = "remove"
     THEN /\ catalog[Arg(s)] # None
          /\ shell[s].catalog = [catalog EXCEPT ![Arg(s)] = None]
     ELSE shell[s].catalog = [catalog EXCEPT ![shell[s].plugin] = Target(s)]

\* Nobody writes a stale copy or a file that somebody else is writing, and who empties the
\* file is there to fill it.
Undivided ==
  /\ \A s \in Shells : At(s, "open") => Fresh(s)
  /\ \A s \in Shells : At(s, "write") =>
       /\ catalog = Truncated
       /\ \A r \in Shells \ {s} : ~At(r, "write")
  /\ catalog \in Unreadable => \E s \in Shells : At(s, "write")

\* An entry is made or dropped when its writer empties the file.
EntriesNow ==
  IF catalog \in Catalogs THEN catalog
  ELSE IF \E s \in Shells : At(s, "write")
  THEN shell[CHOOSE s \in Shells : At(s, "write")].catalog
  ELSE NoEntries

StatusOf(s) ==
  CASE At(s, "prompt") -> IF shell[s].line = None THEN "idle"
                          ELSE IF shell[s].ok THEN "ok" ELSE "failed"
    [] shell[s].at \in {"run", "open"} -> "asked"
    [] shell[s].at \in {"write", "uncache", "load", "act"} -> "done"
    [] At(s, "confirm") -> "shown"
    [] At(s, "left") -> "gone"

TheCatalog == INSTANCE UserCatalog WITH
  Elsewhere <- {Builtin, Package},
  entries <- EntriesNow,
  line <- [s \in Shells |-> shell[s].line],
  status <- [s \in Shells |-> StatusOf(s)],
  agreed <- [s \in Shells |-> shell[s].agreed],
  loaded <- [s \in Shells |-> shell[s].source],
  intact <- Undivided

\* Every behaviour of the shells is one of UserCatalog.
KeepsCatalog == TheCatalog!CatalogSpec

=============================================================================
