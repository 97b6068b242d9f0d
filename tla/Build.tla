-------------------------------- MODULE Build --------------------------------
(***************************************************************************)
(* `plugin_ctl build`, composed with ClusterInit, for one plugin whose     *)
(* folder several builds share.                                            *)
(*                                                                         *)
(* A build finds pg_config: the one the manifest names, or that of the     *)
(* installation cluster.toml describes, or the one in PATH; it asks it     *)
(* for PGXS, runs `make clean`, whose return code it ignores, and `make`,  *)
(* and at last looks whether the library is there.                         *)
(*                                                                         *)
(* What make and the compiler do is external: clean removes the object     *)
(* and the library, and make makes each of the two if it is missing or     *)
(* older than what it is made from.                                        *)
(***************************************************************************)
EXTENDS ClusterInit

CONSTANTS
  Manifests,       \* what the manifests of the builds may say: [type, pg_config]
  Installed,       \* the servers whose bin directory has a pg_config
  InPath           \* the server whose pg_config is in PATH or else at the default place, or None

Builders == Readers
Binaries == [version : Nat, server : Servers]

ASSUME BuildAssumption ==
  /\ Manifests \subseteq [type : {"sql", "c", "other"}, pg_config : {"auto"} \union Servers]
  /\ None \notin Manifests /\ None \notin Servers /\ None \notin Binaries
  /\ "auto" \notin Servers
  /\ Installed \subseteq Servers /\ InPath \in Servers \union {None}

VARIABLES
  source,      \* the version of the plugin's C sources; 0: some are missing
  object,      \* the object file, or None
  library,     \* the library, or None
  outdated,    \* which of the two are older than what they are made from
  builder,     \* [Builders -> its place and local variables]
  alone,       \* ghost: the builds whose clean worked and whom nobody has disturbed
  mishaps      \* failing calls of builds and edits of the sources

folder == <<source, object, library, outdated>>
buildVars == <<folder, builder, alone, mishaps>>
vars == <<clusterVars, buildVars>>

BuildSteps == {"start", "resolve", "pgxs", "clean", "compile", "link", "artifact", "skipped",
               "ok", "failed"}

BuildTypeOK ==
  /\ TypeOK
  /\ source \in Nat
  /\ object \in Binaries \union {None} /\ library \in Binaries \union {None}
  /\ outdated \subseteq {"object", "library"}
  /\ builder \in [Builders -> [at : BuildSteps, manifest : Manifests \union {None},
                               pg_config : Servers \union {None}]]
  /\ alone \subseteq Builders
  /\ mishaps \in Nat

\* A library that is there was once built by make, for any server, or by hand.
BuildInit ==
  /\ Init
  /\ source \in {0, 1}
  /\ object = None
  /\ library \in {None} \union [version : {0}, server : Servers]
  /\ outdated \in SUBSET {"library"}
  /\ builder \in [Builders -> [at : {"start"}, manifest : Manifests \union {None},
                               pg_config : {None}]]
  /\ alone = {} /\ mishaps = 0

----------------------------------------------------------------------------
(* build_plugin.                                                           *)

BuilderAt(b, step) == builder[b].at = step
BuilderGoto(b, step) == builder' = [builder EXCEPT ![b].at = step]

Running == {b \in Builders : ~(builder[b].at \in {"start", "skipped", "ok", "failed"})}

SourcesMissing == source = 0

\* cmd_build up to resolve_pg_config.
BeginBuild(b) ==
  LET manifest == builder[b].manifest
  IN  /\ BuilderAt(b, "start") /\ manifest # None
      /\ BuilderGoto(b, CASE manifest.type = "sql" -> "skipped"
                          [] manifest.type = "other" \/ SourcesMissing -> "failed"
                          [] OTHER -> "resolve")
      /\ alone' = IF Running = {} THEN {b} ELSE {}
      /\ UNCHANGED <<clusterVars, folder, mishaps>>

\* `auto` looks for cluster.toml.
LookForCluster(b) ==
  /\ BuilderAt(b, "resolve") /\ builder[b].manifest.pg_config = "auto"
  /\ Find(b) \/ Load(b)
  /\ UNCHANGED buildVars

UsableServers(config) ==
  IF config = Mixed THEN Installed
  ELSE IF config = None THEN {} ELSE {config.server} \intersect Installed

\* resolve_pg_config; a configuration that cannot be loaded, or whose installation is not on
\* this machine, leaves pg_config to PATH.
PgConfigs(b) ==
  LET named == builder[b].manifest.pg_config
      config == reader[b].config
  IN  IF named # "auto" THEN {s \in {named} : s \in Installed}
      ELSE IF UsableServers(config) = {} THEN {InPath}
      ELSE UsableServers(config) \union (IF config = Mixed THEN {InPath} ELSE {})

\* Mutant: a search in vain is not noticed.
ResolveUnchecked(b) ==
  /\ BuilderAt(b, "resolve")
  /\ (builder[b].manifest.pg_config # "auto"
        \/ reader[b].at \in {"loaded", "rejected", "missing"})
  /\ \E s \in IF PgConfigs(b) = {} THEN {None} ELSE PgConfigs(b) :
       builder' = [builder EXCEPT ![b].at = "pgxs", ![b].pg_config = s]
  /\ UNCHANGED <<clusterVars, folder, alone, mishaps>>

Resolve(b) ==
  /\ BuilderAt(b, "resolve")
  /\ (builder[b].manifest.pg_config # "auto"
        \/ reader[b].at \in {"loaded", "rejected", "missing"})
  /\ \/ \E s \in PgConfigs(b) \ {None} :
          builder' = [builder EXCEPT ![b].at = "pgxs", ![b].pg_config = s]
     \/ /\ PgConfigs(b) \ {None} = {}
        /\ BuilderGoto(b, "failed")
  /\ UNCHANGED <<clusterVars, folder, alone, mishaps>>

Mishap ==
  /\ mishaps < MaxDisturbances
  /\ mishaps' = mishaps + 1

\* It fails if there is no PGXS; a missing make ends the build with as little effect.
Pgxs(b) ==
  /\ BuilderAt(b, "pgxs")
  /\ \/ BuilderGoto(b, "clean") /\ UNCHANGED mishaps
     \/ BuilderGoto(b, "failed") /\ Mishap
  /\ UNCHANGED <<clusterVars, folder, alone>>

\* Mutant: there is no `make clean`.
CleanSkipped(b) ==
  /\ BuilderAt(b, "clean")
  /\ BuilderGoto(b, "compile")
  /\ UNCHANGED <<clusterVars, folder, alone, mishaps>>

Clean(b) ==
  /\ BuilderAt(b, "clean")
  /\ BuilderGoto(b, "compile")
  /\ object' = None /\ library' = None
  /\ UNCHANGED <<clusterVars, source, outdated, alone, mishaps>>

\* Its return code is not looked at.
CleanFails(b) ==
  /\ BuilderAt(b, "clean")
  /\ Mishap
  /\ BuilderGoto(b, "compile")
  /\ alone' = alone \ {b}
  /\ UNCHANGED <<clusterVars, folder>>

\* The first half of make: the object.
Compile(b) ==
  /\ BuilderAt(b, "compile")
  /\ BuilderGoto(b, "link")
  /\ IF object = None \/ "object" \in outdated
     THEN /\ object' = [version |-> source, server |-> builder[b].pg_config]
          /\ outdated' = {"library"}
     ELSE UNCHANGED <<object, outdated>>
  /\ UNCHANGED <<clusterVars, source, library, alone, mishaps>>

\* The second half: the library; the object may be gone by now.
Link(b) ==
  /\ BuilderAt(b, "link")
  /\ IF library # None /\ "library" \notin outdated
     THEN BuilderGoto(b, "artifact") /\ UNCHANGED <<library, outdated>>
     ELSE /\ BuilderGoto(b, IF object = None THEN "failed" ELSE "artifact")
          /\ library' = IF object = None THEN library ELSE object
          /\ outdated' = IF object = None THEN outdated ELSE outdated \ {"library"}
  /\ UNCHANGED <<clusterVars, source, object, alone, mishaps>>

MakeFails(b) ==
  /\ BuilderAt(b, "compile") \/ BuilderAt(b, "link")
  /\ Mishap
  /\ BuilderGoto(b, "failed")
  /\ UNCHANGED <<clusterVars, folder, alone>>

CheckArtifact(b) ==
  /\ BuilderAt(b, "artifact")
  /\ BuilderGoto(b, IF library = None THEN "failed" ELSE "ok")
  /\ UNCHANGED <<clusterVars, folder, alone, mishaps>>

\* Somebody edits the sources.
EditSource ==
  /\ Mishap
  /\ source' = source + 1
  /\ outdated' = outdated \union {"object"}
  /\ alone' = {}
  /\ UNCHANGED <<clusterVars, object, library, builder>>

BuildStep(b) ==
  \/ BeginBuild(b) \/ LookForCluster(b) \/ Resolve(b) \/ Pgxs(b)
  \/ Clean(b) \/ CleanFails(b) \/ Compile(b) \/ Link(b) \/ MakeFails(b) \/ CheckArtifact(b)

InitNext ==
  /\ \/ \E i \in Inits : InitStep(i) \/ Kill(i)
     \/ Resize
  /\ UNCHANGED buildVars

BuildNext ==
  \/ InitNext
  \/ \E b \in Builders : BuildStep(b)
  \/ EditSource

BuildSpec == BuildInit /\ [][BuildNext]_vars

----------------------------------------------------------------------------
(* Properties.                                                             *)

\* The cluster.toml that b found names a server to build for, and has not been written since.
ClusterNamed(b, server) ==
  /\ builder[b].manifest.pg_config = "auto"
  /\ reader[b].at = "loaded" /\ opened \subseteq reader[b].after
  /\ file[reader[b].place] # Mixed
  /\ UsableServers(file[reader[b].place]) = {server}

\* If `build` says it is completed, and neither another build nor an editor has been at work
\* and clean did what it is for, the library is that of the present sources, for the server
\* that was resolved, and so for the one that cluster.toml describes (build_plugin).
GoodBuildIsFresh ==
  \A b \in alone :
    BuilderAt(b, "ok") =>
      /\ library = [version |-> source, server |-> builder[b].pg_config]
      /\ \A s \in Servers : ClusterNamed(b, s) => library.server = s

=============================================================================
