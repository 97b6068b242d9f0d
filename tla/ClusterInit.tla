----------------------------- MODULE ClusterInit -----------------------------
(***************************************************************************)
(* cluster.toml: how `plugin_ctl init` comes to write it and how the other *)
(* commands come to read it.                                               *)
(*                                                                         *)
(* init asks two sources: opentenbase_ctl (is it able to work, and what    *)
(* does its status say), and pgxc_node, through psql at the first          *)
(* coordinator that status names, or at three local ports if there is no   *)
(* status.  What both say is merged by node name.  The file is truncated   *)
(* and then written, without a lock; a configuration that fits into one    *)
(* write is taken to appear at once.  Every other command looks for the    *)
(* file in its working directory first and in the home directory next, and *)
(* reads it once.                                                          *)
(*                                                                         *)
(* An entry of the file is <<n, m>>: name, host and directories of node n, *)
(* database port of node m.                                                *)
(***************************************************************************)
EXTENDS Integers, Sequences, FiniteSets

CONSTANTS
  Inits,           \* the init commands that are run
  Readers,         \* the commands that load the configuration
  Requests,        \* what an init may be asked: [backend, ctl, target, server]
  Servers,         \* installations of the database (--lib-dir and --extension-dir)
  Nodes,
  Role,            \* [Nodes -> {"cn", "dn"}]
  PrintRank,       \* [Nodes -> Nat]: the order in which status prints the nodes
  CtlRank,         \* [Nodes -> Nat]: the order of their names in status
  PgxcRank,        \* [Nodes -> Nat]: the order of their names in pgxc_node
  Local,           \* [1..3 -> the coordinator at 127.0.0.1:30004, 30005, 30006]
  Described,       \* per config file tried, the nodes it describes; none: unusable
  FirstFiles,      \* what the two cluster.toml may hold in the beginning
  None, NoFile,
  Truncated,       \* content of a file that has been opened and not written
  Mixed,           \* content of a file that two writers wrote
  MaxDisturbances  \* bound: calls that fail or time out, changes, inits that are killed

Coordinators == {n \in Nodes : Role[n] = "cn"}
Places == {"cwd", "home"}
Topologies == SUBSET (Nodes \X Nodes)

\* The opentenbase_ctl that init is to use: complete, of a help text that does not name
\* status, sql and scp, not in PATH, or, as --opentenbase-ctl, no program at all.
Programs == {"complete", "terse", "absent", "misnamed"}

Configs == [nodes : Topologies, server : Servers]
Contents == Configs \union {NoFile, Truncated, Mixed}

ASSUME ClusterInitAssumption ==
  /\ IsFiniteSet(Nodes) /\ Role \in [Nodes -> {"cn", "dn"}]
  /\ PrintRank \in [Nodes -> Nat] /\ CtlRank \in [Nodes -> Nat] /\ PgxcRank \in [Nodes -> Nat]
  /\ \A m, n \in Nodes : m # n => /\ PrintRank[m] # PrintRank[n]
                                  /\ CtlRank[m] # CtlRank[n] /\ PgxcRank[m] # PgxcRank[n]
  /\ Requests \subseteq [backend : {"auto", "opentenbase_ctl", "sql"}, ctl : Programs,
                         target : Places, server : Servers]
  /\ Local \in [1..3 -> Coordinators \union {None}] /\ None \notin Nodes \union Requests
  /\ Described \in Seq(SUBSET Nodes) /\ Len(Described) >= 1
  /\ FirstFiles \subseteq [Places -> Contents]
  /\ {None, NoFile, Truncated, Mixed} \intersect Configs = {}
  /\ Cardinality({None, NoFile, Truncated, Mixed}) = 4
  /\ MaxDisturbances \in Nat

VARIABLES
  listed,      \* the nodes that opentenbase_ctl knows of
  pgxc,        \* [Coordinators -> the nodes in its pgxc_node]
  file,        \* [Places -> content]
  request,     \* [Inits -> what it is asked, or None: it is not run]
  init,        \* [Inits -> its place and local variables]
  reader,      \* [Readers -> its place and local variables]
  opened,      \* ghost: the inits that have opened their file
  collided,    \* ghost: one opened a file that another was writing
  disturbances

sources == <<listed, pgxc>>
clusterVars == <<sources, file, request, init, reader, opened, collided, disturbances>>

Steps == {"start", "help", "probe", "status", "psql", "local", "open", "write", "done",
          "error", "killed"}
Looks == {"start", "load", "loaded", "rejected", "missing"}

TypeOK ==
  /\ listed \subseteq Nodes
  /\ pgxc \in [Coordinators -> SUBSET Nodes]
  /\ file \in [Places -> Contents]
  /\ request \in [Inits -> Requests \union {None}]
  /\ init \in [Inits -> [at : Steps, try : Nat, told : SUBSET Nodes, rows : SUBSET Nodes,
                         nodes : Topologies]]
  /\ reader \in [Readers -> [at : Looks, place : Places, config : Contents \union {None},
                             after : SUBSET Inits]]
  /\ opened \subseteq Inits /\ collided \in BOOLEAN
  /\ disturbances \in Nat

Init ==
  /\ listed \in SUBSET Nodes
  /\ pgxc \in [Coordinators -> SUBSET Nodes]
  /\ file \in FirstFiles
  /\ request \in [Inits -> Requests \union {None}]
  /\ init = [i \in Inits |-> [at |-> "start", try |-> 1, told |-> {}, rows |-> {},
                              nodes |-> {}]]
  /\ reader = [r \in Readers |-> [at |-> "start", place |-> "home", config |-> None,
                                  after |-> {}]]
  /\ opened = {} /\ collided = FALSE
  /\ disturbances = 0

----------------------------------------------------------------------------
(* Discovery.                                                              *)

At(i, step) == init[i].at = step
Goto(i, step) == init' = [init EXCEPT ![i].at = step, ![i].try = 1]
Again(i) == init' = [init EXCEPT ![i].try = @ + 1]

Asking == UNCHANGED <<sources, file, request, reader, opened, collided>>
Quietly == UNCHANGED disturbances

Disturb ==
  /\ disturbances < MaxDisturbances
  /\ disturbances' = disturbances + 1

\* Mutant: an opentenbase_ctl that cannot work ends the init.
CtlUnableEnds(i) == Goto(i, "error")

\* OpenTenBaseCtlError: only `auto` goes on, with psql.
CtlUnable(i) == Goto(i, IF request[i].backend = "auto" THEN "local" ELSE "error")

\* available: a program of another name that is not there raises FileNotFoundError, which
\* nobody catches.
Begin(i) ==
  /\ At(i, "start") /\ request[i] # None
  /\ \/ request[i].backend = "sql" /\ Goto(i, "local")
     \/ /\ request[i].backend # "sql"
        /\ \/ request[i].ctl = "absent" /\ CtlUnable(i)
           \/ request[i].ctl = "misnamed" /\ Goto(i, "error")
           \/ request[i].ctl \in {"complete", "terse"} /\ Goto(i, "help")
  /\ Asking /\ Quietly

\* A help text that lacks a subcommand makes available ask for the status.
Help(i) ==
  /\ At(i, "help")
  /\ Goto(i, IF request[i].ctl = "complete" THEN "status" ELSE "probe")
  /\ Asking /\ Quietly

HelpFails(i) ==
  /\ At(i, "help")
  /\ Disturb
  /\ Goto(i, "probe")
  /\ Asking

\* The nodes of the config file that is tried, as far as opentenbase_ctl knows them.
Status(i) == Described[init[i].try] \intersect listed

Primary(nodes) ==
  CHOOSE n \in nodes \intersect Coordinators :
    \A m \in nodes \intersect Coordinators : PrintRank[n] <= PrintRank[m]

Own(nodes) == {<<n, n>> : n \in nodes}

\* Without a coordinator there is nobody to verify the status with.
TakeStatus(i, nodes) ==
  init' = [init EXCEPT ![i].at = IF nodes \intersect Coordinators = {} THEN "open" ELSE "psql",
                       ![i].try = 1, ![i].told = nodes, ![i].nodes = Own(nodes)]

\* status and parse_status; the status that available has seen is asked for anew.
AskStatus(i) ==
  /\ At(i, "probe") \/ At(i, "status")
  /\ Described[init[i].try] # {}
  /\ \/ Status(i) = {} /\ CtlUnable(i)
     \/ Status(i) # {} /\ At(i, "probe") /\ Goto(i, "status")
     \/ Status(i) # {} /\ At(i, "status") /\ TakeStatus(i, Status(i))
  /\ Asking /\ Quietly

\* The next config file, if there is one.
StatusRefused(i) == IF init[i].try < Len(Described) THEN Again(i) ELSE CtlUnable(i)

AskStatusInVain(i) ==
  /\ At(i, "probe") \/ At(i, "status")
  /\ Described[init[i].try] = {}
  /\ StatusRefused(i)
  /\ Asking /\ Quietly

StatusFails(i) ==
  /\ At(i, "probe") \/ At(i, "status")
  /\ Disturb
  /\ StatusRefused(i)
  /\ Asking

OfRole(nodes, role) == {n \in nodes : Role[n] = role}

\* The place of n among the nodes of its role, by name.
Position(n, nodes, rank) == Cardinality({m \in OfRole(nodes, Role[n]) : rank[m] < rank[n]})

\* Mutant: the nodes of the status are taken in the order in which they are printed.
MergedAsPrinted(told, rows) ==
  IF \E role \in {"cn", "dn"} :
       Cardinality(OfRole(told, role)) # Cardinality(OfRole(rows, role))
  THEN Own(told)
  ELSE {e \in told \X rows :
          /\ Role[e[1]] = Role[e[2]]
          /\ Position(e[1], told, PrintRank) = Position(e[2], rows, PgxcRank)}

\* _merge_ctl_and_sql_topology: pairs by sorted names; if the numbers differ, the status
\* alone.
Merged(told, rows) ==
  IF \E role \in {"cn", "dn"} :
       Cardinality(OfRole(told, role)) # Cardinality(OfRole(rows, role))
  THEN Own(told)
  ELSE {e \in told \X rows :
          /\ Role[e[1]] = Role[e[2]]
          /\ Position(e[1], told, CtlRank) = Position(e[2], rows, PgxcRank)}

\* In `auto` the status stands as it is if psql has no answer.
Unverified(i) == Goto(i, IF request[i].backend = "opentenbase_ctl" THEN "error" ELSE "open")

AskPrimary(i) ==
  /\ At(i, "psql")
  /\ LET rows == pgxc[Primary(init[i].told)]
     IN  IF rows = {} THEN Unverified(i)
         ELSE init' = [init EXCEPT ![i].at = "open", ![i].rows = rows,
                                   ![i].nodes = Merged(init[i].told, rows)]
  /\ Asking /\ Quietly

PrimaryFails(i) ==
  /\ At(i, "psql")
  /\ Disturb
  /\ Unverified(i)
  /\ Asking

NextPort(i) == IF init[i].try < 3 THEN Again(i) ELSE Goto(i, "error")

\* What psql reads at a local port.
Rows(port) == IF Local[port] = None THEN {} ELSE pgxc[Local[port]]

AskLocal(i) ==
  /\ At(i, "local")
  /\ LET rows == Rows(init[i].try)
     IN  IF rows = {} THEN NextPort(i)
         ELSE init' = [init EXCEPT ![i].at = "open", ![i].nodes = Own(rows)]
  /\ Asking /\ Quietly

LocalFails(i) ==
  /\ At(i, "local")
  /\ Disturb
  /\ NextPort(i)
  /\ Asking

----------------------------------------------------------------------------
(* write_cluster_config.                                                   *)

Target(i) == request[i].target
Config(i) == [nodes |-> init[i].nodes, server |-> request[i].server]

Writing(place) == {i \in Inits : At(i, "write") /\ Target(i) = place}

Open(i) ==
  /\ At(i, "open")
  /\ Goto(i, "write")
  /\ file' = [file EXCEPT ![Target(i)] = Truncated]
  /\ opened' = opened \union {i}
  /\ collided' = (collided \/ Writing(Target(i)) # {})
  /\ UNCHANGED <<sources, request, reader, disturbances>>

\* Another writer's text, if there is any, may stick out behind one's own.
Landed(old, new) == {new} \union (IF old = Truncated THEN {} ELSE {Mixed})

Write(i) ==
  /\ At(i, "write")
  /\ Goto(i, "done")
  /\ \E c \in Landed(file[Target(i)], Config(i)) : file' = [file EXCEPT ![Target(i)] = c]
  /\ UNCHANGED <<sources, request, reader, opened, collided, disturbances>>

Finished == {"done", "error", "killed"}

Kill(i) ==
  /\ init[i].at \notin Finished \union {"start"}
  /\ Disturb
  /\ Goto(i, "killed")
  /\ UNCHANGED <<sources, file, request, reader, opened, collided>>

----------------------------------------------------------------------------
(* The other commands.                                                     *)

Looking == UNCHANGED <<sources, file, request, init, opened, collided, disturbances>>

\* Mutant: the home directory is looked at first.
FoundAtHomeFirst == IF file["home"] # NoFile THEN {"home"} ELSE {p \in {"cwd"} : file[p] # NoFile}

\* find_cluster_config without an explicit path.
FoundAt == IF file["cwd"] # NoFile THEN {"cwd"} ELSE {p \in {"home"} : file[p] # NoFile}

Find(r) ==
  /\ reader[r].at = "start"
  /\ LET before == {i \in Inits : At(i, "done")}
     IN  \/ /\ FoundAt = {}
            /\ reader' = [reader EXCEPT ![r].at = "missing", ![r].after = before]
         \/ \E p \in FoundAt :
              reader' = [reader EXCEPT ![r].at = "load", ![r].place = p, ![r].after = before]
  /\ Looking

\* Mutant: a file without nodes is a cluster without nodes.
LoadableEvenEmpty(content) == content # NoFile

\* load_cluster_config rejects an empty file; of a mixture it may accept or reject any.
Loadable(content) == content \notin {NoFile, Truncated}

Load(r) ==
  /\ reader[r].at = "load"
  /\ LET content == file[reader[r].place]
     IN  \/ /\ ~Loadable(content) \/ content = Mixed
            /\ reader' = [reader EXCEPT ![r].at = "rejected"]
         \/ /\ Loadable(content)
            /\ reader' = [reader EXCEPT ![r].at = "loaded", ![r].config = content]
  /\ Looking

----------------------------------------------------------------------------
(* The cluster: nodes are added and removed, in opentenbase_ctl and in each *)
(* pgxc_node separately.                                                   *)
Toggled(nodes, n) == IF n \in nodes THEN nodes \ {n} ELSE nodes \union {n}

Resize ==
  /\ Disturb
  /\ \E n \in Nodes :
       \/ listed' = Toggled(listed, n) /\ UNCHANGED pgxc
       \/ /\ \E c \in Coordinators : pgxc' = [pgxc EXCEPT ![c] = Toggled(@, n)]
          /\ UNCHANGED listed
  /\ UNCHANGED <<file, request, init, reader, opened, collided>>

InitStep(i) ==
  \/ Begin(i) \/ Help(i) \/ HelpFails(i)
  \/ AskStatus(i) \/ AskStatusInVain(i) \/ StatusFails(i)
  \/ AskPrimary(i) \/ PrimaryFails(i) \/ AskLocal(i) \/ LocalFails(i)
  \/ Open(i) \/ Write(i)

Next ==
  \/ \E i \in Inits : InitStep(i) \/ Kill(i)
  \/ \E r \in Readers : Find(r) \/ Load(r)
  \/ Resize

Spec == Init /\ [][Next]_clusterVars

----------------------------------------------------------------------------
(* Properties.                                                             *)

NamesAgree ==
  \A m, n \in Nodes : CtlRank[m] < CtlRank[n] <=> PgxcRank[m] < PgxcRank[n]

\* If both sources have named the same nodes, by the same names, every node is written
\* with its own port (_merge_ctl_and_sql_topology compares numbers of nodes only).
PortsMatchNodes ==
  \A i \in Inits :
    (init[i].rows # {} /\ NamesAgree /\ init[i].told = init[i].rows) =>
      init[i].nodes = Own(init[i].told)

\* The first config file that opentenbase_ctl accepts describes nodes that are there; a
\* status without nodes ends the search for others.
CtlAnswers(i) ==
  /\ request[i].ctl \in {"complete", "terse"}
  /\ \E k \in DOMAIN Described :
       Described[k] \intersect listed # {} /\ \A j \in 1..(k - 1) : Described[j] = {}
PsqlAnswers == \E port \in 1..3 : Rows(port) # {}

\* As long as nothing fails or changes, an `auto` init that gives up had no source to ask:
\* neither a usable status nor a local port (_discover_cluster_for_init).  A program named
\* wrongly by the user is an error of its own.
AutoFindsWhatAnswers ==
  \A i \in Inits :
    (At(i, "error") /\ request[i].backend = "auto" /\ disturbances = 0
       /\ request[i].ctl # "misnamed") => ~PsqlAnswers /\ ~CtlAnswers(i)

\* A configuration that a command loads is one that was written whole, or was there in
\* the beginning, unless two inits have written one file at once: a killed init never
\* makes a smaller cluster (load_cluster_config).
LoadedIsWhole ==
  ~collided =>
    \A r \in Readers : reader[r].at = "loaded" =>
      \/ \E i \in opened : reader[r].config = Config(i) /\ Target(i) = reader[r].place
      \/ \E first \in FirstFiles : reader[r].config = first[reader[r].place]

\* After an init that ended well, and was the only one to write, a command that starts
\* loads what that init discovered, whatever the file was before; a cluster.toml in the
\* working directory that init did not write is found instead (find_cluster_config).
InitTakesEffect ==
  \A r \in Readers, i \in Inits :
    (opened = {i} /\ i \in reader[r].after /\ reader[r].at \in {"loaded", "rejected", "missing"}
       /\ (file["cwd"] = NoFile \/ Target(i) = "cwd")) =>
      reader[r].at = "loaded" /\ reader[r].config = Config(i)

=============================================================================
