----------------------------- MODULE Registration -----------------------------
(***************************************************************************)
(* `plugin_ctl register <id> -f ...`: CREATE EXTENSION on the primary      *)
(* coordinator, and what the other coordinators are asked afterwards.      *)
(*                                                                         *)
(* Several operators may run the command at once (Commands).  Every        *)
(* statement is a psql process with a time-out, and a statement whose      *)
(* answer is lost may still take effect.  The database is modelled by what *)
(* the command relies on: a control file per node, one row of pg_extension *)
(* per node, and a CREATE EXTENSION that the primary takes to the others.  *)
(* Nothing keeps two of these apart: each looks first whether the          *)
(* extension exists, and its insertion may still find that it does.        *)
(***************************************************************************)
EXTENDS Integers, FiniteSets

CONSTANTS
  Commands,       \* the register commands that are run
  Mode,           \* [Commands -> {"execute", "dry-run"}]
  Coordinators,   \* the coordinators of cluster.toml
  Primary,        \* the first of them
  Versions,       \* extension versions
  Nothing,        \* no control file, or no row in pg_extension
  MaxFaults,      \* bound: statements and sessions that fail
  MaxDrops        \* bound: times the extension is dropped by somebody else

ASSUME RegistrationAssumption ==
  /\ IsFiniteSet(Commands) /\ IsFiniteSet(Coordinators)
  /\ Mode \in [Commands -> {"execute", "dry-run"}]
  /\ Coordinators # {} => Primary \in Coordinators
  /\ Nothing \notin Versions
  /\ Versions \intersect {"unasked", "missing", "query_failed"} = {}
  /\ MaxFaults \in Nat /\ MaxDrops \in Nat

VARIABLES
  control,    \* [Coordinators -> version of the node's control file]
  catalog,    \* [Coordinators -> version in the node's pg_extension]
  session,    \* [Commands -> what the server does about its CREATE EXTENSION]
  pc,         \* [Commands -> the statement that comes next]
  created,    \* [Commands -> ActivationResult.status of the primary]
  seen,       \* [Commands -> [Coordinators -> detected version or status]]
  outcome,    \* [Commands -> the result printed]
  faults, drops

vars == <<control, catalog, session, pc, created, seen, outcome, faults, drops>>
database == <<control, catalog, session>>

Statuses == {"unasked", "missing", "query_failed"}

TypeOK ==
  /\ control \in [Coordinators -> Versions \union {Nothing}]
  /\ catalog \in [Coordinators -> Versions \union {Nothing}]
  /\ session \in [Commands -> {"none", "sent", "making", "spreading"}]
  /\ pc \in [Commands -> {"start", "available", "registered", "create", "creating",
                          "query", "done"}]
  /\ created \in [Commands -> {"none", "registered", "failed"}]
  /\ seen \in [Commands -> [Coordinators -> Versions \union Statuses]]
  /\ outcome \in [Commands -> {"none", "OK", "FAILED"}]
  /\ faults \in Nat /\ drops \in Nat

\* The control files are what earlier deployments left, and may differ.
Init ==
  /\ control \in [Coordinators -> Versions \union {Nothing}]
  /\ catalog = [n \in Coordinators |-> Nothing]
  /\ session = [c \in Commands |-> "none"]
  /\ pc = [c \in Commands |-> "start"]
  /\ created = [c \in Commands |-> "none"]
  /\ seen = [c \in Commands |-> [n \in Coordinators |-> "unasked"]]
  /\ outcome = [c \in Commands |-> "none"]
  /\ faults = 0
  /\ drops = 0

----------------------------------------------------------------------------
(* The precheck, in dry runs too: three statements on the primary.         *)

Goto(c, step) ==
  /\ pc' = [pc EXCEPT ![c] = step]
  /\ UNCHANGED outcome

Finish(c, result) ==
  /\ pc' = [pc EXCEPT ![c] = "done"]
  /\ outcome' = [outcome EXCEPT ![c] = result]

Fault ==
  /\ faults < MaxFaults
  /\ faults' = faults + 1

\* SELECT 1, if there is a coordinator to ask.
Connect(c) ==
  /\ pc[c] = "start"
  /\ IF Coordinators = {} THEN Finish(c, "FAILED") ELSE Goto(c, "available")
  /\ UNCHANGED <<database, created, seen, faults, drops>>

\* pg_available_extensions lists the primary's control files.
CheckAvailable(c) ==
  /\ pc[c] = "available"
  /\ IF control[Primary] = Nothing THEN Finish(c, "FAILED") ELSE Goto(c, "registered")
  /\ UNCHANGED <<database, created, seen, faults, drops>>

\* pg_extension on the primary: an extension that is there is left alone, and the
\* other coordinators are not asked.  A dry run ends with the plan.
CheckRegistered(c) ==
  /\ pc[c] = "registered"
  /\ IF catalog[Primary] # Nothing \/ Mode[c] = "dry-run"
     THEN Finish(c, "OK")
     ELSE Goto(c, "create")
  /\ UNCHANGED <<database, created, seen, faults, drops>>

\* One of the three statements fails, times out or raises.
PrecheckFails(c) ==
  /\ pc[c] \in {"start", "available", "registered"}
  /\ Coordinators # {}
  /\ Fault
  /\ Finish(c, "FAILED")
  /\ UNCHANGED <<database, created, seen, drops>>

----------------------------------------------------------------------------
(* execute_activation: CREATE EXTENSION IF NOT EXISTS on the primary, then *)
(* the version query on every coordinator, whatever came of the first.     *)

\* Mutant: the queries do not wait for the answer to CREATE EXTENSION.
SendCreateUnawaited(c) ==
  /\ pc[c] = "create"
  /\ Goto(c, "query")
  /\ session' = [session EXCEPT ![c] = "sent"]
  /\ UNCHANGED <<control, catalog, created, seen, faults, drops>>

SendCreate(c) ==
  /\ pc[c] = "create"
  /\ Goto(c, "creating")
  /\ session' = [session EXCEPT ![c] = "sent"]
  /\ UNCHANGED <<control, catalog, created, seen, faults, drops>>

Activation(c, status) ==
  /\ created' = [created EXCEPT ![c] = status]
  /\ Goto(c, "query")

\* psql cannot be started or gets no connection.
CreateRefused(c) ==
  /\ pc[c] = "create"
  /\ Fault
  /\ Activation(c, "failed")
  /\ UNCHANGED <<database, seen, drops>>

\* Mutant: psql is run without a time-out.
CreateWaitsForever(c) == pc[c] = "creating" /\ FALSE

\* psql's 30 seconds are over (return code 124); the server is not told.
CreateTimesOut(c) ==
  /\ pc[c] = "creating"
  /\ faults' = faults + 1
  /\ Activation(c, "failed")
  /\ UNCHANGED <<database, seen, drops>>

\* Mutant: an empty answer is taken for a version.
AnswerAsDetected(n) == catalog[n]

\* What a coordinator answers to the version query.
Answer(n) == IF catalog[n] = Nothing THEN "missing" ELSE catalog[n]

\* _query_versions: one thread for each coordinator, so in any order.
QueryVersion(c, n) ==
  /\ pc[c] = "query"
  /\ seen[c][n] = "unasked"
  /\ seen' = [seen EXCEPT ![c][n] = Answer(n)]
  /\ UNCHANGED <<database, pc, created, outcome, faults, drops>>

QueryFails(c, n) ==
  /\ pc[c] = "query"
  /\ seen[c][n] = "unasked"
  /\ Fault
  /\ seen' = [seen EXCEPT ![c][n] = "query_failed"]
  /\ UNCHANGED <<database, pc, created, outcome, drops>>

Present(c) == {seen[c][n] : n \in Coordinators} \ Statuses
Mismatch(c) == \E u, v \in Present(c) : u # v

\* Mutant: only versions that differ are errors.
ErrorsOfVersions(c) == Mismatch(c)

\* Mutant: an extension that is seen everywhere makes up for a failed CREATE.
ErrorsOfQueries(c) ==
  \/ \E n \in Coordinators : seen[c][n] \in {"missing", "query_failed"}
  \/ Mismatch(c)

\* Mutant: a coordinator that has no row counts as not asked.
ErrorsUnlessMissing(c) ==
  \/ created[c] = "failed"
  \/ \E n \in Coordinators : seen[c][n] = "query_failed"
  \/ Mismatch(c)

\* _activation_errors is not empty.
Errors(c) ==
  \/ created[c] = "failed"
  \/ \E n \in Coordinators : seen[c][n] \in {"missing", "query_failed"}
  \/ Mismatch(c)

Report(c) ==
  /\ pc[c] = "query"
  /\ \A n \in Coordinators : seen[c][n] # "unasked"
  /\ Finish(c, IF Errors(c) THEN "FAILED" ELSE "OK")
  /\ UNCHANGED <<database, created, seen, faults, drops>>

CommandStep(c) ==
  \/ Connect(c) \/ CheckAvailable(c) \/ CheckRegistered(c) \/ PrecheckFails(c)
  \/ SendCreate(c) \/ CreateRefused(c) \/ CreateTimesOut(c)
  \/ \E n \in Coordinators : QueryVersion(c, n) \/ QueryFails(c, n)
  \/ Report(c)

----------------------------------------------------------------------------
(* The database.  IF NOT EXISTS is a look that takes no lock: several      *)
(* sessions may find nothing and go on to create.  The primary's row comes *)
(* first and is unique, so one of them succeeds, and the others get an     *)
(* error.  The server goes on when the client has gone.                    *)

Spreading == \E c \in Commands : session[c] = "spreading"

\* A node has got the extension, or has no control file to get it from.
Served(n) == catalog[n] # Nothing \/ control[n] = Nothing

\* The session is through with its CREATE EXTENSION; psql may be gone.
Answered(c, status) ==
  /\ session' = [session EXCEPT ![c] = "none"]
  /\ IF pc[c] = "creating"
     THEN Activation(c, status)
     ELSE UNCHANGED <<pc, created, outcome>>
  /\ UNCHANGED <<control, catalog, seen, drops>>

CreateLooks(c) ==
  /\ session[c] = "sent"
  /\ catalog[Primary] = Nothing
  /\ session' = [session EXCEPT ![c] = "making"]
  /\ UNCHANGED <<control, catalog, pc, created, seen, outcome, faults, drops>>

\* A notice and nothing else.
CreateSkips(c) ==
  /\ session[c] = "sent"
  /\ catalog[Primary] # Nothing
  /\ Answered(c, "registered")
  /\ UNCHANGED faults

CreateOnPrimary(c) ==
  /\ session[c] = "making"
  /\ catalog[Primary] = Nothing
  /\ catalog' = [catalog EXCEPT ![Primary] = control[Primary]]
  /\ session' = [session EXCEPT ![c] = "spreading"]
  /\ UNCHANGED <<control, pc, created, seen, outcome, faults, drops>>

\* Another session has been faster since this one looked: a duplicate key.
CreateCollides(c) ==
  /\ session[c] = "making"
  /\ catalog[Primary] # Nothing
  /\ Answered(c, "failed")
  /\ UNCHANGED faults

CreateOnOther(c, n) ==
  /\ session[c] = "spreading"
  /\ ~Served(n)
  /\ catalog' = [catalog EXCEPT ![n] = control[n]]
  /\ UNCHANGED <<control, session, pc, created, seen, outcome, faults, drops>>

CreateEnds(c) ==
  /\ session[c] = "spreading"
  /\ \A n \in Coordinators : Served(n)
  /\ Answered(c, "registered")
  /\ UNCHANGED faults

\* The server fails half way: some nodes have the extension, psql gets an error.
CreateBreaks(c) ==
  /\ session[c] # "none"
  /\ Fault
  /\ Answered(c, "failed")

\* Somebody drops the extension, for instance with `rollback`.
Drop ==
  /\ drops < MaxDrops
  /\ ~Spreading
  /\ \E n \in Coordinators : catalog[n] # Nothing
  /\ drops' = drops + 1
  /\ catalog' = [n \in Coordinators |-> Nothing]
  /\ UNCHANGED <<control, session, pc, created, seen, outcome, faults>>

ServerStep(c) ==
  \/ CreateLooks(c) \/ CreateSkips(c) \/ CreateOnPrimary(c) \/ CreateCollides(c)
  \/ CreateEnds(c) \/ CreateBreaks(c)
  \/ \E n \in Coordinators : CreateOnOther(c, n)

Next ==
  \/ \E c \in Commands : CommandStep(c) \/ ServerStep(c)
  \/ Drop

Spec == Init /\ [][Next]_vars

\* The command's own steps are taken, since every psql process ends within 30
\* seconds.  The server owes nothing.
FairSpec == Spec /\ \A c \in Commands : WF_vars(CommandStep(c))

----------------------------------------------------------------------------
(* Properties.                                                             *)

\* All coordinators have the extension, in one version.
Uniform ==
  \A m, n \in Coordinators : catalog[m] = catalog[n] /\ catalog[n] # Nothing

\* A register command that ran CREATE EXTENSION and printed "Result: OK" means
\* that every coordinator has the extension, in one version, as long as nobody
\* drops it (execute_activation, _activation_errors).
CreatedMeansUniform ==
  \A c \in Commands : outcome[c] = "OK" /\ created[c] # "none" /\ drops = 0 => Uniform

\* After "Result: OK" of an executed register command the extension is on the
\* primary, whether the command created it or another one did, as long as nobody
\* drops it (cmd_register, the already_registered shortcut).
OkMeansRegistered ==
  \A c \in Commands :
    outcome[c] = "OK" /\ Mode[c] = "execute" /\ drops = 0 => catalog[Primary] # Nothing

\* A CREATE EXTENSION whose answer was an error or never came is not reported as
\* a success, not even when the version queries find the extension everywhere
\* because the server went on (_activation_errors).
LostAnswerReported ==
  \A c \in Commands : created[c] = "failed" => outcome[c] # "OK"

\* Command c has an error for its CREATE EXTENSION, or found it half way, because of
\* command d, which creates or has created the extension and is not refused itself.
LosesTo(c, d) ==
  /\ created[c] # "none"
  /\ Mode[d] = "execute" /\ outcome[d] # "FAILED"
  /\ session[d] = "spreading" \/ created[d] = "registered"

\* A registration is refused for a reason: a statement failed, the extension was
\* dropped meanwhile, the coordinators' control files differ or are missing, or the
\* command lost the race of CREATE EXTENSION, which takes no lock, to another.  The
\* race has a winner: commands never make each other fail altogether, and none fails
\* for a dry run, nor before it has sent its own CREATE EXTENSION.
RefusedForAReason ==
  \A c \in Commands : outcome[c] = "FAILED" =>
    \/ faults > 0 \/ drops > 0 \/ Coordinators = {}
    \/ \E m, n \in Coordinators : control[m] # control[n] \/ control[n] = Nothing
    \/ \E d \in Commands \ {c} : LosesTo(c, d)

\* Every register command ends, whatever the database does.
AllAnswered == \A c \in Commands : <>(outcome[c] # "none")

----------------------------------------------------------------------------
(* What module RegistrationContract promises, the commands keep.           *)

Progress(c) ==
  CASE outcome[c] = "OK" -> "ok"
    [] outcome[c] = "FAILED" -> "failed"
    [] outcome[c] = "none" /\ created[c] = "registered" -> "created"
    [] outcome[c] = "none" /\ created[c] = "failed" -> "lost"
    [] outcome[c] = "none" /\ created[c] = "none" -> "asked"

\* A CREATE EXTENSION of c has not taken effect yet and may still do so.
MayCreate(c) ==
  /\ Mode[c] = "execute"
  /\ pc[c] \in {"start", "available", "registered", "create"} \/ session[c] \in {"sent", "making"}

Contract == INSTANCE RegistrationContract WITH
  Executed <- {c \in Commands : Mode[c] = "execute"},
  where <- {n \in Coordinators : catalog[n] # Nothing},
  pending <- {c \in Commands : MayCreate(c)},
  confirmed <- [c \in Commands |-> {n \in Coordinators : seen[c][n] \in Versions}],
  status <- [c \in Commands |-> Progress(c)]

\* Every behaviour of the commands and the database is one of RegistrationContract.
KeepsContract == Contract!ContractSpec

=============================================================================
