-------------------------- MODULE DistributedVerify --------------------------
(***************************************************************************)
(* run_distributed_verify: `plugin_ctl verify <id> -f ...` asks the        *)
(* cluster four kinds of questions, one kind after the other: SELECT 1 on  *)
(* every node in turn; the extension's version on every coordinator, all   *)
(* at once; the SHA256 of every payload file on every node, by a pool of   *)
(* threads; the prepared transactions of every node, all at once.  Nothing *)
(* is locked meanwhile: files, extensions and transactions come and go     *)
(* between two questions.                                                  *)
(***************************************************************************)
EXTENDS Integers, FiniteSets

CONSTANTS
  Coordinators, Datanodes,
  NodeRank,     \* [Nodes -> Nat]: coordinators first, in the order of cluster.toml
  Files,        \* the files that may be payload
  FileRank,     \* [Files -> Nat]: the sorted order of the paths
  Scanned,      \* .so and .control files below source_root: payload while they exist
  Declared,     \* files the manifest names: payload whether they exist or not
  Unsupported,  \* those that are neither .so nor .control nor .sql
  Builds,       \* contents of a file
  Versions,     \* versions of the extension
  Absent,       \* no such file, or no row in pg_extension
  NameValid,    \* is extension_name an identifier?
  MaxWorkers,   \* size of the pool that checks files (8 in the code)
  MaxFaults,    \* bound: calls that fail
  MaxChanges    \* bound: changes of the cluster or of local files

Nodes == Coordinators \union Datanodes
NoFile == "no file"

\* A question is <<kind, node, file>>.
NodeQuestions == {"connect", "prepared"} \X Nodes \X {NoFile}
ExtensionQuestions == {"extension"} \X Coordinators \X {NoFile}
FileQuestions == {"file"} \X Nodes \X Files
Questions == NodeQuestions \union ExtensionQuestions \union FileQuestions
Topic(q) == q[1]
Node(q) == q[2]
File(q) == q[3]

Good == {"connected", "ok"} \union Versions
Bad == {"failed", "missing", "query_failed", "checksum_failed", "leak"}
Open == {"queued", "hashed"}

ASSUME DistributedVerifyAssumption ==
  /\ IsFiniteSet(Nodes) /\ IsFiniteSet(Files)
  /\ NodeRank \in [Nodes -> Nat] /\ FileRank \in [Files -> Nat]
  /\ \A m, n \in Nodes : m # n => NodeRank[m] # NodeRank[n]
  /\ Scanned \subseteq Files /\ Declared \subseteq Files /\ Unsupported \subseteq Declared
  /\ Absent \notin Builds \union Versions
  /\ Versions \intersect ({"none", "connected", "ok"} \union Bad \union Open) = {}
  /\ NameValid \in BOOLEAN
  /\ MaxWorkers \in Nat \ {0} /\ MaxFaults \in Nat /\ MaxChanges \in Nat

VARIABLES
  local,      \* [Files -> content]
  remote,     \* [Nodes \X Files -> content]: lib_dir and extension_dir of each node
  catalog,    \* [Coordinators -> version of the extension]
  prepared,   \* [Nodes -> are there prepared transactions?]
  stage,      \* the kind of question that is being asked
  answer,     \* [Questions -> status]
  digest,     \* [FileQuestions -> local content the question compares with]
  result,     \* "OK" or "FAILED" in the end
  faults, changes,
  lasting     \* ghost: the defects that have been there all the time

cluster == <<local, remote, catalog, prepared>>
vars == <<cluster, stage, answer, digest, result, faults, changes, lasting>>

Stages == {"start", "connect", "extension", "file", "prepared", "reported", "raised"}

TypeOK ==
  /\ local \in [Files -> Builds \union {Absent}]
  /\ remote \in [Nodes \X Files -> Builds \union {Absent}]
  /\ catalog \in [Coordinators -> Versions \union {Absent}]
  /\ prepared \in [Nodes -> BOOLEAN]
  /\ stage \in Stages
  /\ answer \in [Questions -> {"none"} \union Open \union Good \union Bad]
  /\ digest \in [FileQuestions -> Builds \union {Absent}]
  /\ result \in {"none", "OK", "FAILED"}
  /\ faults \in Nat /\ changes \in Nat

\* What is wrong in the cluster, as far as it is `verify`'s business.
Payload == {f \in Scanned : local[f] # Absent} \union Declared

Defects ==
  {q \in ExtensionQuestions : catalog[Node(q)] = Absent}
    \union {q \in FileQuestions :
              /\ File(q) \in Payload
              /\ local[File(q)] = Absent \/ remote[<<Node(q), File(q)>>] # local[File(q)]}
    \union {q \in NodeQuestions : Topic(q) = "prepared" /\ prepared[Node(q)]}

Init ==
  /\ local \in [Files -> Builds \union {Absent}]
  /\ remote \in [Nodes \X Files -> Builds \union {Absent}]
  /\ catalog \in [Coordinators -> Versions \union {Absent}]
  /\ prepared \in [Nodes -> BOOLEAN]
  /\ stage = "start"
  /\ answer = [q \in Questions |-> "none"]
  /\ digest = [q \in FileQuestions |-> Absent]
  /\ result = "none"
  /\ faults = 0
  /\ changes = 0
  /\ lasting = Defects

----------------------------------------------------------------------------
(* The stages.                                                             *)

\* An invalid extension name raises before anything is asked.
Begin ==
  /\ stage = "start"
  /\ IF NameValid
     THEN /\ stage' = "connect"
          /\ answer' = [q \in Questions |-> IF Topic(q) = "connect" THEN "queued" ELSE "none"]
     ELSE stage' = "raised" /\ UNCHANGED answer
  /\ UNCHANGED <<cluster, digest, result, faults, changes>>

\* Mutant: the results are collected before the threads are done.
StageDoneEarly == \A q \in Questions : answer[q] # "hashed"

StageDone == \A q \in Questions : answer[q] \notin Open

Following == [connect |-> "extension", extension |-> "file", file |-> "prepared"]

\* The next kind of question; the payload is listed when the file checks begin.
Proceed ==
  /\ stage \in DOMAIN Following
  /\ StageDone
  /\ stage' = Following[stage]
  /\ answer' = [q \in Questions |->
                  IF Topic(q) = stage' /\ (stage' = "file" => File(q) \in Payload)
                  THEN "queued" ELSE answer[q]]
  /\ UNCHANGED <<cluster, digest, result, faults, changes>>

Installed == {answer[q] : q \in ExtensionQuestions} \intersect Versions

\* Mutant: the versions are not compared.
ErrorsButMismatch == \E q \in Questions : answer[q] \in Bad

\* _errors is not empty.
Errors ==
  \/ \E q \in Questions : answer[q] \in Bad
  \/ \E u, v \in Installed : u # v

Report ==
  /\ stage = "prepared"
  /\ StageDone
  /\ stage' = "reported"
  /\ result' = IF Errors THEN "FAILED" ELSE "OK"
  /\ UNCHANGED <<cluster, answer, digest, faults, changes>>

----------------------------------------------------------------------------
(* The questions.                                                          *)

Reply(q, status) ==
  /\ answer' = [answer EXCEPT ![q] = status]
  /\ UNCHANGED <<cluster, stage, result, changes>>

Fault ==
  /\ faults < MaxFaults
  /\ faults' = faults + 1

Queued(q, topic) == Topic(q) = topic /\ answer[q] = "queued"

\* The loop of _check_connectivity, and the queue of _check_files, go through the
\* nodes, coordinators first, and for each node through the files.
Earlier(r, q) ==
  \/ NodeRank[Node(r)] < NodeRank[Node(q)]
  \/ /\ Node(r) = Node(q) /\ {Topic(r), Topic(q)} = {"file"}
     /\ FileRank[File(r)] < FileRank[File(q)]

InTurn(q) == \A r \in Questions : answer[r] = "queued" => ~Earlier(r, q)

Connect(q) ==
  /\ Queued(q, "connect") /\ InTurn(q)
  /\ Reply(q, "connected")
  /\ UNCHANGED <<digest, faults>>

ConnectFails(q) ==
  /\ Queued(q, "connect") /\ InTurn(q)
  /\ Fault
  /\ Reply(q, "failed")
  /\ UNCHANGED digest

AskExtension(q) ==
  /\ Queued(q, "extension")
  /\ Reply(q, IF catalog[Node(q)] = Absent THEN "missing" ELSE catalog[Node(q)])
  /\ UNCHANGED <<digest, faults>>

\* Mutant: a node whose transactions could not be read has none.
QueryLeniently(q) ==
  /\ Queued(q, "extension") \/ Queued(q, "prepared")
  /\ Fault
  /\ Reply(q, IF Topic(q) = "prepared" THEN "ok" ELSE "query_failed")
  /\ UNCHANGED digest

QueryFails(q) ==
  /\ Queued(q, "extension") \/ Queued(q, "prepared")
  /\ Fault
  /\ Reply(q, "query_failed")
  /\ UNCHANGED digest

ScanPrepared(q) ==
  /\ Queued(q, "prepared")
  /\ Reply(q, IF prepared[Node(q)] THEN "leak" ELSE "ok")
  /\ UNCHANGED <<digest, faults>>

WorkerFree == Cardinality({q \in Questions : answer[q] = "hashed"}) < MaxWorkers

\* _check_one_file: a file of no known type raises; otherwise the local file is
\* hashed if it is there.
HashLocal(q) ==
  /\ Queued(q, "file") /\ InTurn(q) /\ WorkerFree
  /\ IF File(q) \in Unsupported
     THEN Reply(q, "query_failed") /\ UNCHANGED digest
     ELSE /\ Reply(q, "hashed")
          /\ digest' = [digest EXCEPT ![q] = local[File(q)]]
  /\ UNCHANGED faults

\* The local file goes between the look at it and the reading.
FileVanishes(q) ==
  /\ Queued(q, "file") /\ InTurn(q) /\ WorkerFree /\ local[File(q)] # Absent
  /\ changes < MaxChanges /\ changes' = changes + 1
  /\ local' = [local EXCEPT ![File(q)] = Absent]
  /\ answer' = [answer EXCEPT ![q] = "query_failed"]
  /\ UNCHANGED <<remote, catalog, prepared, stage, digest, result, faults>>

\* sha256sum on the node.
FileStatus(q) ==
  IF remote[<<Node(q), File(q)>>] = Absent THEN "missing"
  ELSE IF remote[<<Node(q), File(q)>>] = digest[q] THEN "ok" ELSE "checksum_failed"

CompareRemote(q) ==
  /\ answer[q] = "hashed"
  /\ Reply(q, FileStatus(q))
  /\ UNCHANGED <<digest, faults>>

\* ssh returns non-zero or times out, which reads as a missing file, or raises.
CompareFails(q) ==
  /\ answer[q] = "hashed"
  /\ Fault
  /\ \E status \in {"missing", "query_failed"} : Reply(q, status)
  /\ UNCHANGED digest

Ask(q) ==
  \/ Connect(q) \/ ConnectFails(q)
  \/ AskExtension(q) \/ QueryFails(q) \/ ScanPrepared(q)
  \/ HashLocal(q) \/ FileVanishes(q) \/ CompareRemote(q) \/ CompareFails(q)

Ended == stage \in {"reported", "raised"}

Step == Begin \/ Proceed \/ Report \/ \E q \in Questions : Ask(q)

----------------------------------------------------------------------------
(* The rest of the world: builds, deployments, registrations, transactions.*)

Changing ==
  /\ changes < MaxChanges
  /\ changes' = changes + 1
  /\ UNCHANGED <<stage, answer, digest, result, faults>>

ChangeFile(f) ==
  /\ Changing
  /\ \/ /\ \E b \in (Builds \union {Absent}) \ {local[f]} : local' = [local EXCEPT ![f] = b]
        /\ UNCHANGED remote
     \/ /\ \E n \in Nodes : \E b \in (Builds \union {Absent}) \ {remote[<<n, f>>]} :
             remote' = [remote EXCEPT ![<<n, f>>] = b]
        /\ UNCHANGED local
  /\ UNCHANGED <<catalog, prepared>>

ChangeNode(n) ==
  /\ Changing
  /\ \/ /\ n \in Coordinators
        /\ \E v \in (Versions \union {Absent}) \ {catalog[n]} :
             catalog' = [catalog EXCEPT ![n] = v]
        /\ UNCHANGED prepared
     \/ /\ prepared' = [prepared EXCEPT ![n] = ~@]
        /\ UNCHANGED catalog
  /\ UNCHANGED <<local, remote>>

Change == (\E f \in Files : ChangeFile(f)) \/ (\E n \in Nodes : ChangeNode(n))

\* A defect lasts as long as it is there; a stale copy also as long as nobody
\* rebuilds the file it is compared with.
Watch == lasting' = {q \in lasting \intersect Defects' :
                       q \in FileQuestions => local'[File(q)] = local[File(q)]}

Next == (Step \/ Change) /\ Watch

Spec == Init /\ [][Next]_vars

----------------------------------------------------------------------------
(* Properties.                                                             *)

Sound ==
  /\ Defects = {}
  /\ \A m, n \in Coordinators : catalog[m] = catalog[n]
  /\ Nodes = {} \/ Unsupported = {}

\* While the cluster stands still, verify answers OK exactly if every call succeeds
\* and the cluster is as it should be (_errors).
VerdictExact ==
  (stage = "reported" /\ changes = 0) => ((result = "OK") <=> (faults = 0 /\ Sound))

\* Whatever changes meanwhile, a question that could not be answered makes the verdict
\* FAILED (the except branches of the pools, _errors).
FaultsReported == (stage = "reported" /\ faults > 0) => result = "FAILED"

\* Whatever else changes meanwhile, a defect that is there from the beginning to the
\* end is not missed.
LastingDefectsReported == (stage = "reported" /\ lasting # {}) => result = "FAILED"

=============================================================================
