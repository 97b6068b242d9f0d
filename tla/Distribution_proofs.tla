------------------------- MODULE Distribution_proofs -------------------------
(***************************************************************************)
(* Proofs about module Distribution, for every cluster, every set of files *)
(* and every number of worker threads, failures and edits.                 *)
(***************************************************************************)
EXTENDS Distribution, FiniteSetTheorems, WellFoundedInduction, TLAPS

----------------------------------------------------------------------------
(* Paths and jobs.                                                         *)

\* A job is a batch, a node and a file.
LEMMA JobParts ==
  ASSUME NEW j \in Jobs
  PROVE  /\ Batch(j) \in Batches /\ Node(j) \in Nodes /\ File(j) \in Files
         /\ j = <<Batch(j), Node(j), File(j)>>
BY DEF Jobs, Batch, Node, File

\* And every batch, node and file make a job.
LEMMA JobMade ==
  ASSUME NEW b \in Batches, NEW n \in Nodes, NEW f \in Files
  PROVE  /\ <<b, n, f>> \in Jobs
         /\ Batch(<<b, n, f>>) = b /\ Node(<<b, n, f>>) = n /\ File(<<b, n, f>>) = f
BY DEF Jobs, Batch, Node, File

\* The two paths of a job are paths of the model (_remote_target_path,
\* _remote_package_path, copy_file).
LEMMA JobPaths ==
  ASSUME NEW j \in Jobs
  PROVE  RemotePath(j) \in Paths /\ LandingPath(j) \in Paths
<1>1. Node(j) \in Nodes /\ File(j) \in Files
  BY JobParts
<1>2. Site[Node(j)] \in Sites
  BY <1>1 DEF Sites
<1>3. Base[File(j)] \in Names /\ "manifest.yml" \in Names
  BY <1>1 DEF Names
<1>4. TargetDir(File(j)) \in Directories
  BY DEF TargetDir, Directories
<1>5. PackagePlace(File(j))[1] \in Directories /\ PackagePlace(File(j))[2] \in Names
  BY <1>1, <1>3 DEF PackagePlace, Directories
<1>6. RemotePath(j) \in Paths
  <2>1. CASE Batch(j) = "payload"
    BY <2>1, <1>2, <1>3, <1>4 DEF RemotePath, Paths
  <2>2. CASE Batch(j) # "payload"
    BY <2>2, <1>2, <1>5 DEF RemotePath, Paths
  <2>. QED
    BY <2>1, <2>2
<1>7. LandingPath(j) \in Paths
  BY <1>3, <1>6 DEF LandingPath, Paths
<1>. QED
  BY <1>6, <1>7

----------------------------------------------------------------------------
(* Types.                                                                  *)

\* Every content a finished copy can leave is a content.
LEMMA LandedContents ==
  ASSUME TypeOK, ConstantsAssumption, NEW j \in Jobs
  PROVE  Landed(j) \subseteq Contents /\ Torn \in Contents /\ Absent \in Contents
BY DEF Landed, TypeOK, Contents

\* The content of an existing local file is a content.
LEMMA LocalContents ==
  ASSUME TypeOK, NEW f \in Files, Exists(f)
  PROVE  Content(f) \in Contents
BY DEF TypeOK, Exists, Content, Contents

LEMMA JobStepTypeOK ==
  ASSUME TypeOK, ConstantsAssumption, NEW j \in Jobs, JobStep(j)
  PROVE  TypeOK'
<1>. USE JobParts, JobPaths, LandedContents, LocalContents DEF TypeOK
<1>1. CASE Start(j)
  BY <1>1 DEF Start, Settle, Advance, Steps, Failures
<1>2. CASE Hash(j)
  <2>1. digest' \in [Jobs -> Contents]
    <3>1. CASE digest' = digest
      BY <3>1
    <3>2. CASE Exists(File(j)) /\ digest' = [digest EXCEPT ![j] = Content(File(j))]
      BY <3>2
    <3>. QED
      BY <1>2, <3>1, <3>2 DEF Hash
  <2>2. pc' \in [Jobs -> Steps] /\ status' \in [Jobs -> Failures \union Successes \union {"none"}]
    BY <1>2 DEF Hash, Settle, Advance, Steps, Failures
  <2>. QED
    BY <1>2, <2>1, <2>2 DEF Hash
<1>3. CASE CheckDirectory(j)
  BY <1>3 DEF CheckDirectory, Advance, Steps
<1>4. CASE DirectoryFails(j)
  BY <1>4 DEF DirectoryFails, Fault, FaultStatus, Settle, Steps, Failures
<1>5. CASE BeginCopy(j)
  BY <1>5 DEF BeginCopy, Advance, Steps
<1>6. CASE CopyNothing(j)
  BY <1>6 DEF CopyNothing, Settle, Steps, Failures
<1>7. CASE CopyRefused(j)
  BY <1>7 DEF CopyRefused, Fault, FaultStatus, Settle, Steps, Failures
<1>8. CASE EndCopy(j)
  BY <1>8 DEF EndCopy, Advance, Steps
<1>9. CASE CopyBroken(j)
  BY <1>9 DEF CopyBroken, Fault, Settle, Steps, Failures
<1>10. CASE Verify(j)
  BY <1>10 DEF Verify, Success, Settle, Steps, Failures, Successes
<1>11. CASE VerifyFails(j)
  BY <1>11 DEF VerifyFails, Fault, FaultStatus, Settle, Steps, Failures
<1>. QED
  BY <1>1, <1>2, <1>3, <1>4, <1>5, <1>6, <1>7, <1>8, <1>9, <1>10, <1>11 DEF JobStep

\* The steps of the two commands, one by one.
LEMMA CommandCases ==
  ASSUME CommandStep
  PROVE  \/ Preview \/ Plan \/ SubmitPayload
         \/ command = "deploy" /\ SubmitMetadata
         \/ \E b \in Batches : ReportAfter(b) /\ (b = "metadata" <=> command = "deploy")
<1>1. CASE DeployStep
  BY <1>1 DEF DeployStep, Batches
<1>2. CASE DistributeStep
  BY <1>2 DEF DistributeStep, Batches
<1>. QED
  BY <1>1, <1>2 DEF CommandStep

LEMMA CommandTypeOK ==
  ASSUME TypeOK, ConstantsAssumption, CommandStep
  PROVE  TypeOK'
<1>1. PayloadFiles \in SUBSET Files
  BY DEF PayloadFiles, ConstantsAssumption
<1>2. \A b \in BOOLEAN : Verdict(b) \in {"OK", "FAILED"}
  BY DEF Verdict
<1>3. CASE Preview
  BY <1>1, <1>3 DEF Preview, TypeOK, jobVars, Verdict, Phases, Ended
<1>4. CASE Plan
  BY <1>1, <1>4 DEF Plan, TypeOK, jobVars, Phases, Ended
<1>5. CASE SubmitPayload
  BY <1>5 DEF SubmitPayload, Queue, TypeOK, Steps, Phases
<1>6. CASE SubmitMetadata
  BY <1>6 DEF SubmitMetadata, Queue, TypeOK, Steps, Phases
<1>7. ASSUME NEW b \in Batches, ReportAfter(b)
      PROVE  TypeOK'
  BY <1>7 DEF ReportAfter, TypeOK, jobVars, Verdict, Phases, Ended
<1>. QED
  BY <1>3, <1>4, <1>5, <1>6, <1>7, CommandCases

LEMMA NextTypeOK ==
  ASSUME TypeOK, ConstantsAssumption, [Next]_vars
  PROVE  TypeOK'
<1>1. CASE \E f \in Files : Edit(f)
  BY <1>1 DEF Edit, TypeOK, jobVars
<1>2. CASE UNCHANGED vars
  BY <1>2 DEF vars, TypeOK
<1>. QED
  BY <1>1, <1>2, JobStepTypeOK, CommandTypeOK DEF Next

LEMMA InitTypeOK ==
  ASSUME ConstantsAssumption, Init
  PROVE  TypeOK
BY DEF Init, TypeOK, ConstantsAssumption, Contents, Phases, Steps

\* The variables of the deploy command keep their types.
THEOREM TypeCorrect == Spec => []TypeOK
<1>. USE ConstantsAssumption
<1>1. Init => TypeOK
  BY InitTypeOK
<1>2. TypeOK /\ [Next]_vars => TypeOK'
  BY NextTypeOK
<1>. QED
  BY <1>1, <1>2, PTL DEF Spec

----------------------------------------------------------------------------
(* The inductive invariant.                                                *)

\* A job has a status exactly when it is done, and the pools run one after the
\* other: the payload jobs are over before a metadata job exists.
Coherent ==
  /\ \A j \in Jobs : status[j] # "none" <=> pc[j] = "done"
  /\ command # "deploy" =>
       phase # "metadata" /\ \A j \in Jobs : Batch(j) = "metadata" => pc[j] = "none"
  /\ phase \in {"start", "planned", "previewed", "blocked"} =>
       \A j \in Jobs : pc[j] = "none"
  /\ phase = "payload" => \A j \in Jobs : Batch(j) = "metadata" => pc[j] = "none"
  /\ phase \in {"metadata", "reported"} => PoolDrained("payload")
  /\ phase = "reported" => PoolDrained("metadata")
  /\ phase = "reported" => result = Verdict(AllSucceeded)

\* While the sources stand still the planned files are the files of both pools.
Covered ==
  edits = 0 =>
    /\ phase \in {"planned", "payload", "metadata", "reported"} => planned = PayloadFiles
    /\ phase \in {"payload", "metadata", "reported"} =>
         \A n \in Nodes, f \in planned : pc[<<"payload", n, f>>] # "none"
    /\ command = "deploy" /\ phase \in {"metadata", "reported"} =>
         \A n \in Nodes, f \in planned \union {Manifest} :
           pc[<<"metadata", n, f>>] # "none"

\* While the sources stand still a digest is that of the file as it is.
Fresh ==
  edits = 0 =>
    \A j \in Jobs :
      pc[j] \in {"directory", "copy", "copying", "verify"} \/ status[j] \in Successes
        => digest[j] = Content(File(j))

\* k may have damaged the file at path p: its copy is under way, is not verified
\* yet, or has failed.
Disturbs(k, p) ==
  LandingPath(k) = p /\ (pc[k] \in {"copying", "verify"} \/ status[k] \in Failures)

\* What a job has delivered is there, unless another job is to blame that has not
\* succeeded.  This is what makes nodes that share directories safe.
Held ==
  edits = 0 =>
    \A j \in Jobs : status[j] \in Successes =>
      Delivered(j) \/ \E k \in Jobs : Disturbs(k, RemotePath(j))

\* A remote call that failed has left a job that failed.
FaultsSeen == faults > 0 => \E j \in Jobs : status[j] \in Failures

\* What holds on every cluster and of every plugin, and what needs the names below.
Core == TypeOK /\ Coherent /\ Covered /\ Fresh
IInv == Core /\ Held

\* What the proofs assume of the plugin and the cluster: copies land where their
\* checksums are read, and two jobs that share a path send the same file to the same place.
NamesKept == \A j \in Jobs : LandingPath(j) = RemotePath(j)
NamesDistinct ==
  \A j, k \in Jobs : RemotePath(j) = RemotePath(k) =>
    File(j) = File(k) /\ Batch(j) = Batch(k)

\* scp keeps every name; opentenbase_ctl keeps them if the manifest file already has the
\* name that the package cache gives it, and only then.
LEMMA NamesKeptWhen ==
  ASSUME Nodes # {}
  PROVE  NamesKept <=> (Backend = "ssh_scp" \/ Base[Manifest] = "manifest.yml")
<1>1. Backend \in {"ssh_scp", "opentenbase_ctl"} /\ Manifest \in Files
  BY ConstantsAssumption
<1>2. CASE Backend = "ssh_scp"
  BY <1>2 DEF NamesKept, LandingPath
<1>3. CASE Backend = "opentenbase_ctl"
  <2>1. ASSUME Base[Manifest] = "manifest.yml", NEW j \in Jobs
        PROVE  LandingPath(j) = RemotePath(j)
    BY <1>3, <2>1 DEF LandingPath, RemotePath, PackagePlace
  <2>2. PICK n \in Nodes : TRUE
    OBVIOUS
  <2>3. PICK j \in Jobs : Batch(j) = "metadata" /\ File(j) = Manifest
    BY <1>1, <2>2, JobMade DEF Batches
  <2>4. RemotePath(j) = <<Site[Node(j)], PackageRoot, "manifest.yml">>
    BY <2>3 DEF RemotePath, PackagePlace
  <2>5. LandingPath(j) = <<Site[Node(j)], PackageRoot, Base[Manifest]>>
    BY <1>3, <2>3, <2>4 DEF LandingPath
  <2>. QED
    BY <1>3, <2>1, <2>4, <2>5 DEF NamesKept
<1>. QED
  BY <1>1, <1>2, <1>3

----------------------------------------------------------------------------
(* What one step of a job does, whichever step it is.                      *)

JobOnly(j) ==
  /\ UNCHANGED <<command, local, phase, planned, result, edits>>
  /\ \A k \in Jobs : k # j =>
       /\ pc'[k] = pc[k] /\ status'[k] = status[k] /\ digest'[k] = digest[k]
  /\ \A p \in Paths : p # LandingPath(j) => remote'[p] = remote[p]

Forward(j) ==
  /\ pc[j] \notin {"none", "done"}
  /\ pc'[j] \notin {"none", "queued"}
  /\ pc'[j] = "done" => status'[j] \in Failures \union Successes
  /\ pc'[j] # "done" => status'[j] = status[j]

\* A step that writes, or that ends a copy, leaves the job to blame until its
\* checksum has matched.
Answerable(j) ==
  /\ status'[j] \in Successes /\ pc'[j] = "done" =>
       remote' = remote /\ digest' = digest /\ pc[j] = "verify" /\ ChecksumMatches(j)
  /\ remote' # remote \/ pc[j] \in {"copying", "verify"} =>
       \/ pc'[j] \in {"copying", "verify"} \/ status'[j] \in Failures
       \/ status'[j] \in Successes /\ pc'[j] = "done"

Digested(j) ==
  pc'[j] \in {"directory", "copy", "copying", "verify"} =>
    \/ digest'[j] = Content(File(j))
    \/ digest'[j] = digest[j] /\ pc[j] \in {"directory", "copy", "copying", "verify"}

Shape(j) ==
  /\ JobOnly(j) /\ Forward(j) /\ Answerable(j) /\ Digested(j)
  /\ faults' # faults => status'[j] \in Failures

LEMMA JobStepShape ==
  ASSUME TypeOK, NEW j \in Jobs, JobStep(j)
  PROVE  Shape(j)
<1>. USE JobPaths DEF TypeOK, Shape, JobOnly, Forward, Answerable, Digested,
                      Failures, Successes
<1>1. CASE Start(j)
  BY <1>1 DEF Start, FirstQueued, Settle, Advance
<1>2. CASE Hash(j)
  BY <1>2 DEF Hash, Settle, Advance
<1>3. CASE CheckDirectory(j)
  BY <1>3 DEF CheckDirectory, Advance
<1>4. CASE DirectoryFails(j)
  BY <1>4 DEF DirectoryFails, Fault, FaultStatus, Settle
<1>5. CASE BeginCopy(j)
  BY <1>5 DEF BeginCopy, Advance
<1>6. CASE CopyNothing(j)
  BY <1>6 DEF CopyNothing, Settle
<1>7. CASE CopyRefused(j)
  BY <1>7 DEF CopyRefused, Fault, FaultStatus, Settle
<1>8. CASE EndCopy(j)
  BY <1>8 DEF EndCopy, Advance
<1>9. CASE CopyBroken(j)
  BY <1>9 DEF CopyBroken, Fault, Settle
<1>10. CASE Verify(j)
  BY <1>10 DEF Verify, Success, Settle
<1>11. CASE VerifyFails(j)
  BY <1>11 DEF VerifyFails, Fault, FaultStatus, Settle
<1>. QED
  BY <1>1, <1>2, <1>3, <1>4, <1>5, <1>6, <1>7, <1>8, <1>9, <1>10, <1>11 DEF JobStep

----------------------------------------------------------------------------
(* Preservation of Coherent.                                               *)

\* The two kinds of result are different, and neither is "none".
LEMMA StatusesDisjoint ==
  /\ Failures \intersect Successes = {}
  /\ "none" \notin Failures \union Successes
BY DEF Failures, Successes

LEMMA JobStepCoherent ==
  ASSUME Core, NEW j \in Jobs, Shape(j)
  PROVE  Coherent'
<1>. USE DEF Core, Coherent, Shape, JobOnly, Forward, TypeOK
<1>1. (\A k \in Jobs : status[k] # "none" <=> pc[k] = "done")'
  BY StatusesDisjoint
<1>2. phase \in {"payload", "metadata"}
  BY JobParts DEF PoolDrained, Batches, Phases, Ended
<1>3. phase = "payload" => Batch(j) = "payload"
  BY <1>2, JobParts DEF Batches
<1>4. phase = "metadata" => Batch(j) = "metadata"
  BY <1>2, JobParts DEF Batches, PoolDrained
<1>5. (phase = "payload" => \A k \in Jobs : Batch(k) = "metadata" => pc[k] = "none")'
  BY <1>3
<1>6. (phase \in {"metadata", "reported"} => PoolDrained("payload"))'
  BY <1>2, <1>4 DEF PoolDrained
<1>. QED
  BY <1>1, <1>2, <1>5, <1>6

LEMMA CommandCoherent ==
  ASSUME Core, CommandStep
  PROVE  Coherent'
<1>. USE JobParts DEF Core, Coherent, TypeOK, jobVars, PoolDrained, Batches
<1>1. CASE Preview
  BY <1>1 DEF Preview
<1>2. CASE Plan
  BY <1>2 DEF Plan
<1>3. CASE SubmitPayload
  BY <1>3 DEF SubmitPayload, Queue
<1>4. CASE command = "deploy" /\ SubmitMetadata
  BY <1>4 DEF SubmitMetadata, Queue
<1>5. ASSUME NEW b \in Batches, ReportAfter(b), b = "metadata" <=> command = "deploy"
      PROVE  Coherent'
  BY <1>5 DEF ReportAfter, AllSucceeded
<1>. QED
  BY <1>1, <1>2, <1>3, <1>4, <1>5, CommandCases

----------------------------------------------------------------------------
(* Preservation of Covered.                                                *)

LEMMA JobStepCovered ==
  ASSUME Core, NEW j \in Jobs, Shape(j)
  PROVE  Covered'
<1>1. PayloadFiles' = PayloadFiles
  BY DEF Shape, JobOnly, PayloadFiles, Exists
<1>2. \A k \in Jobs : pc[k] # "none" => pc'[k] # "none"
  BY DEF Shape, JobOnly, Forward
<1>3. \A b \in Batches, n \in Nodes, f \in Files : <<b, n, f>> \in Jobs
  BY JobMade
<1>. QED
  BY <1>1, <1>2, <1>3, ConstantsAssumption
  DEF Shape, JobOnly, Core, Covered, TypeOK, Batches, ConstantsAssumption

LEMMA CommandCovered ==
  ASSUME Core, CommandStep
  PROVE  Covered'
<1>. USE ConstantsAssumption DEF Core, Covered, TypeOK, jobVars, Batches, ConstantsAssumption
<1>1. \A b \in Batches, n \in Nodes, f \in Files :
        <<b, n, f>> \in Jobs /\ Batch(<<b, n, f>>) = b /\ File(<<b, n, f>>) = f
  BY JobMade
<1>2. PayloadFiles \subseteq Files
  BY DEF PayloadFiles
<1>3. local' = local /\ edits' = edits /\ PayloadFiles' = PayloadFiles
  BY CommandCases DEF Preview, Plan, SubmitPayload, SubmitMetadata, ReportAfter,
                      PayloadFiles, Exists
<1>4. CASE Preview
  BY <1>3, <1>4 DEF Preview
<1>5. CASE Plan
  BY <1>3, <1>5 DEF Plan
<1>6. CASE SubmitPayload
  BY <1>1, <1>2, <1>3, <1>6 DEF SubmitPayload, Queue
<1>7. CASE SubmitMetadata
  BY <1>1, <1>2, <1>3, <1>7 DEF SubmitMetadata, Queue
<1>8. ASSUME NEW b \in Batches, ReportAfter(b), b = "metadata" <=> command = "deploy"
      PROVE  Covered'
  BY <1>3, <1>8 DEF ReportAfter
<1>. QED
  BY <1>4, <1>5, <1>6, <1>7, <1>8, CommandCases

----------------------------------------------------------------------------
(* Preservation of Fresh, Held and FaultsSeen.                             *)

LEMMA JobStepFresh ==
  ASSUME Core, NEW j \in Jobs, Shape(j)
  PROVE  Fresh'
<1>1. \A f : Content(f)' = Content(f)
  BY DEF Shape, JobOnly, Content
<1>2. (status[j] \in Successes)' => pc'[j] = "done" /\ pc[j] = "verify"
  BY StatusesDisjoint
  DEF Shape, Forward, Answerable, Core, Coherent, TypeOK, Failures, Successes
<1>. QED
  BY <1>1, <1>2 DEF Shape, JobOnly, Answerable, Digested, Core, Fresh

LEMMA JobStepHeld ==
  ASSUME NamesKept, NamesDistinct, IInv, NEW j \in Jobs, Shape(j)
  PROVE  Held'
<1>. SUFFICES ASSUME edits = 0, NEW i \in Jobs, status'[i] \in Successes
              PROVE  Delivered(i)' \/ \E k \in Jobs : Disturbs(k, RemotePath(i))'
  BY DEF Held, Shape, JobOnly, IInv, Core
<1>. DEFINE p == RemotePath(i)
<1>1. p \in Paths /\ Content(File(i))' = Content(File(i))
  BY JobPaths DEF Shape, JobOnly, Content
<1>2. \A k \in Jobs : k # j /\ Disturbs(k, p) => Disturbs(k, p)'
  BY DEF Shape, JobOnly, Disturbs
<1>3. CASE i = j
  <2>1. pc[j] = "verify" /\ status[j] = "none"
    BY <1>3, StatusesDisjoint
    DEF Shape, Forward, IInv, Core, Coherent, TypeOK, Answerable, Failures, Successes
  <2>2. remote' = remote /\ ChecksumMatches(j)
    BY <1>3, <2>1, StatusesDisjoint DEF Shape, Forward, Answerable
  <2>3. digest[j] = Content(File(j))
    BY <2>1 DEF IInv, Core, Fresh
  <2>. QED
    BY <1>1, <1>3, <2>2, <2>3 DEF ChecksumMatches, Delivered
<1>4. CASE i # j /\ LandingPath(j) = p
  <2>1. status[i] \in Successes
    BY <1>4 DEF Shape, JobOnly
  <2>2. Delivered(i) \/ \E k \in Jobs : Disturbs(k, p)
    BY <2>1 DEF IInv, Core, Held
  <2>3. CASE pc'[j] \in {"copying", "verify"} \/ status'[j] \in Failures
    BY <1>4, <2>3 DEF Disturbs
  <2>4. CASE status'[j] \in Successes /\ pc'[j] = "done"
    <3>1. remote' = remote /\ ChecksumMatches(j) /\ pc[j] = "verify"
      BY <2>4 DEF Shape, Answerable
    <3>2. digest[j] = Content(File(j))
      BY <3>1 DEF IInv, Core, Fresh
    <3>3. RemotePath(j) = p /\ File(i) = File(j)
      BY <1>4 DEF NamesKept, NamesDistinct
    <3>. QED
      BY <1>1, <3>1, <3>2, <3>3 DEF ChecksumMatches, Delivered
  <2>5. CASE remote' = remote /\ pc[j] \notin {"copying", "verify"}
    <3>1. status[j] \notin Failures
      BY StatusesDisjoint DEF Shape, Forward, IInv, Core, Coherent
    <3>. QED
      BY <1>1, <1>2, <2>2, <2>5, <3>1 DEF Delivered, Disturbs
  <2>. QED
    BY <2>3, <2>4, <2>5 DEF Shape, Answerable
<1>5. CASE i # j /\ LandingPath(j) # p
  <2>1. status[i] \in Successes
    BY <1>5 DEF Shape, JobOnly
  <2>2. remote'[p] = remote[p]
    BY <1>1, <1>5 DEF Shape, JobOnly
  <2>3. ~Disturbs(j, p)
    BY <1>5 DEF Disturbs
  <2>. QED
    BY <1>1, <1>2, <2>1, <2>2, <2>3 DEF IInv, Core, Held, Delivered
<1>. QED
  BY <1>3, <1>4, <1>5

LEMMA CommandFreshHeld ==
  ASSUME Core, CommandStep
  PROVE  Fresh' /\ (Held => Held')
<1>1. UNCHANGED <<local, remote, edits, digest, status>>
  BY CommandCases DEF Preview, Plan, SubmitPayload, SubmitMetadata, ReportAfter, jobVars
<1>2. \A j \in Jobs : \A s \in {"directory", "copy", "copying", "verify"} :
        pc'[j] = s <=> pc[j] = s
  <2>1. CASE UNCHANGED pc
    BY <2>1
  <2>2. CASE SubmitPayload
    BY <2>2 DEF SubmitPayload, Queue, Core, Coherent
  <2>3. CASE SubmitMetadata
    BY <2>3, JobParts DEF SubmitMetadata, Queue, Core, Coherent, Batches
  <2>. QED
    BY <2>1, <2>2, <2>3, CommandCases DEF Preview, Plan, ReportAfter, jobVars
<1>3. Fresh'
  BY <1>1, <1>2 DEF Core, Fresh, Content
<1>4. Held => Held'
  BY <1>1, <1>2 DEF Held, Disturbs, Delivered, Content
<1>. QED
  BY <1>3, <1>4

----------------------------------------------------------------------------
(* The invariant holds initially and is preserved.                         *)

LEMMA InitIInv ==
  ASSUME Init
  PROVE  IInv /\ FaultsSeen
<1>1. TypeOK
  BY InitTypeOK, ConstantsAssumption
<1>2. Coherent
  BY DEF Init, Coherent
<1>3. Covered
  BY DEF Init, Covered
<1>4. Fresh /\ Held /\ FaultsSeen
  BY StatusesDisjoint DEF Init, Fresh, Held, FaultsSeen
<1>. QED
  BY <1>1, <1>2, <1>3, <1>4 DEF IInv, Core

\* Once a source has changed, nothing is claimed about digests and copies.
LEMMA EditCore ==
  ASSUME Core, NEW f \in Files, Edit(f)
  PROVE  Coherent' /\ Covered' /\ Fresh' /\ Held'
<1>1. edits' # 0
  BY DEF Edit, Core, TypeOK
<1>2. UNCHANGED <<command, phase, pc, status, result>>
  BY DEF Edit, jobVars
<1>3. Coherent'
  BY <1>2 DEF Core, Coherent, PoolDrained, AllSucceeded
<1>. QED
  BY <1>1, <1>3 DEF Covered, Fresh, Held

LEMMA StutterCore ==
  ASSUME Core, UNCHANGED vars
  PROVE  Coherent' /\ Covered' /\ Fresh' /\ (Held => Held')
<1>. USE DEF Core, vars
<1>1. Coherent'
  BY DEF Coherent, PoolDrained, AllSucceeded
<1>2. Covered'
  BY DEF Covered, PayloadFiles, Exists
<1>3. Fresh'
  BY DEF Fresh, Content
<1>4. Held => Held'
  BY DEF Held, Disturbs, Delivered, Content
<1>. QED
  BY <1>1, <1>2, <1>3, <1>4

\* The part of the invariant that needs no assumption on names.
LEMMA NextCore ==
  ASSUME Core, [Next]_vars
  PROVE  Core'
<1>1. TypeOK'
  BY NextTypeOK, ConstantsAssumption DEF Core
<1>2. CASE \E j \in Jobs : JobStep(j)
  <2>1. PICK j \in Jobs : Shape(j)
    BY <1>2, JobStepShape DEF Core
  <2>. QED
    BY <1>1, <2>1, JobStepCoherent, JobStepCovered, JobStepFresh DEF Core
<1>. QED
  BY <1>1, <1>2, CommandCoherent, CommandCovered, CommandFreshHeld, EditCore,
     StutterCore DEF Core, Next

LEMMA NextIInv ==
  ASSUME NamesKept, NamesDistinct, IInv, [Next]_vars
  PROVE  IInv'
<1>1. CASE \E j \in Jobs : JobStep(j)
  <2>1. PICK j \in Jobs : Shape(j)
    BY <1>1, JobStepShape DEF IInv, Core
  <2>. QED
    BY <2>1, JobStepHeld, NextCore DEF IInv
<1>. QED
  BY <1>1, NextCore, CommandFreshHeld, EditCore, StutterCore DEF IInv, Core, Next

----------------------------------------------------------------------------
(* Theorem: OK means that the plan is on the nodes.                        *)

LEMMA HeldAtTheEnd ==
  ASSUME IInv
  PROVE  DeployedMatchesPlan
<1>. SUFFICES ASSUME phase = "reported", result = "OK", edits = 0, NEW j \in Due(planned)
              PROVE  Delivered(j)
  BY DEF DeployedMatchesPlan
<1>1. \A i \in Jobs : pc[i] \in {"none", "done"}
  BY JobParts DEF IInv, Core, Coherent, PoolDrained, Batches
<1>2. AllSucceeded
  BY DEF IInv, Core, Coherent, Verdict
<1>3. \A i \in Jobs : status[i] \notin Failures
  BY <1>1, <1>2, StatusesDisjoint DEF IInv, Core, Coherent, AllSucceeded
<1>4. \A i, k \in Jobs : ~Disturbs(k, RemotePath(i))
  BY <1>1, <1>3 DEF Disturbs
<1>5. \A i \in Jobs : pc[i] # "none" => Delivered(i)
  BY <1>1, <1>2, <1>4 DEF IInv, Core, Held, AllSucceeded
<1>6. j \in Jobs /\ j = <<Batch(j), Node(j), File(j)>> /\ Node(j) \in Nodes
  BY JobParts DEF Due
<1>7. pc[j] # "none"
  BY <1>6 DEF Due, IInv, Core, Covered
<1>. QED
  BY <1>5, <1>6, <1>7

\* On a cluster of any size, co-located or not, for any number of workers and
\* however many remote calls fail: "Result: OK" of an undisturbed deploy command
\* means that every planned file is complete on every node, if copies land where
\* they are verified and no two files share a remote path.
THEOREM DeploymentCorrect ==
  ASSUME NamesKept, NamesDistinct
  PROVE  Spec => []DeployedMatchesPlan
<1>1. Init => IInv
  BY InitIInv
<1>2. IInv /\ [Next]_vars => IInv'
  BY NextIInv
<1>3. IInv => DeployedMatchesPlan
  BY HeldAtTheEnd
<1>. QED
  BY <1>1, <1>2, <1>3, PTL DEF Spec

----------------------------------------------------------------------------
(* Theorem: no failure of a remote call is lost.                           *)

LEMMA JobStepFaultsSeen ==
  ASSUME Core, FaultsSeen, NEW j \in Jobs, Shape(j)
  PROVE  FaultsSeen'
<1>1. CASE faults' # faults
  BY <1>1 DEF Shape, FaultsSeen
<1>2. CASE faults' = faults
  <2>1. status[j] \notin Failures
    BY StatusesDisjoint DEF Shape, Forward, Core, Coherent
  <2>. QED
    BY <1>2, <2>1 DEF FaultsSeen, Shape, JobOnly
<1>. QED
  BY <1>1, <1>2

LEMMA NextFaultsSeen ==
  ASSUME Core, FaultsSeen, [Next]_vars
  PROVE  FaultsSeen'
<1>1. CASE \E j \in Jobs : JobStep(j)
  <2>1. PICK j \in Jobs : Shape(j)
    BY <1>1, JobStepShape DEF Core
  <2>. QED
    BY <2>1, JobStepFaultsSeen
<1>2. CASE UNCHANGED <<status, faults>>
  BY <1>2 DEF FaultsSeen
<1>. QED
  BY <1>1, <1>2, CommandCases DEF Next, vars, jobVars, Preview, Plan, SubmitPayload,
                                  SubmitMetadata, ReportAfter, Edit

\* On every cluster and for every plugin, a remote call that fails or raises in any
\* job of either pool makes the command print "Result: FAILED".
THEOREM FailuresReported == Spec => []NoFaultSwallowed
<1>1. Init => Core /\ FaultsSeen
  BY InitIInv DEF IInv
<1>2. Core /\ FaultsSeen /\ [Next]_vars => (Core /\ FaultsSeen)'
  BY NextCore, NextFaultsSeen
<1>3. Core /\ FaultsSeen => NoFaultSwallowed
  BY StatusesDisjoint DEF Core, Coherent, FaultsSeen, NoFaultSwallowed, AllSucceeded, Verdict
<1>. QED
  BY <1>1, <1>2, <1>3, PTL DEF Spec

----------------------------------------------------------------------------
(* Theorem: what is verified stays.                                        *)

\* Copies land where they are verified, and no two jobs share a path: as NamesKept
\* and NamesDistinct say, and the nodes have directories of their own.
PathsApart == \A j, k \in Jobs : LandingPath(j) = RemotePath(k) => j = k

\* On nodes with directories of their own, a file that a job has verified is left
\* alone by every later step of the command, also while the sources change.
THEOREM VerifiedStay ==
  ASSUME PathsApart
  PROVE  Spec => []VerifiedCopiesStay
<1>1. Init => Core /\ VerifiedCopiesStay
  BY InitIInv, StatusesDisjoint DEF IInv, Init, VerifiedCopiesStay
<1>2. Core /\ VerifiedCopiesStay /\ [Next]_vars => (Core /\ VerifiedCopiesStay)'
  <2>. SUFFICES ASSUME Core, VerifiedCopiesStay, [Next]_vars
                PROVE  VerifiedCopiesStay'
    BY NextCore
  <2>1. CASE \E j \in Jobs : JobStep(j)
    <3>1. PICK j \in Jobs : Shape(j)
      BY <2>1, JobStepShape DEF Core
    <3>2. status'[j] \in Successes => remote'[RemotePath(j)] = digest'[j]
      BY <3>1, StatusesDisjoint
      DEF Shape, Forward, Answerable, ChecksumMatches, Core, Coherent
    <3>3. ASSUME NEW k \in Jobs, k # j, status'[k] \in Successes
          PROVE  remote'[RemotePath(k)] = digest'[k]
      BY <3>1, <3>3, JobPaths DEF Shape, JobOnly, PathsApart, VerifiedCopiesStay
    <3>. QED
      BY <3>2, <3>3 DEF VerifiedCopiesStay
  <2>2. CASE UNCHANGED <<remote, digest, status>>
    BY <2>2 DEF VerifiedCopiesStay
  <2>. QED
    BY <2>1, <2>2, CommandCases DEF Next, vars, jobVars, Preview, Plan, SubmitPayload,
                                    SubmitMetadata, ReportAfter, Edit
<1>. QED
  BY <1>1, <1>2, PTL DEF Spec

----------------------------------------------------------------------------
(* Theorem: the command writes what it has announced.                      *)

\* While the sources stand still, every job is one of the printed plan.
Announced ==
  edits = 0 =>
    \A j \in Jobs : pc[j] # "none" => j \in Due(planned)

LEMMA NextAnnounced ==
  ASSUME Core, Announced, [Next]_vars
  PROVE  Announced'
<1>1. CASE \E j \in Jobs : JobStep(j)
  BY <1>1, JobStepShape DEF Core, Shape, JobOnly, Forward, Announced, Due
<1>2. CASE Preview \/ Plan
  BY <1>2 DEF Preview, Plan, Core, Coherent, Announced, jobVars
<1>3. CASE SubmitPayload
  BY <1>3 DEF SubmitPayload, Queue, Core, Coherent, Covered, Announced, Due
<1>4. CASE command = "deploy" /\ SubmitMetadata
  BY <1>4 DEF SubmitMetadata, Queue, Core, Covered, Announced, Due
<1>5. CASE (\E b \in Batches : ReportAfter(b)) \/ UNCHANGED vars
  BY <1>5 DEF ReportAfter, Announced, Due, vars, jobVars
<1>6. CASE \E f \in Files : Edit(f)
  BY <1>6 DEF Edit, Core, TypeOK, Announced
<1>. QED
  BY <1>1, <1>2, <1>3, <1>4, <1>5, <1>6, CommandCases DEF Next

\* While the sources stand still, and if copies keep the names of their checksums,
\* the command writes no path that the printed plan and its metadata do not name.
THEOREM WritesPlanned ==
  ASSUME NamesKept
  PROVE  Spec => OnlyPlannedWrites
<1>1. Init => Core /\ Announced
  BY InitIInv DEF IInv, Init, Announced
<1>2. Core /\ Announced /\ [Next]_vars => (Core /\ Announced)'
  BY NextCore, NextAnnounced
<1>. DEFINE Named(p) == \E j \in Due(planned) : p = RemotePath(j)
<1>3. Core /\ Announced /\ [Next]_vars =>
        [edits' = 0 => \A p \in Paths : remote'[p] # remote[p] => Named(p)]_vars
  <2>. SUFFICES ASSUME Core, Announced, Next, edits' = 0,
                       NEW p \in Paths, remote'[p] # remote[p]
                PROVE  Named(p)
    OBVIOUS
  <2>1. PICK j \in Jobs : Shape(j)
    BY JobStepShape, CommandCases
    DEF Next, Preview, Plan, SubmitPayload, SubmitMetadata, ReportAfter, Edit, Core
  <2>2. p = RemotePath(j) /\ pc[j] # "none" /\ edits = 0
    BY <2>1 DEF Shape, JobOnly, Forward, NamesKept
  <2>. QED
    BY <2>2 DEF Announced
<1>. QED
  BY <1>1, <1>2, <1>3, PTL DEF Spec, OnlyPlannedWrites

----------------------------------------------------------------------------
(* Theorem: the command implements its contract.                           *)

Owed == IF Accepted THEN Due(planned) ELSE {}
Intact == {j \in Jobs : Delivered(j)}

\* A job disturbs only the deliveries of its own batch.
LEMMA BatchesApart ==
  ASSUME NamesKept, NamesDistinct, NEW j \in Jobs, Shape(j),
         NEW i \in Jobs, Batch(i) # Batch(j)
  PROVE  Delivered(i)' = Delivered(i)
BY JobPaths DEF Shape, JobOnly, Delivered, Content, NamesKept, NamesDistinct

\* With OK the command has delivered what it owes.
LEMMA OwedAtTheEnd ==
  ASSUME IInv
  PROVE  phase = "reported" /\ result = "OK" /\ edits = 0 => Owed \subseteq Intact
BY HeldAtTheEnd DEF DeployedMatchesPlan, Owed, Intact, Due

LEMMA ContractStep ==
  ASSUME NamesKept, NamesDistinct, MaxEdits = 0, IInv, edits = 0, [Next]_vars
  PROVE  [Contract!ContractNext]_Contract!contractVars
<1>. USE DEF Contract!ContractNext, Contract!contractVars
<1>0. (phase = "reported" /\ result = "OK" /\ edits = 0 => Owed \subseteq Intact)'
  BY NextIInv, OwedAtTheEnd, PTL
<1>1. CASE Preview
  BY <1>1 DEF Preview, Contract!Decline, Accepted, Verdict, Delivered, Content, jobVars
<1>2. CASE Plan /\ PlanErrors
  BY <1>2 DEF Plan, Contract!Decline, Accepted, Delivered, Content, jobVars
<1>3. CASE Plan /\ ~PlanErrors
  BY <1>3, JobParts
  DEF Plan, Contract!Accept, Accepted, Due, Delivered, Content, jobVars, Batches
<1>4. CASE SubmitPayload
  BY <1>4 DEF SubmitPayload, Accepted, Due, Delivered, Content
<1>5. CASE SubmitMetadata
  BY <1>5 DEF SubmitMetadata, Contract!TurnToMetadata, Accepted, Due, Delivered, Content
<1>6. ASSUME NEW b \in Batches, ReportAfter(b), b = "metadata" <=> command = "deploy"
      PROVE  Contract!ContractNext
  <2>1. result' = "OK" => Owed' \subseteq Intact'
    BY <1>0, <1>6 DEF ReportAfter
  <2>2. b = "payload" => Owed \intersect {j \in Jobs : Batch(j) = "metadata"} = {}
    BY <1>6 DEF Owed, Due
  <2>3. b \in {"payload", "metadata"}
    BY DEF Batches
  <2>4. Contract!Close
    BY <1>6, <2>1, <2>2, <2>3
    DEF ReportAfter, Contract!Close, Accepted, Verdict, Due, Delivered, Content, jobVars, Owed, Intact
  <2>. QED
    BY <2>4
<1>7. CASE \E j \in Jobs : JobStep(j)
  <2>1. PICK j \in Jobs : Shape(j)
    BY <1>7, JobStepShape DEF IInv, Core
  <2>2. UNCHANGED <<phase, planned, result>>
    BY <2>1 DEF Shape, JobOnly
  <2>0. UNCHANGED command
    BY <2>1 DEF Shape, JobOnly
  <2>3. \A i \in Jobs : Batch(i) # Batch(j) => Delivered(i)' = Delivered(i)
    BY <2>1, BatchesApart
  <2>4. \A i \in Jobs : Batch(i) \in {"payload", "metadata"}
    BY JobParts DEF Batches
  <2>5. CASE phase = "payload"
    <3>1. Batch(j) = "payload"
      BY <2>1, <2>4, <2>5 DEF Shape, Forward, IInv, Core, Coherent
    <3>. QED
      BY <2>0, <2>2, <2>3, <2>4, <2>5, <3>1 DEF Contract!DeliverPayload, Accepted, Due
  <2>6. CASE phase = "metadata"
    <3>1. Batch(j) = "metadata"
      BY <2>1, <2>4, <2>6 DEF Shape, Forward, IInv, Core, Coherent, PoolDrained
    <3>. QED
      BY <2>0, <2>2, <2>3, <2>4, <2>6, <3>1 DEF Contract!DeliverMetadata, Accepted, Due
  <2>7. phase \in {"payload", "metadata"}
    BY <2>1, <2>4
    DEF Shape, Forward, IInv, Core, Coherent, PoolDrained, TypeOK, Phases, Ended
  <2>. QED
    BY <2>5, <2>6, <2>7
<1>8. CASE \E f \in Files : Edit(f)
  BY <1>8 DEF Edit, IInv, Core, TypeOK
<1>9. CASE UNCHANGED vars
  BY <1>9 DEF vars, Accepted, Due, Delivered, Content
<1>. QED
  BY <1>1, <1>2, <1>3, <1>4, <1>5, <1>6, <1>7, <1>8, <1>9, CommandCases DEF Next

\* On every cluster and for every plugin whose sources stand still and whose files
\* have paths of their own, the deploy command implements module DeployContract.
THEOREM ContractKept ==
  ASSUME NamesKept, NamesDistinct, MaxEdits = 0
  PROVE  Spec => KeepsContract
<1>1. Init => IInv /\ edits = 0 /\ Contract!ContractInit
  BY InitIInv DEF Init, Contract!ContractInit, Accepted, Batches, Jobs, Batch
<1>2. IInv /\ edits = 0 /\ [Next]_vars => (IInv /\ edits = 0)'
  <2>. SUFFICES ASSUME IInv, edits = 0, [Next]_vars
                PROVE  edits' = 0
    BY NextIInv
  <2>. QED
    BY JobStepShape, CommandCases
    DEF Next, vars, Preview, Plan, SubmitPayload, SubmitMetadata, ReportAfter,
        Edit, Shape, JobOnly, IInv, Core, TypeOK
<1>3. IInv /\ edits = 0 /\ [Next]_vars => [Contract!ContractNext]_Contract!contractVars
  BY ContractStep
<1>. QED
  BY <1>1, <1>2, <1>3, PTL DEF Spec, KeepsContract, Contract!ContractSpec

----------------------------------------------------------------------------
(* Theorem: the jobs do not make each other fail.                          *)

\* While no call fails and no source changes, no job has failed and none can.
Smooth ==
  edits = 0 /\ faults = 0 =>
    /\ Exists(Manifest)
    /\ phase \in {"planned", "payload", "metadata"} =>
         \A f \in planned : Exists(f) /\ Suffix[f] # "other"
    /\ \A j \in Jobs :
         /\ status[j] \in Successes \union {"none"}
         /\ pc[j] # "none" =>
              Exists(File(j)) /\ (Batch(j) = "payload" => Suffix[File(j)] # "other")
         /\ pc[j] = "copying" => sent[j] = Content(File(j))
         /\ pc[j] = "verify" => remote[RemotePath(j)] = Content(File(j))

LEMMA JobStepSmooth ==
  ASSUME NamesKept, PathsApart, Core, Smooth, NEW j \in Jobs, JobStep(j)
  PROVE  Smooth'
<1>. SUFFICES ASSUME edits' = 0, faults' = 0
              PROVE  Smooth'
  BY DEF Smooth
<1>1. Shape(j)
  BY JobStepShape DEF Core
<1>2. edits = 0 /\ faults = 0
  BY <1>1 DEF JobStep, Start, Hash, CheckDirectory, DirectoryFails, BeginCopy, CopyNothing,
              CopyRefused, EndCopy, CopyBroken, Verify, VerifyFails, Fault, Core, TypeOK,
              Shape, JobOnly
<1>3. /\ UNCHANGED <<local, phase, planned>>
      /\ \A f : Exists(f)' = Exists(f) /\ Content(f)' = Content(f)
  BY <1>1 DEF Shape, JobOnly, Exists, Content
<1>4. pc[j] # "none" /\ Exists(File(j)) /\ (Batch(j) = "payload" => Suffix[File(j)] # "other")
  BY <1>1, <1>2 DEF Shape, Forward, Smooth
<1>5. ~Contended(j)
  BY DEF Contended, NamesKept, PathsApart
<1>6. /\ status'[j] \in Successes \union {"none"}
      /\ pc'[j] = "copying" => sent'[j] = Content(File(j))
      /\ pc'[j] = "verify" => remote'[RemotePath(j)] = Content(File(j))
  <2>. USE <1>2, <1>4, JobPaths DEF Core, TypeOK, Smooth
  <2>1. CASE Start(j)
    BY <2>1 DEF Start, FirstQueued, Settle, Advance
  <2>2. CASE Hash(j)
    BY <2>2 DEF Hash, Settle, Advance
  <2>3. CASE CheckDirectory(j)
    BY <2>3 DEF CheckDirectory, Advance
  <2>4. CASE BeginCopy(j)
    BY <2>4 DEF BeginCopy, Advance
  <2>5. CASE EndCopy(j)
    BY <2>5, <1>5 DEF EndCopy, Advance, Landed, NamesKept
  <2>6. CASE Verify(j)
    BY <2>6 DEF Verify, Settle, ChecksumMatches, Fresh, Success, Successes
  <2>. QED
    BY <2>1, <2>2, <2>3, <2>4, <2>5, <2>6
    DEF JobStep, CopyNothing, DirectoryFails, CopyRefused, CopyBroken, VerifyFails, Fault
<1>7. ASSUME NEW k \in Jobs, k # j
      PROVE  sent'[k] = sent[k] /\ remote'[RemotePath(k)] = remote[RemotePath(k)]
  <2>1. LandingPath(j) # RemotePath(k)
    BY <1>7 DEF PathsApart
  <2>2. sent'[k] = sent[k]
    BY <1>7 DEF JobStep, Start, Hash, CheckDirectory, DirectoryFails, BeginCopy, CopyNothing,
                CopyRefused, EndCopy, CopyBroken, Verify, VerifyFails, Core, TypeOK
  <2>. QED
    BY <1>1, <1>7, <2>1, <2>2, JobPaths DEF Shape, JobOnly
<1>. QED
  BY <1>1, <1>2, <1>3, <1>4, <1>6, <1>7 DEF Smooth, Shape, JobOnly

LEMMA CommandSmooth ==
  ASSUME Core, Smooth, CommandStep
  PROVE  Smooth'
<1>. USE DEF Core, Smooth, Exists, Content, jobVars
<1>1. CASE Preview
  BY <1>1 DEF Preview
<1>2. CASE Plan
  BY <1>2 DEF Plan, PlanErrors
<1>3. CASE SubmitPayload
  BY <1>3 DEF SubmitPayload, Queue, Covered, TypeOK
<1>4. CASE SubmitMetadata
  BY <1>4 DEF SubmitMetadata, Queue, Covered, TypeOK
<1>5. CASE \E b \in Batches : ReportAfter(b)
  BY <1>5 DEF ReportAfter
<1>. QED
  BY <1>1, <1>2, <1>3, <1>4, <1>5, CommandCases

\* On nodes with directories of their own, a deploy command whose plan has no errors
\* and whose remote calls all succeed ends with "Result: OK", whatever the number of
\* workers and the order in which they run.
THEOREM FaultlessDeployment ==
  ASSUME NamesKept, PathsApart
  PROVE  Spec => []FaultlessDeploySucceeds
<1>1. Init => Core /\ Smooth
  BY InitIInv, ConstantsAssumption DEF IInv, Init, Smooth, Exists, ConstantsAssumption
<1>2. Core /\ Smooth /\ [Next]_vars => (Core /\ Smooth)'
  <2>. SUFFICES ASSUME Core, Smooth, [Next]_vars
                PROVE  Smooth'
    BY NextCore
  <2>1. CASE \E f \in Files : Edit(f)
    BY <2>1 DEF Edit, Core, TypeOK, Smooth
  <2>2. CASE UNCHANGED vars
    BY <2>2 DEF vars, Smooth, Exists, Content
  <2>. QED
    BY <2>1, <2>2, JobStepSmooth, CommandSmooth DEF Next
<1>3. Core /\ Smooth => FaultlessDeploySucceeds
  BY StatusesDisjoint
  DEF Core, Smooth, Coherent, FaultlessDeploySucceeds, AllSucceeded, Verdict
<1>. QED
  BY <1>1, <1>2, <1>3, PTL DEF Spec

----------------------------------------------------------------------------
(* The command comes to its end.  Fairness is beyond the provers, but not  *)
(* what it rests on: there is always a step to take (NeverStuck), and each *)
(* step leaves less to do (WorkShrinks).                                   *)

\* Every set of numbers has a least one.
LEMMA LeastExists ==
  ASSUME NEW T \in SUBSET Nat, T # {}
  PROVE  \E k \in T : \A m \in T : k <= m
<1>1. PICK k \in T : \A m \in T : ~(<<m, k>> \in OpToRel(<, Nat))
  BY NatLessThanWellFounded, WFMin, Zenon
<1>2. \A m \in T : m \in Nat /\ k \in Nat /\ ~(m < k)
  BY <1>1 DEF OpToRel
<1>. QED
  BY <1>2

\* The steps a job has yet to take, counted.
StepsLeft(s) ==
  CASE s = "none" -> 7 [] s = "queued" -> 6 [] s = "hash" -> 5 [] s = "directory" -> 4
    [] s = "copy" -> 3 [] s = "copying" -> 2 [] s = "verify" -> 1 [] s = "done" -> 0

PhasesLeft ==
  CASE phase = "start" -> 4 [] phase = "planned" -> 3 [] phase = "payload" -> 2
    [] phase = "metadata" -> 1 [] phase \in Ended -> 0

JobsLeft == {w \in Jobs \X (0 .. 6) : w[2] < StepsLeft(pc[w[1]])}

Work == Cardinality(JobsLeft) + PhasesLeft + (MaxEdits - edits)

Shrinks == Work' < Work /\ Work \in Nat /\ Work' \in Nat

LEMMA StepsCounted ==
  ASSUME NEW s \in Steps
  PROVE  StepsLeft(s) \in 0 .. 7
BY DEF Steps, StepsLeft

LEMMA PhasesCounted ==
  ASSUME TypeOK
  PROVE  PhasesLeft \in Nat
BY DEF TypeOK, Phases, Ended, PhasesLeft

LEMMA JobsLeftFinite == IsFiniteSet(JobsLeft) /\ Cardinality(JobsLeft) \in Nat
<1>1. IsFiniteSet({"payload"}) /\ IsFiniteSet({"metadata"}) /\ Batches = {"payload"} \union {"metadata"}
  BY FS_Singleton DEF Batches
<1>2. IsFiniteSet(Batches)
  BY <1>1, FS_Union
<1>3. IsFiniteSet(Nodes \X Files)
  BY ConstantsAssumption, FS_Product
<1>4. IsFiniteSet(Batches \X (Nodes \X Files))
  BY <1>2, <1>3, FS_Product
<1>5. IsFiniteSet(Jobs)
  <2>. DEFINE f == [j \in Jobs |-> <<Batch(j), <<Node(j), File(j)>>>>]
  <2>1. f \in [Jobs -> Batches \X (Nodes \X Files)]
    BY JobParts
  <2>2. \A i, j \in Jobs : f[i] = f[j] => i = j
    BY JobParts, Zenon
  <2>3. f \in Injection(Jobs, Batches \X (Nodes \X Files))
    BY <2>1, <2>2 DEF Injection, IsInjective
  <2>. QED
    BY <1>4, <2>3, FS_Injection
<1>6. IsFiniteSet(0 .. 6)
  <2>1. 0 .. 6 \in SUBSET Nat /\ 6 \in Nat /\ \A i \in 0 .. 6 : i <= 6
    OBVIOUS
  <2>. QED
    BY <2>1, FS_BoundedSetOfNaturals
<1>7. IsFiniteSet(Jobs \X (0 .. 6))
  BY <1>5, <1>6, FS_Product
<1>8. JobsLeft \in SUBSET (Jobs \X (0 .. 6))
  BY DEF JobsLeft
<1>9. IsFiniteSet(JobsLeft)
  BY <1>7, <1>8, FS_Subset
<1>. QED
  BY <1>9, FS_CardinalityType

\* A job that goes on has less to do, and the others have no more than before.
LEMMA JobsShrink ==
  ASSUME TypeOK, TypeOK',
         \A k \in Jobs : StepsLeft(pc'[k]) <= StepsLeft(pc[k])
  PROVE  /\ Cardinality(JobsLeft') <= Cardinality(JobsLeft)
         /\ (\E j \in Jobs : StepsLeft(pc'[j]) < StepsLeft(pc[j])) =>
               Cardinality(JobsLeft') < Cardinality(JobsLeft)
<1>1. \A k \in Jobs : StepsLeft(pc[k]) \in 0 .. 7 /\ StepsLeft(pc'[k]) \in 0 .. 7
  BY StepsCounted DEF TypeOK
<1>2. JobsLeft' \subseteq JobsLeft
  BY <1>1 DEF JobsLeft
<1>3. IsFiniteSet(JobsLeft) /\ Cardinality(JobsLeft) \in Nat
  BY JobsLeftFinite
<1>4. Cardinality(JobsLeft') \in Nat
  BY <1>2, <1>3, FS_Subset, FS_CardinalityType
<1>5. Cardinality(JobsLeft') <= Cardinality(JobsLeft)
  BY <1>2, <1>3, FS_Subset
<1>6. ASSUME NEW j \in Jobs, StepsLeft(pc'[j]) < StepsLeft(pc[j])
      PROVE  JobsLeft' # JobsLeft
  <2>1. StepsLeft(pc'[j]) \in 0 .. 6
    BY <1>1, <1>6
  <2>2. <<j, StepsLeft(pc'[j])>> \in JobsLeft
    BY <1>6, <2>1 DEF JobsLeft
  <2>3. <<j, StepsLeft(pc'[j])>> \notin JobsLeft'
    BY <1>1 DEF JobsLeft
  <2>. QED
    BY <2>2, <2>3
<1>7. ASSUME JobsLeft' # JobsLeft PROVE Cardinality(JobsLeft') # Cardinality(JobsLeft)
  BY <1>2, <1>3, <1>7, FS_Subset
<1>. QED
  BY <1>3, <1>4, <1>5, <1>6, <1>7

\* A job step leads from one step of the job to a later one.
LEMMA JobStepShrinks ==
  ASSUME TypeOK, NEW j \in Jobs, JobStep(j)
  PROVE  /\ StepsLeft(pc'[j]) < StepsLeft(pc[j])
         /\ \A k \in Jobs : k # j => pc'[k] = pc[k]
         /\ UNCHANGED <<phase, edits>>
<1>1. \A k \in Jobs : k # j => pc'[k] = pc[k]
  BY JobStepShape DEF Shape, JobOnly
<1>2. UNCHANGED <<phase, edits>>
  BY JobStepShape DEF Shape, JobOnly
<1>3. \E a \in Steps, b \in Steps :
        /\ pc[j] = a /\ pc'[j] = b
        /\ <<a, b>> \in {<<"queued", "hash">>, <<"queued", "done">>,
                         <<"hash", "directory">>, <<"hash", "done">>,
                         <<"directory", "copy">>, <<"directory", "done">>,
                         <<"copy", "copying">>, <<"copy", "done">>,
                         <<"copying", "verify">>, <<"copying", "done">>,
                         <<"verify", "done">>}
  BY DEF JobStep, Start, Hash, CheckDirectory, DirectoryFails, BeginCopy, CopyNothing,
         CopyRefused, EndCopy, CopyBroken, Verify, VerifyFails, FirstQueued, Settle, Advance,
         TypeOK, Steps
<1>4. StepsLeft(pc'[j]) < StepsLeft(pc[j])
  BY <1>3 DEF StepsLeft
<1>. QED
  BY <1>1, <1>2, <1>4

\* So does a step of the command: another phase, more jobs that have begun.
LEMMA CommandShrinks ==
  ASSUME Core, CommandStep
  PROVE  /\ PhasesLeft' < PhasesLeft
         /\ \A k \in Jobs : StepsLeft(pc'[k]) <= StepsLeft(pc[k])
         /\ UNCHANGED edits
<1>. USE DEF PhasesLeft, Ended
<1>q. ASSUME NEW b, NEW F, Queue(b, F), \A k \in Jobs : Batch(k) = b => pc[k] = "none"
      PROVE  \A k \in Jobs : StepsLeft(pc'[k]) <= StepsLeft(pc[k])
  <2>. SUFFICES ASSUME NEW k \in Jobs PROVE StepsLeft(pc'[k]) <= StepsLeft(pc[k])
    OBVIOUS
  <2>1. CASE pc'[k] = pc[k]
    <3>1. StepsLeft(pc[k]) \in 0 .. 7
      BY StepsCounted DEF Core, TypeOK
    <3>. QED
      BY <2>1, <3>1
  <2>2. CASE pc'[k] = "queued" /\ pc[k] = "none"
    BY <2>2 DEF StepsLeft
  <2>. QED
    BY <1>q, <2>1, <2>2 DEF Queue
<1>s. ASSUME UNCHANGED pc
      PROVE  \A k \in Jobs : StepsLeft(pc'[k]) <= StepsLeft(pc[k])
  <2>1. \A k \in Jobs : StepsLeft(pc[k]) \in 0 .. 7
    BY StepsCounted DEF Core, TypeOK
  <2>. QED
    BY <1>s, <2>1
<1>1. CASE Preview
  BY <1>1, <1>s DEF Preview, jobVars
<1>2. CASE Plan
  BY <1>2, <1>s DEF Plan, jobVars
<1>3. CASE SubmitPayload
  <2>1. \A k \in Jobs : pc[k] = "none"
    BY <1>3 DEF SubmitPayload, Core, Coherent
  <2>. QED
    BY <1>3, <1>q, <2>1 DEF SubmitPayload
<1>4. CASE SubmitMetadata
  <2>1. \A k \in Jobs : Batch(k) = "metadata" => pc[k] = "none"
    BY <1>4 DEF SubmitMetadata, Core, Coherent
  <2>. QED
    BY <1>4, <1>q, <2>1 DEF SubmitMetadata
<1>5. ASSUME NEW b \in Batches, ReportAfter(b)
      PROVE  /\ PhasesLeft' < PhasesLeft /\ UNCHANGED <<pc, edits>>
  BY <1>5 DEF ReportAfter, jobVars, Batches
<1>. QED
  BY <1>1, <1>2, <1>3, <1>4, <1>5, <1>s, CommandCases

\* No command is edited without end, either.
EditsBounded == edits <= MaxEdits

\* Whatever is run, fails or is edited, each step leaves less to do: the command takes
\* at most as many steps as its first state has work.
THEOREM WorkShrinks == Spec => [][Shrinks]_vars
<1>1. Init => Core /\ EditsBounded
  BY InitIInv, ConstantsAssumption DEF IInv, Init, EditsBounded
<1>2. ASSUME Core, EditsBounded, [Next]_vars PROVE EditsBounded'
  <2>1. CASE \E j \in Jobs : JobStep(j)
    BY <1>2, <2>1, JobStepShrinks DEF EditsBounded, Core
  <2>2. CASE CommandStep
    BY <1>2, <2>2, CommandShrinks DEF EditsBounded
  <2>3. CASE \E f \in Files : Edit(f)
    BY <1>2, <2>3, ConstantsAssumption DEF Edit, EditsBounded, Core, TypeOK
  <2>4. CASE UNCHANGED vars
    BY <1>2, <2>4 DEF vars, EditsBounded
  <2>. QED
    BY <1>2, <2>1, <2>2, <2>3, <2>4 DEF Next
<1>3. ASSUME Core, Core', EditsBounded, EditsBounded', [Next]_vars
      PROVE  [Shrinks]_vars
  <2>. DEFINE c == Cardinality(JobsLeft)
              p == PhasesLeft
  <2>1. c \in Nat /\ p \in Nat /\ edits \in Nat /\ MaxEdits \in Nat
    BY <1>3, JobsLeftFinite, PhasesCounted, ConstantsAssumption DEF Core, TypeOK
  <2>2. c' \in Nat /\ p' \in Nat /\ edits' \in Nat
    <3>1. c' \in Nat
      <4>1. (IsFiniteSet(JobsLeft) /\ Cardinality(JobsLeft) \in Nat)'
        BY JobsLeftFinite, PTL
      <4>. QED
        BY <4>1
    <3>2. p' \in Nat
      BY <1>3 DEF Core, TypeOK, Phases, Ended, PhasesLeft
    <3>. QED
      BY <1>3, <3>1, <3>2 DEF Core, TypeOK
  <2>3. CASE \E j \in Jobs : JobStep(j)
    <3>1. PICK j \in Jobs : JobStep(j)
      BY <2>3
    <3>2. /\ StepsLeft(pc'[j]) < StepsLeft(pc[j]) /\ UNCHANGED <<phase, edits>>
          /\ \A k \in Jobs : k # j => pc'[k] = pc[k]
      BY <1>3, <3>1, JobStepShrinks DEF Core
    <3>3. \A k \in Jobs : StepsLeft(pc'[k]) <= StepsLeft(pc[k])
      <4>1. \A k \in Jobs : StepsLeft(pc[k]) \in 0 .. 7 /\ StepsLeft(pc'[k]) \in 0 .. 7
        BY <1>3, StepsCounted DEF Core, TypeOK
      <4>. QED
        BY <3>2, <4>1
    <3>4. c' < c /\ p' = p
      BY <1>3, <3>2, <3>3, JobsShrink DEF Core, PhasesLeft
    <3>. QED
      BY <1>3, <2>1, <2>2, <3>2, <3>4 DEF Work, Shrinks, EditsBounded
  <2>4. CASE CommandStep
    <3>1. p' < p /\ c' <= c /\ edits' = edits
      BY <1>3, <2>4, CommandShrinks, JobsShrink DEF Core
    <3>. QED
      BY <1>3, <2>1, <2>2, <3>1 DEF Work, Shrinks, EditsBounded
  <2>5. CASE \E f \in Files : Edit(f)
    <3>1. edits' = edits + 1 /\ p' = p /\ c' = c
      BY <2>5 DEF Edit, jobVars, PhasesLeft, JobsLeft
    <3>. QED
      BY <1>3, <2>1, <2>2, <3>1 DEF Work, Shrinks, EditsBounded
  <2>. QED
    BY <1>3, <2>3, <2>4, <2>5 DEF Next
<1>. QED
  BY <1>1, <1>2, <1>3, NextCore, PTL DEF Spec

\* The guards of the steps that need no failure and no edit: of the command's own, of a
\* job that is under way (each of its steps has an outcome that needs neither), and of the
\* start of a job.
StepToTake ==
  \/ phase \in {"start", "planned"}
  \/ phase = "payload" /\ PoolDrained("payload")
  \/ phase = "metadata" /\ PoolDrained("metadata") /\ command = "deploy"
  \/ Active # {}
  \/ WorkerFree /\ \E j \in Jobs : FirstQueued(j)

\* Until the command has ended, and said how, there is a step to take.
NeverStuck == IF phase \in Ended THEN result \in {"OK", "FAILED"} ELSE StepToTake

\* Among the queued jobs there is one that no other one precedes.
LEMMA FirstExists ==
  ASSUME NEW i \in Jobs, pc[i] = "queued"
  PROVE  \E j \in Jobs : FirstQueued(j)
<1>. DEFINE Queued == {j \in Jobs : pc[j] = "queued"}
           ranks == {NodeRank[Node(j)] : j \in Queued}
<1>1. \A j \in Jobs : NodeRank[Node(j)] \in Nat /\ FileRank[File(j)] \in Nat
  BY JobParts, ConstantsAssumption
<1>2. ranks \in SUBSET Nat /\ ranks # {}
  BY <1>1
<1>3. PICK r \in ranks : \A m \in ranks : r <= m
  <2>. HIDE DEF ranks
  <2>. QED
    BY <1>2, LeastExists
<1>4. PICK n \in Queued : \A k \in Queued : NodeRank[Node(n)] <= NodeRank[Node(k)]
  BY <1>3
<1>. DEFINE Here == {j \in Queued : Node(j) = Node(n)}
           places == {FileRank[File(j)] : j \in Here}
<1>5. places \in SUBSET Nat /\ places # {}
  BY <1>1, <1>4
<1>6. PICK q \in places : \A m \in places : q <= m
  <2>. HIDE DEF places
  <2>. QED
    BY <1>5, LeastExists
<1>7. PICK j \in Here : \A k \in Here : FileRank[File(j)] <= FileRank[File(k)]
  BY <1>6
<1>8. ASSUME NEW k \in Jobs, pc[k] = "queued" PROVE ~Earlier(k, j)
  <2>1. k \in Queued /\ Node(j) = Node(n) /\ j \in Jobs
    BY <1>7, <1>8
  <2>2. ~(NodeRank[Node(k)] < NodeRank[Node(j)])
    BY <1>1, <1>4, <2>1
  <2>3. Node(k) = Node(j) => ~(FileRank[File(k)] < FileRank[File(j)])
    BY <1>1, <1>7, <2>1
  <2>. QED
    BY <2>2, <2>3 DEF Earlier
<1>. QED
  BY <1>7, <1>8 DEF FirstQueued

\* The line printed last says OK or FAILED.
Answered == phase \in Ended => result \in {"OK", "FAILED"}

LEMMA StepFound ==
  ASSUME Core, phase \notin Ended
  PROVE  StepToTake
<1>1. ASSUME NEW b \in Batches, phase = b, ~PoolDrained(b), Active = {}
      PROVE  WorkerFree /\ \E j \in Jobs : FirstQueued(j)
  <2>1. PICK j \in Jobs : pc[j] \notin {"none", "done"}
    BY <1>1 DEF PoolDrained
  <2>2. pc[j] = "queued"
    BY <1>1, <2>1 DEF Active
  <2>3. Cardinality(Active) = 0
    BY <1>1, FS_EmptySet
  <2>. QED
    BY <2>2, <2>3, FirstExists, ConstantsAssumption DEF WorkerFree
<1>2. phase = "metadata" => command = "deploy"
  BY DEF Core, Coherent
<1>3. phase \in {"start", "planned", "payload", "metadata"}
  BY DEF Core, TypeOK, Phases
<1>. QED
  BY <1>1, <1>2, <1>3 DEF StepToTake, Batches

\* On every cluster, with any number of threads, the command is never stuck: until it has
\* printed OK or FAILED, a thread has a call to make, an idle one has a job to start, or
\* the command has a pool to leave.
THEOREM CommandNeverStuck == Spec => []NeverStuck
<1>1. Init => Core /\ Answered
  BY InitIInv DEF IInv, Init, Answered, Ended
<1>2. ASSUME Core, Answered, [Next]_vars PROVE Answered'
  <2>1. CASE \E j \in Jobs : JobStep(j)
    BY <1>2, <2>1, JobStepShape DEF Answered, Core, Shape, JobOnly
  <2>2. CASE CommandStep
    BY <1>2, <2>2, CommandCases
    DEF Preview, Plan, SubmitPayload, SubmitMetadata, ReportAfter, Verdict, Answered, Ended
  <2>3. CASE \E f \in Files : Edit(f)
    BY <1>2, <2>3 DEF Edit, Answered
  <2>4. CASE UNCHANGED vars
    BY <1>2, <2>4 DEF vars, Answered
  <2>. QED
    BY <1>2, <2>1, <2>2, <2>3, <2>4 DEF Next
<1>3. Core /\ Answered => NeverStuck
  BY StepFound DEF Answered, NeverStuck
<1>. QED
  BY <1>1, <1>2, <1>3, NextCore, PTL DEF Spec
=============================================================================
