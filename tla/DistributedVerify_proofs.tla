----------------------- MODULE DistributedVerify_proofs -----------------------
(***************************************************************************)
(* Theorems about DistributedVerify: what the verdict of `verify -f` says  *)
(* about the cluster.  The inductive invariant follows a question from the *)
(* stage it belongs to into the answers that the verdict is made of.       *)
(***************************************************************************)
EXTENDS DistributedVerify, FiniteSetTheorems, WellFoundedInduction, TLAPS

----------------------------------------------------------------------------
(* Questions and answers.                                                  *)

LEMMA QuestionKinds ==
  ASSUME NEW q \in Questions
  PROVE  /\ Topic(q) \in {"connect", "extension", "file", "prepared"}
         /\ Node(q) \in Nodes
         /\ Topic(q) = "file" <=> q \in FileQuestions
         /\ Topic(q) = "extension" <=> q \in ExtensionQuestions
         /\ Topic(q) \in {"connect", "prepared"} <=> q \in NodeQuestions
         /\ q \in FileQuestions => File(q) \in Files
         /\ q \in ExtensionQuestions => Node(q) \in Coordinators
BY DEF Questions, NodeQuestions, ExtensionQuestions, FileQuestions, Topic, Node, File, Nodes

LEMMA AnswersDisjoint ==
  /\ Good \intersect (Bad \union Open \union {"none"}) = {}
  /\ Bad \intersect (Open \union {"none"}) = {}
  /\ "none" \notin Open
BY DistributedVerifyAssumption DEF Good, Bad, Open

----------------------------------------------------------------------------
(* The inductive invariant.                                                *)

\* Questions that have been put, or will not be put any more.
Reached(q) ==
  \/ stage = Topic(q) \/ stage = "reported"
  \/ stage = "extension" /\ Topic(q) = "connect"
  \/ stage = "file" /\ Topic(q) \in {"connect", "extension"}
  \/ stage = "prepared" /\ Topic(q) \in {"connect", "extension", "file"}

\* Only questions of the current stage are open, and none is forgotten.
Orderly ==
  \A q \in Questions :
    /\ ~Reached(q) => answer[q] = "none"
    /\ answer[q] \in Open => Topic(q) = stage
    /\ answer[q] = "hashed" => Topic(q) = "file"
    /\ (Reached(q) /\ Topic(q) # "file") => answer[q] # "none"
    /\ Topic(q) = "extension" => answer[q] \notin {"connected", "ok"}

FaultsKept == faults > 0 => \E q \in Questions : answer[q] \in Bad

Judged ==
  /\ stage # "reported" => result = "none"
  /\ stage = "reported" => (IF Errors THEN result = "FAILED" ELSE result = "OK")

\* A defect that lasts has not been answered well, nor is it about to be.
Watched ==
  /\ lasting \subseteq Defects
  /\ \A d \in lasting :
       /\ Reached(d) => answer[d] \notin Good \union {"none"}
       /\ answer[d] = "hashed" => digest[d] = local[File(d)]

\* A file of no known type is never answered well.
Refused ==
  \A q \in FileQuestions :
    (File(q) \in Unsupported /\ Reached(q)) => answer[q] \in {"queued"} \union Bad

\* While the cluster stands still, every bad answer has its cause, and the versions
\* are those of the catalogs.
Blameless(q) ==
  /\ faults = 0 /\ q \notin Defects
  /\ q \in FileQuestions => File(q) \notin Unsupported

Truthful ==
  changes = 0 =>
    /\ lasting = Defects
    /\ \A q \in Questions :
         /\ answer[q] \in Bad => ~Blameless(q)
         /\ answer[q] \in Versions => (Topic(q) = "extension" /\ answer[q] = catalog[Node(q)])
         /\ q \in FileQuestions /\ answer[q] # "none" => File(q) \in Payload
         /\ answer[q] = "hashed" => digest[q] = local[File(q)]

IInv == TypeOK /\ Orderly /\ FaultsKept /\ Judged /\ Watched /\ Refused /\ Truthful

----------------------------------------------------------------------------
(* What the steps do.                                                      *)

LEMMA ProceedPlaces ==
  ASSUME Proceed
  PROVE  \/ stage = "connect" /\ stage' = "extension"
         \/ stage = "extension" /\ stage' = "file"
         \/ stage = "file" /\ stage' = "prepared"
BY DEF Proceed, Following

\* An open question gets an answer, or a file's question becomes hashed.
Answered(q) ==
  /\ answer[q] \in Open
  /\ \A r \in Questions \ {q} : answer'[r] = answer[r]
  /\ answer'[q] \in {"hashed"} \union Good \union Bad
  /\ answer'[q] = "hashed" => Topic(q) = "file"
  /\ Topic(q) = "extension" => answer'[q] \notin {"connected", "ok"}
  /\ Topic(q) # "extension" => answer'[q] \notin Versions
  /\ faults' = faults \/ answer'[q] \in Bad
  /\ UNCHANGED <<stage, result>>

LEMMA ReplyEffect ==
  ASSUME TypeOK, NEW q \in Questions, NEW status, Reply(q, status)
  PROVE  /\ answer'[q] = status
         /\ \A r \in Questions \ {q} : answer'[r] = answer[r]
         /\ UNCHANGED <<stage, result, changes, local, remote, catalog, prepared>>
         /\ status \in {"none"} \union Open \union Good \union Bad =>
              answer' \in [Questions -> {"none"} \union Open \union Good \union Bad]
BY DEF Reply, TypeOK, cluster

\* The types of an answer.
LEMMA AnswerKinds ==
  /\ Versions \subseteq Good /\ {"connected", "ok"} \subseteq Good
  /\ {"connected", "ok"} \intersect Versions = {}
  /\ {"failed", "missing", "query_failed", "checksum_failed", "leak"} = Bad
  /\ Open = {"queued", "hashed"}
BY DistributedVerifyAssumption DEF Good, Bad, Open

LEMMA CatalogValue ==
  ASSUME TypeOK, NEW q \in ExtensionQuestions
  PROVE  catalog[Node(q)] \in Versions \union {Absent}
BY DEF TypeOK, ExtensionQuestions, Node

LEMMA FileAnswer ==
  ASSUME NEW q \in FileQuestions
  PROVE  FileStatus(q) \in {"missing", "ok", "checksum_failed"}
BY DEF FileStatus

LEMMA AskAnswers ==
  ASSUME TypeOK, Orderly, NEW q \in Questions, Ask(q)
  PROVE  Answered(q)
<1> USE QuestionKinds, AnswerKinds, AnswersDisjoint DEF Queued
<1>1. CASE Connect(q)
  BY <1>1, ReplyEffect DEF Connect, Answered
<1>2. CASE ConnectFails(q)
  BY <1>2, ReplyEffect DEF ConnectFails, Answered
<1>3. CASE AskExtension(q)
  BY <1>3, ReplyEffect, CatalogValue DEF AskExtension, Answered
<1>4. CASE QueryFails(q)
  BY <1>4, ReplyEffect DEF QueryFails, Answered
<1>5. CASE ScanPrepared(q)
  BY <1>5, ReplyEffect DEF ScanPrepared, Answered
<1>6. CASE HashLocal(q)
  BY <1>6, ReplyEffect DEF HashLocal, Answered
<1>7. CASE FileVanishes(q)
  BY <1>7 DEF FileVanishes, Answered, TypeOK
<1>8. CASE CompareRemote(q)
  <2>1. q \in FileQuestions
    BY <1>8 DEF CompareRemote, Orderly
  <2> QED BY <1>8, <2>1, ReplyEffect, FileAnswer DEF CompareRemote, Answered
<1>9. CASE CompareFails(q)
  <2>1. q \in FileQuestions
    BY <1>9 DEF CompareFails, Orderly
  <2> QED BY <1>9, <2>1, ReplyEffect DEF CompareFails, Answered
<1> QED BY <1>1, <1>2, <1>3, <1>4, <1>5, <1>6, <1>7, <1>8, <1>9 DEF Ask

----------------------------------------------------------------------------
(* Types.                                                                  *)

LEMMA InitTyped == Init => TypeOK
BY AnswerKinds DEF Init, TypeOK, Stages

LEMMA ReplyTyped ==
  ASSUME TypeOK, NEW q \in Questions,
         NEW status \in {"none"} \union Open \union Good \union Bad, Reply(q, status),
         digest' \in [FileQuestions -> Builds \union {Absent}], faults' \in Nat
  PROVE  TypeOK'
BY ReplyEffect DEF TypeOK

LEMMA FaultTyped ==
  ASSUME TypeOK, Fault
  PROVE  faults' \in Nat
BY DEF TypeOK, Fault

LEMMA AskTyped ==
  ASSUME TypeOK, Orderly, NEW q \in Questions, Ask(q)
  PROVE  TypeOK'
<1> USE QuestionKinds, AnswerKinds
<1>0. digest \in [FileQuestions -> Builds \union {Absent}] /\ faults \in Nat
  BY DEF TypeOK
<1>1. CASE Connect(q)
  BY <1>0, <1>1, ReplyTyped DEF Connect
<1>2. CASE ConnectFails(q)
  BY <1>0, <1>2, ReplyTyped, FaultTyped DEF ConnectFails
<1>3. CASE AskExtension(q)
  BY <1>0, <1>3, ReplyTyped, CatalogValue DEF AskExtension, Queued
<1>4. CASE QueryFails(q)
  BY <1>0, <1>4, ReplyTyped, FaultTyped DEF QueryFails
<1>5. CASE ScanPrepared(q)
  BY <1>0, <1>5, ReplyTyped DEF ScanPrepared
<1>6. CASE HashLocal(q)
  <2>1. q \in FileQuestions /\ local[File(q)] \in Builds \union {Absent}
    BY <1>6 DEF HashLocal, Queued, TypeOK
  <2>2. digest' \in [FileQuestions -> Builds \union {Absent}] /\ faults' \in Nat
    BY <1>0, <1>6, <2>1 DEF HashLocal
  <2> QED BY <1>6, <2>2, ReplyTyped DEF HashLocal
<1>7. CASE FileVanishes(q)
  <2>1. local' \in [Files -> Builds \union {Absent}]
    BY <1>7 DEF FileVanishes, TypeOK
  <2>2. answer' \in [Questions -> {"none"} \union Open \union Good \union Bad]
    BY <1>7 DEF FileVanishes, TypeOK
  <2>3. changes' \in Nat
    BY <1>7 DEF FileVanishes, TypeOK
  <2> QED BY <1>7, <2>1, <2>2, <2>3 DEF FileVanishes, TypeOK
<1>8. CASE CompareRemote(q)
  <2>1. q \in FileQuestions
    BY <1>8 DEF CompareRemote, Orderly
  <2> QED BY <1>0, <1>8, <2>1, ReplyTyped, FileAnswer DEF CompareRemote
<1>9. CASE CompareFails(q)
  BY <1>0, <1>9, ReplyTyped, FaultTyped DEF CompareFails
<1> QED BY <1>1, <1>2, <1>3, <1>4, <1>5, <1>6, <1>7, <1>8, <1>9 DEF Ask

LEMMA ChangeTyped ==
  ASSUME TypeOK, Change
  PROVE  TypeOK'
<1>1. ASSUME NEW f \in Files, ChangeFile(f) PROVE TypeOK'
  <2>1. local' \in [Files -> Builds \union {Absent}]
    BY <1>1 DEF ChangeFile, TypeOK
  <2>2. remote' \in [Nodes \X Files -> Builds \union {Absent}]
    BY <1>1 DEF ChangeFile, TypeOK
  <2>3. changes' \in Nat
    BY <1>1 DEF ChangeFile, Changing, TypeOK
  <2> QED BY <1>1, <2>1, <2>2, <2>3 DEF ChangeFile, Changing, TypeOK
<1>2. ASSUME NEW n \in Nodes, ChangeNode(n) PROVE TypeOK'
  <2>1. catalog' \in [Coordinators -> Versions \union {Absent}]
    BY <1>2 DEF ChangeNode, TypeOK
  <2>2. prepared' \in [Nodes -> BOOLEAN]
    <3>1. CASE prepared' = [prepared EXCEPT ![n] = ~@]
      BY <3>1, Zenon DEF TypeOK
    <3> QED BY <1>2, <3>1 DEF ChangeNode, TypeOK
  <2>3. changes' \in Nat
    BY <1>2 DEF ChangeNode, Changing, TypeOK
  <2> QED BY <1>2, <2>1, <2>2, <2>3 DEF ChangeNode, Changing, TypeOK
<1> QED BY <1>1, <1>2 DEF Change

LEMMA StepTyped ==
  ASSUME TypeOK, Orderly, [Next]_vars
  PROVE  TypeOK'
<1>1. CASE Begin
  BY <1>1, AnswerKinds DEF Begin, TypeOK, cluster, Stages
<1>2. CASE Proceed
  <2>1. stage' \in Stages
    BY <1>2, ProceedPlaces DEF Stages
  <2> QED BY <1>2, <2>1, AnswerKinds DEF Proceed, TypeOK, cluster
<1>3. CASE Report
  BY <1>3 DEF Report, TypeOK, cluster, Stages
<1>4. CASE UNCHANGED vars
  BY <1>4 DEF vars, cluster, TypeOK
<1> QED BY <1>1, <1>2, <1>3, <1>4, AskTyped, ChangeTyped DEF Next, Step

----------------------------------------------------------------------------
(* The order of the questions.                                             *)

LEMMA ChangeAside ==
  ASSUME Change
  PROVE  UNCHANGED <<stage, answer, digest, result, faults>> /\ changes' = changes + 1
BY DEF Change, ChangeFile, ChangeNode, Changing

LEMMA BeginOrderly ==
  ASSUME Orderly, Begin
  PROVE  Orderly'
<1> SUFFICES ASSUME NEW q \in Questions
             PROVE  /\ ~Reached(q)' => answer'[q] = "none"
                    /\ answer'[q] \in Open => Topic(q) = stage'
                    /\ answer'[q] = "hashed" => Topic(q) = "file"
                    /\ (Reached(q)' /\ Topic(q) # "file") => answer'[q] # "none"
                    /\ Topic(q) = "extension" => answer'[q] \notin {"connected", "ok"}
  BY DEF Orderly
<1>1. answer[q] = "none"
  BY QuestionKinds DEF Begin, Orderly, Reached
<1>2. CASE NameValid
  BY <1>1, <1>2, QuestionKinds, AnswerKinds DEF Begin, Reached
<1>3. CASE ~NameValid
  BY <1>1, <1>3, QuestionKinds, AnswerKinds DEF Begin, Reached
<1> QED BY <1>2, <1>3

LEMMA ProceedOrderly ==
  ASSUME Orderly, Proceed
  PROVE  Orderly'
<1> SUFFICES ASSUME NEW q \in Questions
             PROVE  /\ ~Reached(q)' => answer'[q] = "none"
                    /\ answer'[q] \in Open => Topic(q) = stage'
                    /\ answer'[q] = "hashed" => Topic(q) = "file"
                    /\ (Reached(q)' /\ Topic(q) # "file") => answer'[q] # "none"
                    /\ Topic(q) = "extension" => answer'[q] \notin {"connected", "ok"}
  BY DEF Orderly
<1>1. answer[q] \notin Open
  BY DEF Proceed, StageDone
<1>2. CASE Topic(q) = stage'
  <2>1. answer[q] = "none"
    BY <1>2, ProceedPlaces DEF Orderly, Reached
  <2>2. answer'[q] \in {"queued", "none"} /\ (Topic(q) # "file" => answer'[q] = "queued")
    BY <1>2, <2>1 DEF Proceed
  <2> QED BY <1>2, <2>2, QuestionKinds, AnswerKinds, ProceedPlaces DEF Reached
<1>3. CASE Topic(q) # stage'
  <2>1. answer'[q] = answer[q]
    BY <1>3 DEF Proceed
  <2>2. Reached(q)' <=> Reached(q)
    BY <1>3, ProceedPlaces, QuestionKinds DEF Reached
  <2> QED BY <1>1, <2>1, <2>2 DEF Orderly
<1> QED BY <1>2, <1>3

LEMMA AskOrderly ==
  ASSUME Orderly, NEW q \in Questions, Answered(q)
  PROVE  Orderly'
<1> SUFFICES ASSUME NEW r \in Questions
             PROVE  /\ ~Reached(r)' => answer'[r] = "none"
                    /\ answer'[r] \in Open => Topic(r) = stage'
                    /\ answer'[r] = "hashed" => Topic(r) = "file"
                    /\ (Reached(r)' /\ Topic(r) # "file") => answer'[r] # "none"
                    /\ Topic(r) = "extension" => answer'[r] \notin {"connected", "ok"}
  BY DEF Orderly
<1>1. Reached(r)' <=> Reached(r)
  BY DEF Answered, Reached
<1>2. CASE r = q
  <2>1. Topic(q) = stage /\ Reached(q)
    BY DEF Answered, Orderly, Reached
  <2> QED BY <1>1, <1>2, <2>1, AnswersDisjoint, AnswerKinds DEF Answered
<1>3. CASE r # q
  BY <1>1, <1>3 DEF Answered, Orderly
<1> QED BY <1>2, <1>3

LEMMA StepOrderly ==
  ASSUME TypeOK, Orderly, [Next]_vars
  PROVE  Orderly'
<1>1. CASE Report
  <2>1. \A q \in Questions : answer[q] \notin Open
    BY <1>1 DEF Report, StageDone
  <2>2. \A q \in Questions : Reached(q) /\ Reached(q)'
    BY <1>1, QuestionKinds DEF Report, Reached
  <2> QED BY <1>1, <2>1, <2>2 DEF Report, Orderly
<1>2. CASE Change \/ UNCHANGED vars
  BY <1>2, ChangeAside DEF vars, Orderly, Reached
<1> QED BY <1>1, <1>2, BeginOrderly, ProceedOrderly, AskAnswers, AskOrderly DEF Next, Step

\* Type correctness: in every state of every run each variable has its type (all the
\* actions of run_distributed_verify).
THEOREM TypeCorrect == Spec => []TypeOK
<1>1. Init => TypeOK /\ Orderly
  <2>1. Init => Orderly
    BY QuestionKinds, AnswerKinds DEF Init, Orderly, Reached
  <2> QED BY <2>1, InitTyped
<1>2. TypeOK /\ Orderly /\ [Next]_vars => (TypeOK /\ Orderly)'
  BY StepTyped, StepOrderly
<1> QED BY <1>1, <1>2, PTL DEF Spec

\* The order of the questions is kept in every run.
LEMMA OrderKept == Spec => []Orderly
<1>1. Init => Orderly
  BY QuestionKinds, AnswerKinds DEF Init, Orderly, Reached
<1>2. TypeOK /\ Orderly /\ [Next]_vars => Orderly'
  BY StepOrderly
<1> QED BY <1>1, <1>2, TypeCorrect, PTL DEF Spec

----------------------------------------------------------------------------
(* Failed calls, and the verdict.                                          *)

\* Answers once given stay.
LEMMA AnswersStay ==
  ASSUME TypeOK, Orderly, [Next]_vars, NEW r \in Questions,
         answer[r] \notin Open \union {"none"}
  PROVE  answer'[r] = answer[r]
<1>1. CASE Begin
  BY <1>1, QuestionKinds DEF Begin, Orderly, Reached
<1>2. CASE Proceed
  <2>1. Topic(r) # stage'
    BY <1>2, ProceedPlaces DEF Orderly, Reached
  <2> QED BY <1>2, <2>1 DEF Proceed
<1>3. ASSUME NEW q \in Questions, Ask(q) PROVE answer'[r] = answer[r]
  BY <1>3, AskAnswers DEF Answered
<1> QED BY <1>1, <1>2, <1>3, ChangeAside DEF Next, Step, Report, vars

LEMMA StepFaults ==
  ASSUME TypeOK, Orderly, FaultsKept, [Next]_vars
  PROVE  FaultsKept'
<1>1. CASE faults' = faults
  <2> SUFFICES ASSUME faults > 0 PROVE \E q \in Questions : answer'[q] \in Bad
    BY <1>1 DEF FaultsKept
  <2>1. PICK q \in Questions : answer[q] \in Bad
    BY DEF FaultsKept
  <2> QED BY <2>1, AnswersStay, AnswersDisjoint
<1>2. ASSUME NEW q \in Questions, Ask(q) PROVE FaultsKept'
  BY <1>1, <1>2, AskAnswers DEF Answered, FaultsKept
<1> QED BY <1>1, <1>2, ChangeAside DEF Next, Step, Begin, Proceed, Report, vars

LEMMA StepJudged ==
  ASSUME TypeOK, Orderly, Judged, [Next]_vars
  PROVE  Judged'
<1>1. CASE Begin \/ Proceed
  BY <1>1, ProceedPlaces DEF Judged, Begin, Proceed
<1>2. CASE Report
  <2>1. Errors' <=> Errors
    BY <1>2 DEF Report, Errors, Installed
  <2> QED BY <1>2, <2>1 DEF Report, Judged
<1>3. ASSUME NEW q \in Questions, Ask(q) PROVE Judged'
  <2>1. stage # "reported" /\ UNCHANGED <<stage, result>>
    BY <1>3, AskAnswers, QuestionKinds DEF Answered, Orderly
  <2> QED BY <2>1 DEF Judged
<1>4. CASE Change \/ UNCHANGED vars
  <2>1. UNCHANGED <<stage, answer, result>>
    BY <1>4, ChangeAside DEF vars
  <2>2. Errors' <=> Errors
    BY <2>1 DEF Errors, Installed
  <2> QED BY <2>1, <2>2 DEF Judged
<1> QED BY <1>1, <1>2, <1>3, <1>4 DEF Next, Step

\* A call that fails, whenever and whatever else changes, makes the verdict FAILED: no
\* error of a thread is lost on its way to the exit code (_errors).
THEOREM FaultsAreReported == Spec => []FaultsReported
<1>1. Init => FaultsKept /\ Judged
  BY DEF Init, FaultsKept, Judged
<1>2. TypeOK /\ Orderly /\ FaultsKept /\ Judged /\ [Next]_vars => (FaultsKept /\ Judged)'
  BY StepFaults, StepJudged
<1>3. FaultsKept /\ Judged => FaultsReported
  BY DEF FaultsKept, Judged, Errors, FaultsReported
<1> QED BY <1>1, <1>2, <1>3, TypeCorrect, OrderKept, PTL DEF Spec

----------------------------------------------------------------------------
(* Lasting defects.                                                        *)

\* What a lasting defect is.
LEMMA DefectKinds ==
  ASSUME NEW d \in Defects
  PROVE  /\ d \in Questions /\ Topic(d) # "connect"
         /\ d \in ExtensionQuestions => catalog[Node(d)] = Absent
         /\ d \in FileQuestions =>
              /\ File(d) \in Payload
              /\ local[File(d)] = Absent \/ remote[<<Node(d), File(d)>>] # local[File(d)]
         /\ Topic(d) = "prepared" => prepared[Node(d)]
<1>1. d \in Questions
  BY DEF Defects, Questions
<1> QED BY <1>1, QuestionKinds DEF Defects

\* The answer that a lasting defect gets.
LEMMA DefectAnswered ==
  ASSUME TypeOK, Orderly, Watched, NEW d \in lasting, Ask(d),
         d \in FileQuestions => local'[File(d)] = local[File(d)]
  PROVE  /\ answer'[d] \notin Good \union {"none"}
         /\ answer'[d] = "hashed" => digest'[d] = local[File(d)]
<1> USE AnswerKinds, AnswersDisjoint DEF Queued
<1>0. d \in Questions /\ d \in Defects /\ Reached(d)
  BY DefectKinds, AskAnswers DEF Watched, Answered, Orderly, Reached
<1>1. CASE Connect(d) \/ ConnectFails(d)
  BY <1>0, <1>1, DefectKinds DEF Connect, ConnectFails
<1>2. CASE AskExtension(d)
  <2>1. Topic(d) = "extension"
    BY <1>2 DEF AskExtension
  <2>2. catalog[Node(d)] = Absent
    BY <1>0, <2>1, DefectKinds, QuestionKinds
  <2>3. Reply(d, "missing")
    BY <1>2, <2>2 DEF AskExtension
  <2> QED BY <1>0, <2>1, <2>3, ReplyEffect, QuestionKinds
<1>3. CASE QueryFails(d)
  BY <1>0, <1>3, ReplyEffect, QuestionKinds DEF QueryFails
<1>4. CASE ScanPrepared(d)
  <2>1. prepared[Node(d)]
    BY <1>0, <1>4, DefectKinds DEF ScanPrepared
  <2>2. Reply(d, "leak")
    BY <1>4, <2>1 DEF ScanPrepared
  <2> QED BY <1>0, <2>2, ReplyEffect
<1>5. CASE HashLocal(d)
  <2>1. d \in FileQuestions
    BY <1>0, <1>5, QuestionKinds DEF HashLocal
  <2> QED BY <1>0, <1>5, <2>1, ReplyEffect DEF HashLocal, TypeOK
<1>6. CASE FileVanishes(d)
  <2>1. d \in FileQuestions
    BY <1>0, <1>6, QuestionKinds DEF FileVanishes
  <2> QED BY <1>0, <1>6, <2>1, QuestionKinds DEF FileVanishes, TypeOK
<1>7. CASE CompareRemote(d)
  <2>1. d \in FileQuestions /\ digest[d] = local[File(d)]
    BY <1>0, <1>7, QuestionKinds DEF CompareRemote, Orderly, Watched
  <2>2. FileStatus(d) \in {"missing", "checksum_failed"}
    BY <1>0, <2>1, DefectKinds DEF FileStatus
  <2> QED BY <1>0, <1>7, <2>2, ReplyEffect DEF CompareRemote
<1>8. CASE CompareFails(d)
  BY <1>0, <1>8, ReplyEffect DEF CompareFails
<1> QED BY <1>1, <1>2, <1>3, <1>4, <1>5, <1>6, <1>7, <1>8 DEF Ask

\* Elsewhere its question and its digest are left alone.
LEMMA DigestAside ==
  ASSUME TypeOK, NEW q \in Questions, Ask(q), NEW d \in FileQuestions \ {q}
  PROVE  digest'[d] = digest[d]
<1>1. CASE HashLocal(q)
  BY <1>1 DEF HashLocal, TypeOK
<1>2. CASE ~HashLocal(q)
  BY <1>2 DEF Ask, Connect, ConnectFails, AskExtension, QueryFails, ScanPrepared,
              FileVanishes, CompareRemote, CompareFails
<1> QED BY <1>1, <1>2

LEMMA StepWatched ==
  ASSUME TypeOK, Orderly, Watched, Next
  PROVE  Watched'
<1>1. /\ lasting' \subseteq lasting /\ lasting' \subseteq Defects'
      /\ \A d \in lasting' : d \in FileQuestions => local'[File(d)] = local[File(d)]
  BY DEF Next, Watch
<1> SUFFICES ASSUME NEW d \in lasting'
             PROVE  /\ Reached(d)' => answer'[d] \notin Good \union {"none"}
                    /\ answer'[d] = "hashed" => digest'[d] = local'[File(d)]
  BY <1>1 DEF Watched
<1>2. /\ d \in lasting /\ d \in Defects /\ d \in Questions /\ Topic(d) # "connect"
      /\ d \in FileQuestions => local'[File(d)] = local[File(d)] /\ File(d) \in Payload
  BY <1>1, DefectKinds DEF Watched
<1>3. answer'[d] = "hashed" /\ answer[d] = "hashed" /\ digest'[d] = digest[d]
        => digest'[d] = local'[File(d)]
  BY <1>2, QuestionKinds DEF Orderly, Watched
<1>4. CASE Begin
  BY <1>2, <1>4, QuestionKinds, AnswerKinds DEF Begin, Reached, Orderly
<1>5. CASE Proceed
  <2>1. answer[d] \notin Open
    BY <1>2, <1>5 DEF Proceed, StageDone
  <2>2. CASE Topic(d) = stage'
    <3>1. answer'[d] = "queued"
      BY <1>2, <1>5, <2>2, QuestionKinds DEF Proceed
    <3> QED BY <3>1, AnswerKinds, AnswersDisjoint
  <2>3. CASE Topic(d) # stage'
    <3>1. answer'[d] = answer[d] /\ (Reached(d)' => Reached(d))
      BY <1>2, <1>5, <2>3, ProceedPlaces, QuestionKinds DEF Proceed, Reached
    <3> QED BY <1>2, <2>1, <3>1, AnswerKinds DEF Watched
  <2> QED BY <2>2, <2>3
<1>6. CASE Report
  <2>1. Reached(d) /\ answer'[d] = answer[d] /\ digest'[d] = digest[d]
    BY <1>2, <1>6, QuestionKinds DEF Report, Reached
  <2> QED BY <1>2, <1>3, <2>1 DEF Watched
<1>7. ASSUME NEW q \in Questions, Ask(q)
      PROVE  /\ Reached(d)' => answer'[d] \notin Good \union {"none"}
             /\ answer'[d] = "hashed" => digest'[d] = local'[File(d)]
  <2>1. Reached(d)' <=> Reached(d)
    BY <1>7, AskAnswers DEF Answered, Reached
  <2>2. CASE q = d
    <3>1. answer'[d] = "hashed" => d \in FileQuestions
      BY <1>2, <1>7, <2>2, AskAnswers, QuestionKinds DEF Answered
    <3> QED BY <1>2, <1>7, <2>2, <3>1, DefectAnswered
  <2>3. CASE q # d
    <3>1. answer'[d] = answer[d]
      BY <1>2, <1>7, <2>3, AskAnswers DEF Answered
    <3>2. d \in FileQuestions => digest'[d] = digest[d]
      BY <1>2, <1>7, <2>3, DigestAside
    <3>3. answer'[d] = "hashed" => d \in FileQuestions
      BY <1>2, <3>1, QuestionKinds DEF Orderly
    <3> QED BY <1>2, <1>3, <2>1, <3>1, <3>2, <3>3 DEF Watched
  <2> QED BY <2>2, <2>3
<1>8. CASE Change
  <2>1. answer'[d] = answer[d] /\ digest'[d] = digest[d] /\ (Reached(d)' <=> Reached(d))
    BY <1>8, ChangeAside DEF Reached
  <2> QED BY <1>2, <1>3, <2>1 DEF Watched
<1> QED BY <1>4, <1>5, <1>6, <1>7, <1>8 DEF Next, Step

LEMMA WatchedStutters == Watched /\ UNCHANGED vars => Watched'
BY DEF Watched, vars, cluster, Defects, Payload, Reached

\* Whatever else changes, a defect that is there from the beginning to the end makes
\* the verdict FAILED (the four kinds of questions and _errors).
THEOREM LastingDefectsAreReported == Spec => []LastingDefectsReported
<1>1. Init => Watched /\ Judged
  <2>1. ASSUME Init, NEW d \in lasting PROVE ~Reached(d) /\ answer[d] # "hashed"
    BY <2>1, DefectKinds, QuestionKinds DEF Init, Reached
  <2> QED BY <2>1 DEF Init, Watched, Judged
<1>2. TypeOK /\ Orderly /\ Watched /\ Judged /\ [Next]_vars => (Watched /\ Judged)'
  BY StepWatched, WatchedStutters, StepJudged
<1>3. TypeOK /\ Orderly /\ Watched /\ Judged => LastingDefectsReported
  <2> SUFFICES ASSUME TypeOK, Orderly, Watched, Judged, stage = "reported", NEW d \in lasting
               PROVE  result = "FAILED"
    BY DEF LastingDefectsReported
  <2>1. d \in Questions
    BY DefectKinds DEF Watched
  <2>2. Reached(d) /\ answer[d] \notin Open
    BY <2>1, QuestionKinds DEF Reached, Orderly
  <2>3. answer[d] \in Bad
    BY <2>1, <2>2 DEF Watched, TypeOK
  <2> QED BY <2>1, <2>3 DEF Judged, Errors
<1> QED BY <1>1, <1>2, <1>3, TypeCorrect, OrderKept, PTL DEF Spec

----------------------------------------------------------------------------
(* The exact verdict.                                                      *)

LEMMA StepRefused ==
  ASSUME TypeOK, Orderly, Refused, [Next]_vars
  PROVE  Refused'
<1> SUFFICES ASSUME NEW q \in FileQuestions, File(q) \in Unsupported, Reached(q)'
             PROVE  answer'[q] \in {"queued"} \union Bad
  BY DEF Refused
<1>0. q \in Questions /\ Topic(q) = "file" /\ File(q) \in Payload
  BY QuestionKinds, DistributedVerifyAssumption DEF Questions, Payload
<1>1. CASE Begin
  BY <1>0, <1>1 DEF Begin, Reached
<1>2. CASE Proceed
  <2>1. CASE stage' = "file"
    BY <1>0, <1>2, <2>1 DEF Proceed
  <2>2. CASE stage' # "file"
    BY <1>0, <1>2, <2>2, ProceedPlaces, AnswersDisjoint DEF Proceed, Reached, Refused
  <2> QED BY <2>1, <2>2
<1>3. CASE Report \/ Change \/ UNCHANGED vars
  <2>1. Reached(q) /\ answer'[q] = answer[q]
    BY <1>0, <1>3, ChangeAside DEF Report, vars, Reached
  <2> QED BY <2>1 DEF Refused
<1>4. ASSUME NEW r \in Questions, Ask(r) PROVE answer'[q] \in {"queued"} \union Bad
  <2>1. answer[q] \in {"queued"} \union Bad
    BY <1>4, AskAnswers DEF Answered, Reached, Refused
  <2>2. CASE r = q
    <3>1. HashLocal(q) \/ FileVanishes(q)
      BY <1>0, <1>4, <2>1, <2>2, AnswerKinds, AnswersDisjoint
         DEF Ask, Connect, ConnectFails, AskExtension, QueryFails, ScanPrepared, Queued,
             CompareRemote, CompareFails
    <3>2. answer'[q] = "query_failed"
      <4>1. CASE HashLocal(q)
        BY <1>0, <4>1, ReplyEffect DEF HashLocal
      <4>2. CASE FileVanishes(q)
        BY <1>0, <4>2 DEF FileVanishes, TypeOK
      <4> QED BY <3>1, <4>1, <4>2
    <3> QED BY <3>2, AnswerKinds
  <2>3. CASE r # q
    BY <1>0, <1>4, <2>1, <2>3, AskAnswers DEF Answered
  <2> QED BY <2>2, <2>3
<1> QED BY <1>1, <1>2, <1>3, <1>4 DEF Next, Step

\* A step of a cluster that stands still.
LEMMA StandingStill ==
  ASSUME TypeOK, Next, changes' = 0
  PROVE  /\ Step /\ changes = 0 /\ UNCHANGED cluster
         /\ \A q \in Questions : ~FileVanishes(q)
         /\ faults' = 0 => faults = 0
<1>1. changes \in Nat /\ faults \in Nat
  BY DEF TypeOK
<1>2. ~Change
  BY <1>1, ChangeAside
<1>3. \A q \in Questions : ~FileVanishes(q)
  BY <1>1 DEF FileVanishes
<1>4. ASSUME NEW q \in Questions, Ask(q)
      PROVE  changes' = changes /\ UNCHANGED cluster /\ (faults' = 0 => faults = 0)
  BY <1>1, <1>3, <1>4 DEF Ask, Connect, ConnectFails, AskExtension, QueryFails, ScanPrepared,
                          HashLocal, CompareRemote, CompareFails, Reply, Fault
<1>5. CASE Begin \/ Proceed \/ Report
  BY <1>2, <1>3, <1>5 DEF Next, Begin, Proceed, Report
<1> QED BY <1>2, <1>3, <1>4, <1>5 DEF Next, Step

\* An answer in a cluster that stands still.
LEMMA TruthfulAnswer ==
  ASSUME TypeOK, Orderly, NEW q \in Questions, Ask(q), ~FileVanishes(q), UNCHANGED cluster,
         q \in FileQuestions /\ answer[q] # "none" => File(q) \in Payload,
         answer[q] = "hashed" => digest[q] = local[File(q)]
  PROVE  /\ answer'[q] \in Bad =>
              \/ faults' > 0 \/ q \in Defects
              \/ q \in FileQuestions /\ File(q) \in Unsupported
         /\ answer'[q] \in Versions => Topic(q) = "extension" /\ answer'[q] = catalog[Node(q)]
         /\ answer'[q] = "hashed" => digest'[q] = local[File(q)]
<1> USE AnswerKinds, AnswersDisjoint DEF Queued
<1>0. ASSUME Fault PROVE faults' > 0
  BY <1>0 DEF Fault, TypeOK
<1>1. CASE Connect(q)
  BY <1>1, ReplyEffect DEF Connect
<1>2. CASE ConnectFails(q)
  BY <1>0, <1>2, ReplyEffect DEF ConnectFails
<1>3. CASE AskExtension(q)
  <2>1. q \in ExtensionQuestions /\ Topic(q) = "extension"
    BY <1>3, QuestionKinds DEF AskExtension
  <2>2. CASE catalog[Node(q)] = Absent
    <3>1. q \in Defects
      BY <2>1, <2>2 DEF Defects
    <3>2. Reply(q, "missing")
      BY <1>3, <2>2 DEF AskExtension
    <3> QED BY <3>1, <3>2, ReplyEffect
  <2>3. CASE catalog[Node(q)] # Absent
    <3>1. catalog[Node(q)] \in Versions
      BY <2>1, <2>3, CatalogValue
    <3>2. Reply(q, catalog[Node(q)])
      BY <1>3, <2>3 DEF AskExtension
    <3> QED BY <2>1, <3>1, <3>2, ReplyEffect
  <2> QED BY <2>2, <2>3
<1>4. CASE QueryFails(q)
  BY <1>0, <1>4, ReplyEffect DEF QueryFails
<1>5. CASE ScanPrepared(q)
  <2>1. CASE prepared[Node(q)]
    <3>1. q \in Defects
      BY <1>5, <2>1, QuestionKinds DEF ScanPrepared, Defects
    <3>2. Reply(q, "leak")
      BY <1>5, <2>1 DEF ScanPrepared
    <3> QED BY <3>1, <3>2, ReplyEffect
  <2>2. CASE ~prepared[Node(q)]
    <3>1. Reply(q, "ok")
      BY <1>5, <2>2 DEF ScanPrepared
    <3> QED BY <3>1, ReplyEffect
  <2> QED BY <2>1, <2>2
<1>6. CASE HashLocal(q)
  <2>1. q \in FileQuestions
    BY <1>6, QuestionKinds DEF HashLocal
  <2> QED BY <1>6, <2>1, ReplyEffect DEF HashLocal, TypeOK
<1>7. CASE CompareRemote(q)
  <2>1. q \in FileQuestions /\ digest[q] = local[File(q)] /\ File(q) \in Payload
    BY <1>7, QuestionKinds DEF CompareRemote, Orderly
  <2>2. FileStatus(q) \in Bad => q \in Defects
    BY <2>1 DEF FileStatus, Defects
  <2> QED BY <1>7, <2>1, <2>2, ReplyEffect, FileAnswer DEF CompareRemote
<1>8. CASE CompareFails(q)
  BY <1>0, <1>8, ReplyEffect DEF CompareFails
<1> QED BY <1>1, <1>2, <1>3, <1>4, <1>5, <1>6, <1>7, <1>8 DEF Ask

LEMMA StepTruthful ==
  ASSUME TypeOK, Orderly, Truthful, Next
  PROVE  Truthful'
<1> SUFFICES ASSUME changes' = 0
             PROVE  /\ lasting' = Defects'
                    /\ \A q \in Questions :
                         /\ answer'[q] \in Bad => ~Blameless(q)'
                         /\ answer'[q] \in Versions =>
                              (Topic(q) = "extension" /\ answer'[q] = catalog'[Node(q)])
                         /\ q \in FileQuestions /\ answer'[q] # "none" => File(q) \in Payload'
                         /\ answer'[q] = "hashed" => digest'[q] = local'[File(q)]
  BY DEF Truthful
<1>1. /\ Step /\ changes = 0 /\ UNCHANGED cluster
      /\ \A q \in Questions : ~FileVanishes(q)
      /\ faults' = 0 => faults = 0
  BY StandingStill
<1>2. /\ UNCHANGED <<local, remote, catalog, prepared>>
      /\ Defects' = Defects /\ Payload' = Payload
  BY <1>1 DEF cluster, Defects, Payload
<1>3. lasting' = Defects'
  BY <1>1, <1>2 DEF Truthful, Next, Watch
<1>4. ASSUME NEW q \in Questions
      PROVE  /\ answer'[q] \in Bad => ~Blameless(q)'
             /\ answer'[q] \in Versions =>
                  (Topic(q) = "extension" /\ answer'[q] = catalog'[Node(q)])
             /\ q \in FileQuestions /\ answer'[q] # "none" => File(q) \in Payload'
             /\ answer'[q] = "hashed" => digest'[q] = local'[File(q)]
  <2>1. CASE answer'[q] = answer[q] /\ (answer[q] = "hashed" => digest'[q] = digest[q])
    BY <1>1, <1>2, <2>1 DEF Truthful, Blameless
  <2>2. CASE Begin \/ Proceed
    <3>1. digest' = digest
      BY <2>2 DEF Begin, Proceed
    <3>2. \/ answer'[q] = answer[q] \/ answer'[q] = "none"
          \/ answer'[q] = "queued" /\ (q \in FileQuestions => File(q) \in Payload)
      BY <2>2, QuestionKinds DEF Begin, Proceed
    <3> QED BY <1>2, <2>1, <3>1, <3>2, AnswerKinds, AnswersDisjoint
  <2>3. CASE Report
    BY <2>1, <2>3 DEF Report
  <2>4. CASE Ask(q)
    <3>1. answer[q] # "none"
      BY <2>4, AskAnswers, AnswersDisjoint DEF Answered
    <3>2. /\ q \in FileQuestions => File(q) \in Payload
          /\ answer[q] = "hashed" => digest[q] = local[File(q)]
      BY <1>1, <3>1 DEF Truthful
    <3> QED BY <1>1, <1>2, <2>4, <3>2, TruthfulAnswer DEF Blameless, TypeOK
  <2>5. ASSUME NEW r \in Questions \ {q}, Ask(r)
        PROVE  answer'[q] = answer[q] /\ (answer[q] = "hashed" => digest'[q] = digest[q])
    BY <2>5, AskAnswers, DigestAside, QuestionKinds DEF Answered, Orderly
  <2> QED BY <1>1, <2>1, <2>2, <2>3, <2>4, <2>5 DEF Step
<1> QED BY <1>3, <1>4

LEMMA TruthfulStutters == Truthful /\ UNCHANGED vars => Truthful'
BY DEF Truthful, vars, cluster, Defects, Payload, Blameless

\* What an OK means, and what earns it.
LEMMA OkIsSound ==
  ASSUME IInv, stage = "reported", changes = 0, result = "OK"
  PROVE  faults = 0 /\ Sound
<1>1. ~Errors
  BY DEF IInv, Judged
<1>2. \A q \in Questions : answer[q] \notin Bad /\ answer[q] \notin Open /\ Reached(q)
  BY <1>1, QuestionKinds DEF Errors, IInv, Orderly, Reached
<1>3. faults = 0
  BY <1>2 DEF IInv, FaultsKept, TypeOK
<1>4. Defects = {}
  <2>1. ASSUME NEW d \in Defects PROVE FALSE
    <3>1. d \in Questions /\ d \in lasting
      BY <2>1, DefectKinds DEF IInv, Truthful
    <3>2. answer[d] \notin Good \union {"none"}
      BY <1>2, <3>1 DEF IInv, Watched
    <3> QED BY <1>2, <3>1, <3>2 DEF IInv, TypeOK
  <2> QED BY <2>1
<1>5. ASSUME NEW m \in Coordinators PROVE catalog[m] \in Installed
  <2> DEFINE q == <<"extension", m, NoFile>>
  <2>1. q \in ExtensionQuestions /\ Node(q) = m /\ q \in Questions
    BY DEF ExtensionQuestions, Node, Questions
  <2>2. Topic(q) = "extension"
    BY <2>1, QuestionKinds
  <2>3. answer[q] \notin {"none", "connected", "ok"}
    BY <1>2, <2>1, <2>2 DEF IInv, Orderly
  <2>4. answer[q] \in Versions
    BY <1>2, <2>1, <2>3 DEF IInv, TypeOK, Good
  <2>5. answer[q] = catalog[m]
    BY <2>1, <2>4 DEF IInv, Truthful
  <2> QED BY <2>1, <2>4, <2>5 DEF Installed
<1>6. \A m, n \in Coordinators : catalog[m] = catalog[n]
  BY <1>1, <1>5 DEF Errors
<1>7. ASSUME NEW n \in Nodes, NEW f \in Unsupported PROVE FALSE
  <2> DEFINE q == <<"file", n, f>>
  <2>1. f \in Files
    BY DistributedVerifyAssumption
  <2>2. q \in FileQuestions /\ File(q) = f /\ q \in Questions
    BY <2>1 DEF FileQuestions, File, Questions
  <2>3. answer[q] \in {"queued"} \union Bad
    BY <1>2, <2>2 DEF IInv, Refused
  <2> QED BY <1>2, <2>2, <2>3, AnswerKinds
<1> QED BY <1>3, <1>4, <1>6, <1>7 DEF Sound

LEMMA SoundIsOk ==
  ASSUME IInv, stage = "reported", changes = 0, faults = 0, Sound
  PROVE  result = "OK"
<1>1. ASSUME NEW q \in Questions PROVE answer[q] \notin Bad
  <2>1. q \in FileQuestions => File(q) \notin Unsupported
    BY QuestionKinds DEF Sound
  <2> QED BY <2>1 DEF IInv, Truthful, Blameless, Sound
<1>2. ASSUME NEW u \in Installed, NEW v \in Installed PROVE u = v
  <2>1. PICK q \in ExtensionQuestions, r \in ExtensionQuestions : u = answer[q] /\ v = answer[r]
    BY DEF Installed
  <2>2. q \in Questions /\ r \in Questions /\ u \in Versions /\ v \in Versions
    BY DEF Questions, Installed
  <2>3. u = catalog[Node(q)] /\ v = catalog[Node(r)]
    BY <2>1, <2>2 DEF IInv, Truthful
  <2> QED BY <2>2, <2>3, QuestionKinds DEF Sound
<1> QED BY <1>1, <1>2 DEF IInv, Judged, Errors

LEMMA InitInvariant == Init => IInv
<1>1. Init => Orderly
  BY QuestionKinds, AnswerKinds DEF Init, Orderly, Reached
<1>2. Init => FaultsKept /\ Judged
  BY DEF Init, FaultsKept, Judged
<1>3. Init => Watched
  <2>1. ASSUME Init, NEW d \in lasting PROVE ~Reached(d) /\ answer[d] # "hashed"
    BY <2>1, DefectKinds, QuestionKinds DEF Init, Reached
  <2> QED BY <2>1 DEF Init, Watched
<1>4. Init => Refused
  BY QuestionKinds DEF Init, Refused, Reached, Questions
<1>5. Init => Truthful
  BY AnswerKinds, AnswersDisjoint DEF Init, Truthful
<1> QED BY <1>1, <1>2, <1>3, <1>4, <1>5, InitTyped DEF IInv

LEMMA NextInvariant == IInv /\ [Next]_vars => IInv'
BY StepTyped, StepOrderly, StepFaults, StepJudged, StepWatched, WatchedStutters,
   StepRefused, StepTruthful, TruthfulStutters DEF IInv

\* While the cluster stands still, verify answers OK exactly if every call succeeds and
\* the cluster is as it should be: no more and no less is needed (_errors).
THEOREM VerdictIsExact == Spec => []VerdictExact
<1>1. IInv => VerdictExact
  BY OkIsSound, SoundIsOk DEF VerdictExact
<1> QED BY <1>1, InitInvariant, NextInvariant, PTL DEF Spec

----------------------------------------------------------------------------
(* verify comes to its verdict.  No fairness is stated of it and none      *)
(* could be used by the provers, but what a fair run rests on is proved:   *)
(* there is always a call to make, and each one leaves fewer.              *)

\* Every set of numbers has a least one.
LEMMA LeastExists ==
  ASSUME NEW T \in SUBSET Nat, T # {}
  PROVE  \E k \in T : \A m \in T : k <= m
<1>1. PICK k \in T : \A m \in T : ~(<<m, k>> \in OpToRel(<, Nat))
  BY NatLessThanWellFounded, WFMin, Zenon
<1>2. \A m \in T : m \in Nat /\ k \in Nat /\ ~(m < k)
  BY <1>1 DEF OpToRel
<1> QED BY <1>2

\* What a question has yet to go through.
CallsLeft(a) ==
  CASE a = "none" -> 3 [] a = "queued" -> 2 [] a = "hashed" -> 1 [] OTHER -> 0

StagesLeft ==
  CASE stage = "start" -> 5 [] stage = "connect" -> 4 [] stage = "extension" -> 3
    [] stage = "file" -> 2 [] stage = "prepared" -> 1 [] stage \in {"reported", "raised"} -> 0

QuestionsLeft == {w \in Questions \X (0 .. 2) : w[2] < CallsLeft(answer[w[1]])}

VerifyWork == Cardinality(QuestionsLeft) + StagesLeft + (MaxChanges - changes)

VerifyShrinks == VerifyWork' < VerifyWork /\ VerifyWork \in Nat /\ VerifyWork' \in Nat

LEMMA CallsCounted == \A a : CallsLeft(a) \in 0 .. 3
BY DEF CallsLeft

LEMMA QuestionsLeftFinite == IsFiniteSet(QuestionsLeft) /\ Cardinality(QuestionsLeft) \in Nat
<1>1. IsFiniteSet(Nodes) /\ IsFiniteSet(Files) /\ Coordinators \subseteq Nodes
  BY DistributedVerifyAssumption DEF DistributedVerifyAssumption, Nodes
<1>2. IsFiniteSet(Coordinators)
  BY <1>1, FS_Subset
<1>3. IsFiniteSet({"connect"}) /\ IsFiniteSet({"prepared"}) /\ IsFiniteSet({"extension"})
      /\ IsFiniteSet({"file"}) /\ IsFiniteSet({NoFile})
  BY FS_Singleton
<1>4. IsFiniteSet({"connect"} \union {"prepared"})
  BY <1>3, FS_Union
<1>5. IsFiniteSet({"connect"} \union {"prepared"} \union {"extension"})
  BY <1>3, <1>4, FS_Union
<1>6. IsFiniteSet({"connect"} \union {"prepared"} \union {"extension"} \union {"file"})
  BY <1>3, <1>5, FS_Union
<1>7. IsFiniteSet(Files \union {NoFile})
  BY <1>1, <1>3, FS_Union
<1> DEFINE Topics == {"connect"} \union {"prepared"} \union {"extension"} \union {"file"}
           All == Topics \X Nodes \X (Files \union {NoFile})
<1>8. IsFiniteSet(All)
  <2> DEFINE Pairs == Topics \X (Nodes \X (Files \union {NoFile}))
  <2>1. IsFiniteSet(Nodes \X (Files \union {NoFile}))
    BY <1>1, <1>7, FS_Product
  <2>2. IsFiniteSet(Pairs)
    BY <1>6, <2>1, FS_Product
  <2> DEFINE f == [q \in All |-> <<q[1], <<q[2], q[3]>>>>]
  <2>3. f \in [All -> Pairs]
    OBVIOUS
  <2>4. \A q, r \in All : f[q] = f[r] => q = r
    OBVIOUS
  <2>5. f \in Injection(All, Pairs)
    BY <2>3, <2>4 DEF Injection, IsInjective
  <2> QED BY <2>2, <2>5, FS_Injection
<1>9. Questions \subseteq All
  BY DEF Questions, NodeQuestions, ExtensionQuestions, FileQuestions, Nodes
<1>10. IsFiniteSet(Questions)
  BY <1>8, <1>9, FS_Subset
<1>11. IsFiniteSet(0 .. 2)
  <2>1. 0 .. 2 \in SUBSET Nat /\ 2 \in Nat /\ \A i \in 0 .. 2 : i <= 2
    OBVIOUS
  <2> QED BY <2>1, FS_BoundedSetOfNaturals
<1>12. IsFiniteSet(Questions \X (0 .. 2))
  BY <1>10, <1>11, FS_Product
<1>13. IsFiniteSet(QuestionsLeft)
  <2>1. QuestionsLeft \in SUBSET (Questions \X (0 .. 2))
    BY DEF QuestionsLeft
  <2> QED BY <1>12, <2>1, FS_Subset
<1> QED BY <1>13, FS_CardinalityType

\* If no question has more to go through than before, no more is left; if one has less,
\* less is.
LEMMA QuestionsShrink ==
  ASSUME \A r \in Questions : CallsLeft(answer'[r]) <= CallsLeft(answer[r])
  PROVE  /\ Cardinality(QuestionsLeft') <= Cardinality(QuestionsLeft)
         /\ Cardinality(QuestionsLeft') \in Nat
         /\ (\E q \in Questions : CallsLeft(answer'[q]) < CallsLeft(answer[q])) =>
               Cardinality(QuestionsLeft') < Cardinality(QuestionsLeft)
<1>1. \A r \in Questions : CallsLeft(answer[r]) \in 0 .. 3 /\ CallsLeft(answer'[r]) \in 0 .. 3
  BY CallsCounted
<1>2. QuestionsLeft' \subseteq QuestionsLeft
  BY <1>1 DEF QuestionsLeft
<1>3. IsFiniteSet(QuestionsLeft) /\ Cardinality(QuestionsLeft) \in Nat
  BY QuestionsLeftFinite
<1>4. Cardinality(QuestionsLeft') \in Nat
  BY <1>2, <1>3, FS_Subset, FS_CardinalityType
<1>5. Cardinality(QuestionsLeft') <= Cardinality(QuestionsLeft)
  BY <1>2, <1>3, FS_Subset
<1>6. ASSUME NEW q \in Questions, CallsLeft(answer'[q]) < CallsLeft(answer[q])
      PROVE  QuestionsLeft' # QuestionsLeft
  <2>1. CallsLeft(answer'[q]) \in 0 .. 2
    BY <1>1, <1>6
  <2>2. <<q, CallsLeft(answer'[q])>> \in QuestionsLeft
    BY <1>6, <2>1 DEF QuestionsLeft
  <2>3. <<q, CallsLeft(answer'[q])>> \notin QuestionsLeft'
    BY <1>1 DEF QuestionsLeft
  <2> QED BY <2>2, <2>3
<1>7. ASSUME QuestionsLeft' # QuestionsLeft
      PROVE  Cardinality(QuestionsLeft') # Cardinality(QuestionsLeft)
  BY <1>2, <1>3, <1>7, FS_Subset
<1> QED BY <1>3, <1>4, <1>5, <1>6, <1>7

\* A question that is put or answered has less to go through, and so do the others not more.
LEMMA AskShrinks ==
  ASSUME TypeOK, Orderly, NEW q \in Questions, Ask(q)
  PROVE  /\ CallsLeft(answer'[q]) < CallsLeft(answer[q])
         /\ \A r \in Questions : CallsLeft(answer'[r]) <= CallsLeft(answer[r])
         /\ stage' = stage
<1>1. Answered(q)
  BY AskAnswers
<1>2. CallsLeft(answer'[q]) < CallsLeft(answer[q])
  <2>1. CASE answer'[q] = "hashed"
    <3>1. answer[q] = "queued"
      <4>1. SUFFICES ASSUME answer[q] = "hashed" PROVE FALSE
        BY <1>1 DEF Answered, Open
      <4>2. CompareRemote(q) \/ CompareFails(q)
        BY <4>1 DEF Ask, Connect, ConnectFails, AskExtension, QueryFails, ScanPrepared,
                    HashLocal, FileVanishes, Queued
      <4>3. \E s \in {"missing", "ok", "checksum_failed", "query_failed"} : Reply(q, s)
        BY <4>2 DEF CompareRemote, CompareFails, FileStatus
      <4> QED BY <2>1, <4>3, ReplyEffect
    <3> QED BY <2>1, <3>1 DEF CallsLeft
  <2>2. CASE answer'[q] # "hashed"
    <3>1. answer'[q] \notin {"none", "queued", "hashed"} /\ answer[q] \in {"queued", "hashed"}
      BY <1>1, <2>2, AnswersDisjoint DEF Answered, Open
    <3> QED BY <3>1 DEF CallsLeft
  <2> QED BY <2>1, <2>2
<1>3. \A r \in Questions : CallsLeft(answer'[r]) <= CallsLeft(answer[r])
  <2>1. \A r \in Questions : CallsLeft(answer[r]) \in 0 .. 3 /\ CallsLeft(answer'[r]) \in 0 .. 3
    BY CallsCounted
  <2> QED BY <1>1, <1>2, <2>1 DEF Answered
<1> QED BY <1>1, <1>2, <1>3 DEF Answered

\* A stage that is entered, and the end, leave one stage fewer.
LEMMA StageShrinks ==
  ASSUME TypeOK, Orderly, Begin \/ Proceed \/ Report
  PROVE  /\ StagesLeft' < StagesLeft
         /\ \A r \in Questions : CallsLeft(answer'[r]) <= CallsLeft(answer[r])
         /\ changes' = changes
<1>1. StagesLeft' < StagesLeft /\ changes' = changes
  <2>1. CASE Begin
    BY <2>1 DEF Begin, StagesLeft
  <2>2. CASE Proceed
    BY <2>2, ProceedPlaces DEF Proceed, StagesLeft
  <2>3. CASE Report
    BY <2>3 DEF Report, StagesLeft
  <2> QED BY <2>1, <2>2, <2>3
<1>2. ASSUME NEW r \in Questions, answer'[r] = answer[r] \/ answer[r] = "none"
      PROVE  CallsLeft(answer'[r]) <= CallsLeft(answer[r])
  <2>1. CallsLeft(answer[r]) \in 0 .. 3 /\ CallsLeft(answer'[r]) \in 0 .. 3
    BY CallsCounted
  <2>2. CASE answer'[r] = answer[r]
    BY <2>1, <2>2
  <2>3. CASE answer[r] = "none"
    BY <2>1, <2>3 DEF CallsLeft
  <2> QED BY <1>2, <2>2, <2>3
<1>3. ASSUME NEW r \in Questions PROVE answer'[r] = answer[r] \/ answer[r] = "none"
  <2>1. CASE Begin
    BY <2>1, QuestionKinds DEF Begin, Orderly, Reached
  <2>2. CASE Proceed
    <3>1. CASE Topic(r) = stage'
      BY <2>2, <3>1, ProceedPlaces DEF Orderly, Reached
    <3>2. CASE Topic(r) # stage'
      BY <2>2, <3>2 DEF Proceed
    <3> QED BY <3>1, <3>2
  <2>3. CASE Report
    BY <2>3 DEF Report
  <2> QED BY <2>1, <2>2, <2>3
<1> QED BY <1>1, <1>2, <1>3

ChangesBounded == changes <= MaxChanges

LEMMA ChangesBoundedNext ==
  ASSUME TypeOK, Orderly, ChangesBounded, [Next]_vars
  PROVE  ChangesBounded'
<1>1. changes \in Nat /\ MaxChanges \in Nat
  BY DistributedVerifyAssumption DEF DistributedVerifyAssumption, TypeOK
<1>2. changes' = changes \/ (changes < MaxChanges /\ changes' = changes + 1)
  BY DEF Next, Step, Begin, Proceed, Report, Ask, Connect, ConnectFails, AskExtension,
         QueryFails, ScanPrepared, HashLocal, FileVanishes, CompareRemote, CompareFails, Reply,
         Change, ChangeFile, ChangeNode, Changing, vars
<1> QED BY <1>1, <1>2 DEF ChangesBounded

\* Whatever fails and changes, each step of a verify, and each change, leaves less to do: a
\* verify ends after at most as many steps as it had work in the beginning.
LEMMA WorkStep ==
  ASSUME TypeOK, TypeOK', Orderly, ChangesBounded, ChangesBounded', Next
  PROVE  VerifyShrinks
<1> DEFINE c == Cardinality(QuestionsLeft)
           s == StagesLeft
<1>1. /\ c \in Nat /\ s \in Nat /\ s' \in Nat
      /\ changes \in Nat /\ changes' \in Nat /\ MaxChanges \in Nat
      /\ changes <= MaxChanges /\ changes' <= MaxChanges
  BY QuestionsLeftFinite, DistributedVerifyAssumption
  DEF DistributedVerifyAssumption, TypeOK, Stages, StagesLeft, ChangesBounded
<1>2. changes' = changes \/ changes' = changes + 1
  BY DEF Next, Step, Begin, Proceed, Report, Ask, Connect, ConnectFails, AskExtension,
         QueryFails, ScanPrepared, HashLocal, FileVanishes, CompareRemote, CompareFails, Reply,
         Change, ChangeFile, ChangeNode, Changing
<1>3. CASE Begin \/ Proceed \/ Report
  <2>1. s' < s /\ c' <= c /\ c' \in Nat /\ changes' = changes
    BY <1>3, StageShrinks, QuestionsShrink
  <2> HIDE DEF c, s
  <2> QED BY <1>1, <2>1 DEF VerifyShrinks, VerifyWork, c, s
<1>4. CASE \E q \in Questions : Ask(q)
  <2>1. s' = s /\ c' < c /\ c' \in Nat
    BY <1>4, AskShrinks, QuestionsShrink DEF StagesLeft
  <2> HIDE DEF c, s
  <2> QED BY <1>1, <1>2, <2>1 DEF VerifyShrinks, VerifyWork, c, s
<1>5. CASE Change
  <2>1. s' = s /\ c' = c /\ changes' = changes + 1
    BY <1>5, ChangeAside DEF StagesLeft, QuestionsLeft
  <2> HIDE DEF c, s
  <2> QED BY <1>1, <2>1 DEF VerifyShrinks, VerifyWork, c, s
<1> QED BY <1>3, <1>4, <1>5 DEF Next, Step

LEMMA BoundedAlways == Spec => [](IInv /\ ChangesBounded)
<1>1. Init => ChangesBounded
  BY DistributedVerifyAssumption DEF DistributedVerifyAssumption, Init, ChangesBounded
<1>2. IInv /\ ChangesBounded /\ [Next]_vars => ChangesBounded'
  BY ChangesBoundedNext DEF IInv
<1> QED BY <1>1, <1>2, InitInvariant, NextInvariant, PTL DEF Spec

THEOREM VerifyWorkShrinks == Spec => [][VerifyShrinks]_vars
<1>1. IInv /\ IInv' /\ ChangesBounded /\ ChangesBounded' /\ [Next]_vars => [VerifyShrinks]_vars
  BY WorkStep DEF IInv
<1> QED BY <1>1, BoundedAlways, PTL DEF Spec

\* A step that is there to be taken, if no call fails and nothing changes.
CallToMake ==
  \/ stage = "start"
  \/ stage \notin {"start", "reported", "raised"} /\ StageDone
  \/ \E q \in Questions :
       \/ Queued(q, "connect") /\ InTurn(q)
       \/ Queued(q, "extension") \/ Queued(q, "prepared")
       \/ Queued(q, "file") /\ InTurn(q) /\ WorkerFree
       \/ answer[q] = "hashed"

VerifyGoesOn ==
  /\ ~Ended => CallToMake
  /\ stage = "reported" => result \in {"OK", "FAILED"}

\* The queue of a stage has a first question.
LEMMA FirstInTurn ==
  ASSUME Orderly, NEW p \in Questions, answer[p] = "queued"
  PROVE  \E q \in Questions : answer[q] = "queued" /\ Topic(q) = Topic(p) /\ InTurn(q)
<1> DEFINE Waiting == {q \in Questions : answer[q] = "queued"}
           ranks == {NodeRank[Node(q)] : q \in Waiting}
<1>0. \A q \in Waiting : Topic(q) = stage /\ Topic(p) = stage
  BY AnswerKinds DEF Orderly
<1>1. \A q \in Questions : NodeRank[Node(q)] \in Nat
  BY QuestionKinds, DistributedVerifyAssumption DEF DistributedVerifyAssumption
<1>2. ranks \in SUBSET Nat /\ ranks # {}
  BY <1>1
<1>3. PICK k \in ranks : \A m \in ranks : k <= m
  <2> HIDE DEF ranks
  <2> QED BY <1>2, LeastExists
<1>4. PICK n \in Waiting : \A r \in Waiting : NodeRank[Node(n)] <= NodeRank[Node(r)]
  BY <1>3
<1>5. CASE Topic(p) # "file"
  <2>1. ASSUME NEW r \in Questions, answer[r] = "queued" PROVE ~Earlier(r, n)
    <3>1. ~(NodeRank[Node(r)] < NodeRank[Node(n)])
      BY <1>1, <1>4, <2>1
    <3> QED BY <1>0, <1>4, <1>5, <2>1, <3>1 DEF Earlier
  <2> QED BY <1>0, <1>4, <2>1 DEF InTurn
<1>6. CASE Topic(p) = "file"
  <2> DEFINE Here == {q \in Waiting : Node(q) = Node(n)}
             places == {FileRank[File(q)] : q \in Here}
  <2>1. \A q \in Here : q \in Questions /\ FileRank[File(q)] \in Nat
    BY <1>0, <1>6, QuestionKinds, DistributedVerifyAssumption DEF DistributedVerifyAssumption
  <2>2. places \in SUBSET Nat /\ places # {}
    BY <1>4, <2>1
  <2>3. PICK i \in places : \A m \in places : i <= m
    <3> HIDE DEF places
    <3> QED BY <2>2, LeastExists
  <2>4. PICK q \in Here : \A r \in Here : FileRank[File(q)] <= FileRank[File(r)]
    BY <2>3
  <2>5. ASSUME NEW r \in Questions, answer[r] = "queued" PROVE ~Earlier(r, q)
    <3>1. ~(NodeRank[Node(r)] < NodeRank[Node(q)])
      BY <1>1, <1>4, <2>1, <2>4, <2>5
    <3>2. Node(r) = Node(q) => ~(FileRank[File(r)] < FileRank[File(q)])
      BY <2>1, <2>4, <2>5
    <3> QED BY <3>1, <3>2 DEF Earlier
  <2> QED BY <1>0, <2>4, <2>5 DEF InTurn
<1> QED BY <1>5, <1>6

LEMMA CallFound ==
  ASSUME TypeOK, Orderly, ~Ended
  PROVE  CallToMake
<1> SUFFICES ASSUME stage # "start", ~StageDone, \A q \in Questions : answer[q] # "hashed"
             PROVE  CallToMake
  BY DEF CallToMake, Ended
<1>1. PICK p \in Questions : answer[p] = "queued"
  BY AnswerKinds DEF StageDone
<1>2. PICK q \in Questions : answer[q] = "queued" /\ InTurn(q)
  BY <1>1, FirstInTurn
<1>3. WorkerFree
  <2>1. {r \in Questions : answer[r] = "hashed"} = {}
    OBVIOUS
  <2>2. Cardinality({r \in Questions : answer[r] = "hashed"}) = 0
    BY <2>1, FS_EmptySet
  <2>3. MaxWorkers \in Nat \ {0}
    BY DistributedVerifyAssumption DEF DistributedVerifyAssumption
  <2> QED BY <2>2, <2>3 DEF WorkerFree
<1> QED BY <1>2, <1>3, QuestionKinds DEF CallToMake, Queued

\* On every cluster and with any number of threads a verify is never stuck: until it has
\* come to a verdict, or raised, there is a question to put or a stage to leave.
THEOREM VerifyNeverStuck == Spec => []VerifyGoesOn
<1>1. IInv => VerifyGoesOn
  BY CallFound DEF IInv, Judged, VerifyGoesOn
<1> QED BY <1>1, InitInvariant, NextInvariant, PTL DEF Spec

=============================================================================
