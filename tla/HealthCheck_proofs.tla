-------------------------- MODULE HealthCheck_proofs --------------------------
(***************************************************************************)
(* Theorems about HealthCheck: what the final status of `check` says of    *)
(* the cluster, on top of what DistributedVerify_proofs says of the        *)
(* answers that its questions get.                                         *)
(***************************************************************************)
EXTENDS HealthCheck, DistributedVerify_proofs

Sections == {"package", "books", "cluster", "plan", "verify", "smoke", "removed", "decide",
             "checked"}
Items == [package : Marks, books : [Actions -> Records], cluster : Marks, plan : Marks,
          files : Marks, extension : Marks, smoke : Marks, removed : Marks]

----------------------------------------------------------------------------
(* The questions are those of DistributedVerify.                           *)

\* Sections that ask no node.
LEMMA SectionsAside ==
  ASSUME CheckStep \/ Record
  PROVE  UNCHANGED vars /\ setup' = setup
BY DEF CheckStep, CheckPackage, ReadBooks, FindCluster, CheckPlan, Collect, RunSmoke, SmokeFails,
       ProbeRemoved, ProbeFails, Decide, Record, Section, Smoothly, OwnFault

LEMMA CheckStepRefines ==
  ASSUME [CheckNext]_allVars
  PROVE  [Next]_vars
BY SectionsAside DEF CheckNext, Verify, Next, allVars

\* A check asks the nodes as `verify -f` does, so that what holds of every distributed
\* verify holds of the one inside a check.
THEOREM ChecksVerify == CheckSpec => Spec
<1>1. CheckInit => Init
  BY DEF CheckInit
<1> QED BY <1>1, CheckStepRefines, PTL DEF CheckSpec, Spec

LEMMA VerifyInvariant == CheckSpec => []IInv
BY ChecksVerify, InitInvariant, NextInvariant, PTL DEF Spec

\* The verdict inside a check: VerdictExact, FaultsReported, LastingDefectsReported.
THEOREM ChecksVerifyWell ==
  CheckSpec => [](VerdictExact /\ FaultsReported /\ LastingDefectsReported)
BY ChecksVerify, VerdictIsExact, FaultsAreReported, LastingDefectsAreReported, PTL

----------------------------------------------------------------------------
(* Types.                                                                  *)

LEMMA MarksTyped ==
  /\ {PackageMark, PlanMark, FilesMark, ExtensionMark, RemovedMark} \subseteq Marks
  /\ FinalStatus \in Statuses
BY DEF PackageMark, PlanMark, FilesMark, ExtensionMark, RemovedMark, FinalStatus, Marks, Statuses

\* What a step of the check does to its place and items.
ItemsStep ==
  /\ place' \in Sections
  /\ items' \in Items
  /\ final' \in Statuses \union {"none"}
  /\ ownFaults' \in Nat

LEMMA SectionTyped ==
  ASSUME CheckTypeOK, CheckStep
  PROVE  ItemsStep /\ UNCHANGED <<history, recorded>>
<1>0. items \in Items /\ final \in Statuses \union {"none"} /\ ownFaults \in Nat
      /\ history \in [Actions -> Records]
  BY DEF CheckTypeOK, Items
<1>1. CASE CheckPackage
  BY <1>0, <1>1, MarksTyped DEF CheckPackage, Section, Smoothly, ItemsStep, Items, Sections
<1>2. CASE ReadBooks
  BY <1>0, <1>2 DEF ReadBooks, Section, Smoothly, ItemsStep, Items, Sections
<1>3. CASE FindCluster
  <2>1. /\ place' \in Sections
        /\ UNCHANGED <<final, history, recorded, ownFaults>>
        /\ \/ items' = [items EXCEPT !.cluster = "OK"]
           \/ items' = [items EXCEPT !.cluster = "FAIL", !.files = "SKIP", !.extension = "SKIP"]
           \/ items' = [items EXCEPT !.cluster = "SKIP", !.files = "SKIP", !.extension = "SKIP"]
    BY <1>3 DEF FindCluster, Section, Smoothly, Sections
  <2>2. items' \in Items
    <3>0. {"OK", "FAIL", "SKIP"} \subseteq Marks
      BY DEF Marks
    <3>1. CASE items' = [items EXCEPT !.cluster = "OK"]
      BY <1>0, <3>0, <3>1 DEF Items
    <3>2. CASE items' = [items EXCEPT !.cluster = "FAIL", !.files = "SKIP", !.extension = "SKIP"]
      BY <1>0, <3>0, <3>2 DEF Items
    <3>3. CASE items' = [items EXCEPT !.cluster = "SKIP", !.files = "SKIP", !.extension = "SKIP"]
      BY <1>0, <3>0, <3>3 DEF Items
    <3> QED BY <2>1, <3>1, <3>2, <3>3
  <2> QED BY <1>0, <2>1, <2>2 DEF ItemsStep
<1>4. CASE CheckPlan
  BY <1>0, <1>4, MarksTyped DEF CheckPlan, Section, Smoothly, ItemsStep, Items, Sections
<1>5. CASE Collect
  <2>1. /\ place' \in Sections
        /\ UNCHANGED <<final, history, recorded, ownFaults>>
        /\ \/ items' = [items EXCEPT !.extension = "SKIP"]
           \/ items' = [items EXCEPT !.files = FilesMark, !.extension = ExtensionMark]
    BY <1>5 DEF Collect, Section, Smoothly, Sections
  <2>2. items' \in Items
    <3>1. CASE items' = [items EXCEPT !.extension = "SKIP"]
      BY <1>0, <3>1 DEF Items, Marks
    <3>2. CASE items' = [items EXCEPT !.files = FilesMark, !.extension = ExtensionMark]
      <4>1. FilesMark \in Marks /\ ExtensionMark \in Marks
        BY MarksTyped
      <4> QED BY <1>0, <3>2, <4>1 DEF Items
    <3> QED BY <2>1, <3>1, <3>2
  <2> QED BY <1>0, <2>1, <2>2 DEF ItemsStep
<1>6. CASE RunSmoke \/ SmokeFails
  <2>1. /\ place' \in Sections /\ ownFaults' \in Nat
        /\ UNCHANGED <<final, history, recorded>>
        /\ \E mark \in {"SKIP", "OK", "FAIL"} : items' = [items EXCEPT !.smoke = mark]
    BY <1>0, <1>6 DEF RunSmoke, SmokeFails, Section, Smoothly, OwnFault, Sections
  <2>2. items' \in Items
    BY <1>0, <2>1 DEF Items, Marks
  <2> QED BY <1>0, <2>1, <2>2 DEF ItemsStep
<1>7. CASE ProbeRemoved \/ ProbeFails
  <2>1. /\ place' \in Sections /\ ownFaults' \in Nat
        /\ UNCHANGED <<final, history, recorded>>
        /\ \E mark \in Marks : items' = [items EXCEPT !.removed = mark]
    BY <1>0, <1>7, MarksTyped DEF ProbeRemoved, ProbeFails, Section, Smoothly, OwnFault, Sections, Marks
  <2>2. items' \in Items
    BY <1>0, <2>1 DEF Items
  <2> QED BY <1>0, <2>1, <2>2 DEF ItemsStep
<1>8. CASE Decide
  BY <1>0, <1>8, MarksTyped DEF Decide, ItemsStep, Sections
<1> QED BY <1>1, <1>2, <1>3, <1>4, <1>5, <1>6, <1>7, <1>8 DEF CheckStep

LEMMA RecordTyped ==
  ASSUME CheckTypeOK, Record
  PROVE  history' \in [Actions -> Records] /\ recorded' \in Nat
BY DEF Record, CheckTypeOK, Records

LEMMA CheckNextTyped ==
  ASSUME CheckTypeOK, IInv, [CheckNext]_allVars
  PROVE  CheckTypeOK'
<1>1. TypeOK'
  BY CheckStepRefines, NextInvariant DEF IInv
<1>2. CASE CheckStep
  BY <1>1, <1>2, SectionTyped, SectionsAside DEF CheckTypeOK, ItemsStep, Items, Sections
<1>3. CASE Record
  BY <1>1, <1>3, RecordTyped DEF CheckTypeOK, Record, checkVars
<1>4. CASE UNCHANGED <<setup, history, recorded, checkVars>>
  BY <1>1, <1>4 DEF CheckTypeOK, checkVars
<1> QED BY <1>2, <1>3, <1>4 DEF CheckNext, Verify, allVars

\* The variables of the check keep their types.
THEOREM CheckTypeCorrect == CheckSpec => []CheckTypeOK
<1>1. CheckInit => CheckTypeOK
  BY InitTyped DEF CheckInit, CheckTypeOK, Marks, Records
<1> QED BY <1>1, CheckNextTyped, VerifyInvariant, PTL DEF CheckSpec

----------------------------------------------------------------------------
(* What the sections have seen.                                            *)

Collected == {"smoke", "removed", "decide", "checked"}

Seen ==
  /\ place \in {"package", "books", "cluster", "plan"} => stage = "start"
  /\ place \notin Collected => {items.files, items.extension} \subseteq {"none", "SKIP"}
  /\ items.files \in {"OK", "WARN"} => stage = "reported" /\ items.files = FilesMark
  /\ items.extension \in {"OK", "WARN"} => stage = "reported" /\ items.extension = ExtensionMark
  /\ Unsupported # {} /\ place # "package" => items.package = "FAIL"
  /\ final # "none" => place = "checked"
  /\ place = "checked" => final = FinalStatus

\* As long as no call fails, a file question about a lasting defect is answered by what is
\* wrong with the file.
Sighted(d, status) ==
  File(d) \notin Unsupported => status \notin {"failed", "query_failed", "leak"}

LastingSighted == faults = 0 => \A d \in lasting \intersect FileQuestions : Sighted(d, answer[d])

RemovedSeen == changes = 0 /\ items.removed = "OK" => catalog[Home] = Absent

BooksSeen == recorded = 0 /\ place \notin {"package", "books"} => items.books = history

\* The items that a section leaves alone.
LEMMA SectionItems ==
  ASSUME CheckTypeOK, CheckStep
  PROVE  /\ items'.package # items.package => CheckPackage
         /\ items'.books # items.books => ReadBooks
         /\ items'.files # items.files \/ items'.extension # items.extension => FindCluster \/ Collect
         /\ items'.removed # items.removed => ProbeRemoved \/ ProbeFails
         /\ items'.smoke # items.smoke => RunSmoke \/ SmokeFails
         /\ items'.cluster # items.cluster => FindCluster
         /\ items'.plan # items.plan => CheckPlan
         /\ final' # final => Decide
         /\ UNCHANGED <<vars, setup, history, recorded>>
<1>0. items \in Items
  BY DEF CheckTypeOK, Items
<1>1. UNCHANGED <<vars, setup, history, recorded>>
  BY SectionsAside, SectionTyped
<1>2. CASE CheckPackage
  BY <1>0, <1>1, <1>2 DEF CheckPackage, Section, Items
<1>3. CASE ReadBooks
  BY <1>0, <1>1, <1>3 DEF ReadBooks, Section, Items
<1>4. CASE FindCluster
  BY <1>0, <1>1, <1>4 DEF FindCluster, Section, Items
<1>5. CASE CheckPlan
  BY <1>0, <1>1, <1>5 DEF CheckPlan, Section, Items
<1>6. CASE Collect
  BY <1>0, <1>1, <1>6 DEF Collect, Section, Items
<1>7. CASE RunSmoke \/ SmokeFails
  BY <1>0, <1>1, <1>7 DEF RunSmoke, SmokeFails, Section, Items
<1>8. CASE ProbeRemoved \/ ProbeFails
  BY <1>0, <1>1, <1>8 DEF ProbeRemoved, ProbeFails, Section, Items
<1>9. CASE Decide
  BY <1>0, <1>1, <1>9 DEF Decide
<1> QED BY <1>2, <1>3, <1>4, <1>5, <1>6, <1>7, <1>8, <1>9 DEF CheckStep

\* Where the sections follow each other.
LEMMA SectionPlaces ==
  ASSUME CheckStep
  PROVE  /\ place' = "books" => CheckPackage
         /\ place' # "package"
         /\ place' = "cluster" => ReadBooks
         /\ place' = "plan" => FindCluster
         /\ place' = "verify" => CheckPlan
         /\ place' = "checked" => Decide
         /\ place # "checked"
BY DEF CheckStep, CheckPackage, ReadBooks, FindCluster, CheckPlan, Collect, RunSmoke, SmokeFails,
       ProbeRemoved, ProbeFails, Decide, Section

\* The marks depend on the answers alone.
LEMMA MarksOfAnswers ==
  ASSUME UNCHANGED answer
  PROVE  FilesMark' = FilesMark /\ ExtensionMark' = ExtensionMark
BY DEF FilesMark, ExtensionMark, FileAnswers, ExtensionAnswers

LEMMA SeenStep ==
  ASSUME CheckTypeOK, Seen, CheckStep
  PROVE  Seen'
<1>0. items \in Items /\ items' \in Items /\ UNCHANGED <<vars, setup, history, recorded>>
  BY SectionItems, SectionTyped DEF CheckTypeOK, Items, ItemsStep
<1>1. UNCHANGED <<answer, stage>> /\ FilesMark' = FilesMark /\ ExtensionMark' = ExtensionMark
  BY <1>0, MarksOfAnswers DEF vars
<1>2. (place \in {"package", "books", "cluster", "plan"} => stage = "start")'
  BY <1>1 DEF Seen, CheckStep, CheckPackage, ReadBooks, FindCluster, CheckPlan, Collect, RunSmoke,
              SmokeFails, ProbeRemoved, ProbeFails, Decide, Section
<1>3. (place \notin Collected => {items.files, items.extension} \subseteq {"none", "SKIP"})'
  <2>1. CASE FindCluster
    BY <1>0, <2>1 DEF FindCluster, Section, Seen, Collected, Items
  <2>2. CASE Collect
    BY <2>2 DEF Collect, Section, Collected
  <2>3. CASE ~FindCluster /\ ~Collect
    <3>1. items'.files = items.files /\ items'.extension = items.extension
      BY <2>3, SectionItems
    <3>2. place' \notin Collected => place \notin Collected
      BY DEF CheckStep, CheckPackage, ReadBooks, FindCluster, CheckPlan, Collect, RunSmoke,
             SmokeFails, ProbeRemoved, ProbeFails, Decide, Section, Collected
    <3> QED BY <3>1, <3>2 DEF Seen
  <2> QED BY <2>1, <2>2, <2>3
<1>4. /\ items'.files \in {"OK", "WARN"} => stage = "reported" /\ items'.files = FilesMark
      /\ items'.extension \in {"OK", "WARN"} =>
           stage = "reported" /\ items'.extension = ExtensionMark
  <2>1. CASE FindCluster
    BY <1>0, <2>1 DEF FindCluster, Section, Seen, Collected, Items
  <2>2. CASE Collect
    <3>1. stage \in {"reported", "raised"} /\ place \notin Collected
      BY <2>2 DEF Collect, Section, Ended, Collected
    <3>2. CASE stage = "raised"
      BY <1>0, <2>2, <3>1, <3>2 DEF Collect, Seen, Items
    <3>3. CASE stage = "reported"
      <4>1. items' = [items EXCEPT !.files = FilesMark, !.extension = ExtensionMark]
        BY <2>2, <3>3 DEF Collect
      <4>2. items'.files = FilesMark /\ items'.extension = ExtensionMark
        BY <1>0, <4>1 DEF Items
      <4> QED BY <3>3, <4>2
    <3> QED BY <3>1, <3>2, <3>3
  <2>3. CASE ~FindCluster /\ ~Collect
    BY <2>3, SectionItems DEF Seen
  <2> QED BY <2>1, <2>2, <2>3
<1>5. Unsupported # {} => items'.package = "FAIL"
  <2>1. CASE CheckPackage
    BY <1>0, <2>1 DEF CheckPackage, PackageMark, Items
  <2>2. CASE ~CheckPackage
    <3>1. place # "package"
      BY <2>2 DEF CheckStep, CheckPackage, ReadBooks, FindCluster, CheckPlan, Collect, RunSmoke,
                  SmokeFails, ProbeRemoved, ProbeFails, Decide, Section
    <3> QED BY <2>2, <3>1, SectionItems DEF Seen
  <2> QED BY <2>1, <2>2
<1>6. (final # "none" => place = "checked")' /\ (place = "checked" => final = FinalStatus)'
  <2>1. CASE Decide
    <3>1. UNCHANGED <<items, setup>> /\ place' = "checked" /\ final' = FinalStatus
      BY <2>1 DEF Decide
    <3> QED BY <3>1 DEF FinalStatus, Failing
  <2>2. CASE ~Decide
    BY <2>2, SectionItems, SectionPlaces DEF Seen
  <2> QED BY <2>1, <2>2
<1> QED BY <1>1, <1>2, <1>3, <1>4, <1>5, <1>6 DEF Seen

LEMMA SeenNext ==
  ASSUME CheckTypeOK, Seen, [CheckNext]_allVars
  PROVE  Seen'
<1>1. CASE Verify
  BY <1>1 DEF Verify, Seen, checkVars, Collected, FinalStatus, Failing
<1>2. CASE Change /\ UNCHANGED <<setup, history, recorded, checkVars>>
  BY <1>2, ChangeAside, MarksOfAnswers DEF Seen, checkVars, FinalStatus, Failing
<1>3. CASE Record
  BY <1>3, MarksOfAnswers DEF Record, Seen, vars, checkVars, FinalStatus, Failing
<1>4. CASE UNCHANGED allVars
  BY <1>4, MarksOfAnswers DEF allVars, Seen, vars, checkVars, FinalStatus, Failing
<1> QED BY <1>1, <1>2, <1>3, <1>4, SeenStep DEF CheckNext

LEMMA SightedNext ==
  ASSUME IInv, LastingSighted, [Next]_vars
  PROVE  LastingSighted'
<1> SUFFICES ASSUME faults' = 0, NEW d \in lasting', d \in FileQuestions
             PROVE  Sighted(d, answer'[d])
  BY DEF LastingSighted, Sighted
<1>0. TypeOK /\ Orderly /\ d \in Questions /\ faults \in Nat
  BY DEF IInv, TypeOK, Questions
<1>1. CASE UNCHANGED vars
  BY <1>1 DEF vars, LastingSighted
<1>2. CASE Next
  <2>1. d \in lasting /\ local'[File(d)] = local[File(d)]
    BY <1>2 DEF Next, Watch
  <2>2. CASE faults = 0 /\ answer'[d] = answer[d]
    BY <2>1, <2>2 DEF LastingSighted
  <2>3. CASE Begin \/ Proceed \/ Report
    <3>1. faults' = faults
      BY <2>3 DEF Begin, Proceed, Report
    <3>2. answer'[d] \in {answer[d], "none", "queued"}
      BY <1>0, <2>3 DEF Begin, Proceed, Report
    <3> QED BY <2>2, <3>1, <3>2 DEF Sighted
  <2>4. CASE Change
    BY <2>2, <2>4, ChangeAside
  <2>5. ASSUME NEW q \in Questions, Ask(q)
        PROVE  Sighted(d, answer'[d])
    <3>1. faults = 0
      BY <1>0, <2>5 DEF Ask, Connect, ConnectFails, AskExtension, QueryFails, ScanPrepared,
                        HashLocal, FileVanishes, CompareRemote, CompareFails, Fault
    <3>2. CASE q # d
      BY <1>0, <2>2, <2>5, <3>1, <3>2, AskAnswers DEF Answered
    <3>3. CASE q = d
      <4>1. Topic(d) = "file"
        BY <1>0, QuestionKinds
      <4>2. HashLocal(d) \/ FileVanishes(d) \/ CompareRemote(d)
        BY <1>0, <2>5, <3>1, <3>3, <4>1 DEF Ask, Connect, ConnectFails, AskExtension, QueryFails,
           ScanPrepared, CompareFails, Fault, Queued
      <4>3. CASE HashLocal(d)
        BY <1>0, <4>3, ReplyEffect DEF HashLocal, Sighted
      <4>4. CASE FileVanishes(d)
        <5>1. File(d) \in Files
          BY <1>0, QuestionKinds
        <5> QED BY <1>0, <2>1, <4>4, <5>1 DEF FileVanishes, TypeOK
      <4>5. CASE CompareRemote(d)
        <5>1. FileStatus(d) \in {"missing", "ok", "checksum_failed"}
          BY DEF FileStatus
        <5> QED BY <1>0, <4>5, <5>1, ReplyEffect DEF CompareRemote, Sighted
      <4> QED BY <4>2, <4>3, <4>4, <4>5
    <3> QED BY <3>2, <3>3
  <2> QED BY <1>2, <2>3, <2>4, <2>5 DEF Next, Step
<1> QED BY <1>1, <1>2

LEMMA SeenAlways == CheckSpec => [](CheckTypeOK /\ IInv /\ Seen /\ LastingSighted)
<1>1. CheckInit => Seen
  BY DEF CheckInit, Init, Seen, Collected
<1>2. CheckInit => LastingSighted
  <2>1. ASSUME Init, NEW d \in lasting \intersect FileQuestions PROVE answer[d] = "none"
    BY <2>1 DEF Init, Questions
  <2> QED BY <2>1 DEF CheckInit, LastingSighted, Sighted
<1> QED BY <1>1, <1>2, CheckTypeCorrect, VerifyInvariant, CheckStepRefines, SeenNext, SightedNext, PTL
        DEF CheckSpec

\* REGISTERED is never said of an extension that a coordinator lacked all the time
\* (RegisteredWasServed).
THEOREM RegisteredServed == CheckSpec => []RegisteredWasServed
<1>1. IInv /\ Seen => RegisteredWasServed
  <2> SUFFICES ASSUME IInv, Seen, final = "REGISTERED", NEW q \in lasting, q \in ExtensionQuestions
               PROVE  FALSE
    BY HealthCheckAssumption DEF HealthCheckAssumption, RegisteredWasServed
  <2>1. items.extension = "OK"
    BY DEF Seen, FinalStatus
  <2>2. stage = "reported" /\ ExtensionAnswers \subseteq Versions
    BY <2>1 DEF Seen, ExtensionMark
  <2>3. answer[q] \notin Good \union {"none"}
    BY <2>2 DEF IInv, Watched, Reached
  <2>4. answer[q] \in Versions
    BY <2>2, <2>3 DEF ExtensionAnswers
  <2> QED BY <2>3, <2>4, AnswerKinds
<1> QED BY <1>1, SeenAlways, PTL

\* As long as every call succeeds, DEPLOYED is never said while a stale or missing copy
\* lasts (DeployedWasSeen).
THEOREM DeployedSeen == CheckSpec => []DeployedWasSeen
<1>1. IInv /\ Seen /\ LastingSighted => DeployedWasSeen
  <2> SUFFICES ASSUME IInv, Seen, LastingSighted, final = "DEPLOYED", faults = 0,
                      NEW d \in lasting, d \in FileQuestions
               PROVE  FALSE
    BY DEF DeployedWasSeen
  <2>1. items.files = "OK" /\ ~Failing /\ place = "checked"
    BY DEF Seen, FinalStatus
  <2>2. stage = "reported" /\ FileAnswers \intersect {"missing", "checksum_failed"} = {}
    BY <2>1 DEF Seen, FilesMark
  <2>3. Unsupported = {}
    BY <2>1 DEF Seen, Failing
  <2>4. d \in Questions /\ Topic(d) = "file"
    BY QuestionKinds DEF Questions
  <2>5. answer[d] \notin Good \union {"none"} \union Open
    BY <2>2, <2>4 DEF IInv, Watched, Reached, Orderly
  <2>6. answer[d] \in Bad
    BY <2>4, <2>5 DEF IInv, TypeOK
  <2>7. answer[d] \in {"missing", "checksum_failed"}
    BY <2>3, <2>6 DEF LastingSighted, Sighted, Bad
  <2>8. answer[d] \in FileAnswers
    BY <2>5 DEF FileAnswers
  <2> QED BY <2>2, <2>7, <2>8
<1> QED BY <1>1, SeenAlways, PTL

----------------------------------------------------------------------------
(* Removed.                                                                *)

LEMMA BooksNext ==
  ASSUME CheckTypeOK, BooksSeen, [CheckNext]_allVars
  PROVE  BooksSeen'
<1>1. CASE CheckStep
  <2>1. CASE ReadBooks
    BY <2>1, SectionsAside DEF ReadBooks, Section, CheckTypeOK, BooksSeen
  <2>2. CASE ~ReadBooks
    <3>1. UNCHANGED <<history, recorded>> /\ items'.books = items.books
      BY <1>1, <2>2, SectionItems
    <3>2. place' \notin {"package", "books"} => place \notin {"package", "books"}
      BY <1>1, <2>2 DEF CheckStep, CheckPackage, FindCluster, CheckPlan, Collect, RunSmoke,
         SmokeFails, ProbeRemoved, ProbeFails, Decide, Section
    <3> QED BY <3>1, <3>2 DEF BooksSeen
  <2> QED BY <2>1, <2>2
<1>2. CASE Record
  BY <1>2 DEF Record, CheckTypeOK, BooksSeen
<1>3. CASE UNCHANGED <<setup, history, recorded, checkVars>>
  BY <1>3 DEF checkVars, BooksSeen
<1> QED BY <1>1, <1>2, <1>3 DEF CheckNext, Verify, allVars

LEMMA RemovedNext ==
  ASSUME CheckTypeOK, RemovedSeen, [CheckNext]_allVars
  PROVE  RemovedSeen'
<1>0. TypeOK /\ items \in Items /\ changes \in Nat
  BY DEF CheckTypeOK, TypeOK, Items
<1>1. CASE CheckStep
  <2>1. UNCHANGED <<changes, catalog>>
    BY <1>1, SectionsAside DEF vars, cluster
  <2>2. CASE ProbeRemoved
    <3>1. items'.removed = RemovedMark
      BY <1>0, <2>2 DEF ProbeRemoved, Items
    <3> QED BY <2>1, <3>1 DEF RemovedMark, RemovedSeen
  <2>3. CASE ProbeFails
    BY <1>0, <2>3 DEF ProbeFails, Items, RemovedSeen
  <2>4. CASE ~ProbeRemoved /\ ~ProbeFails
    BY <1>1, <2>1, <2>4, SectionItems DEF RemovedSeen
  <2> QED BY <2>2, <2>3, <2>4
<1>2. CASE Next /\ items' = items
  <2>1. changes' = 0 => changes = 0 /\ UNCHANGED cluster
    BY <1>0, <1>2, StandingStill
  <2> QED BY <1>2, <2>1 DEF cluster, RemovedSeen
<1>3. CASE UNCHANGED vars /\ items' = items
  BY <1>3 DEF vars, cluster, RemovedSeen
<1> QED BY <1>1, <1>2, <1>3 DEF CheckNext, Verify, Record, Next, allVars, checkVars

\* REMOVED is said only of an extension that a successful rollback has been recorded of, and
\* that is gone (RemovedWasGone).
THEOREM RemovedGone == CheckSpec => []RemovedWasGone
<1>1. CheckInit => BooksSeen /\ RemovedSeen
  BY DEF CheckInit, BooksSeen, RemovedSeen
<1>2. Seen /\ BooksSeen /\ RemovedSeen => RemovedWasGone
  <2> SUFFICES ASSUME Seen, BooksSeen, RemovedSeen, final = "REMOVED", changes = 0, recorded = 0
               PROVE  history["rollback"] = "ok" /\ catalog[Home] = Absent
    BY DEF RemovedWasGone
  <2>1. items.books["rollback"] = "ok" /\ items.removed = "OK" /\ place = "checked"
    BY DEF Seen, FinalStatus
  <2> QED BY <2>1 DEF BooksSeen, RemovedSeen
<1> QED BY <1>1, <1>2, CheckTypeCorrect, SeenAlways, BooksNext, RemovedNext, PTL DEF CheckSpec

----------------------------------------------------------------------------
(* The status of a fit plugin.                                             *)

\* What the sections have seen of a fit plugin that nobody touches.
SmokeMark == IF items.extension # "OK" THEN "SKIP"
             ELSE IF catalog[Home] # Absent THEN "OK" ELSE "FAIL"

FitSeen ==
  /\ stage # "raised"
  /\ place # "package" => items.package = "OK"
  /\ place \notin {"package", "books", "cluster"} => items.cluster = "OK"
  /\ place \notin {"package", "books", "cluster", "plan"} => items.plan = "OK"
  /\ place \in Collected =>
       stage = "reported" /\ items.files = FilesMark /\ items.extension = ExtensionMark
  /\ place \in {"removed", "decide", "checked"} => items.smoke = SmokeMark
  /\ stage \in {"file", "prepared", "reported"} =>
       \A q \in FileQuestions : File(q) \in Payload => answer[q] # "none"

CalmSeen == Fit /\ Undisturbed => FitSeen

\* Fitness and peace are lost for good.
LEMMA CalmBefore ==
  ASSUME CheckTypeOK, [CheckNext]_allVars, Fit', Undisturbed'
  PROVE  /\ Fit /\ Undisturbed /\ UNCHANGED <<cluster, setup, history>>
         /\ ~Change /\ ~Record /\ ~SmokeFails /\ ~ProbeFails
         /\ \A q \in Questions : ~FileVanishes(q)
<1>0. TypeOK /\ recorded \in Nat /\ ownFaults \in Nat /\ changes \in Nat
  BY DEF CheckTypeOK, TypeOK
<1>1. ~Change /\ ~Record /\ ~SmokeFails /\ ~ProbeFails
      /\ \A q \in Questions : ~FileVanishes(q)
  BY <1>0, ChangeAside DEF Undisturbed, Record, SmokeFails, ProbeFails, OwnFault, FileVanishes
<1>2. UNCHANGED <<cluster, setup, history>> /\ Undisturbed
  <2>1. CASE CheckStep
    <3>1. UNCHANGED <<vars, setup, history, recorded>>
      BY <2>1, SectionItems
    <3>2. ownFaults' = ownFaults
      BY <1>1, <2>1 DEF CheckStep, CheckPackage, ReadBooks, FindCluster, CheckPlan, Collect,
                        RunSmoke, ProbeRemoved, Decide, Smoothly
    <3> QED BY <3>1, <3>2 DEF vars, Undisturbed
  <2>2. CASE Verify /\ Watch
    <3>1. Next
      BY <2>2 DEF Verify, Next
    <3>2. UNCHANGED cluster /\ changes = 0 /\ faults = 0
      BY <1>0, <3>1, StandingStill DEF Undisturbed
    <3> QED BY <2>2, <3>2 DEF Verify, checkVars, Undisturbed
  <2>3. CASE UNCHANGED allVars
    BY <2>3 DEF allVars, vars, checkVars, Undisturbed
  <2> QED BY <1>1, <2>1, <2>2, <2>3 DEF CheckNext
<1>3. Fit
  BY <1>2 DEF cluster, Fit, Missing, Payload
<1> QED BY <1>1, <1>2, <1>3

\* Every payload file is asked about.
LEMMA PayloadAsked ==
  ASSUME TypeOK, Orderly, Next, UNCHANGED cluster, NEW q \in FileQuestions, File(q) \in Payload,
         stage \in {"file", "prepared", "reported"} => answer[q] # "none",
         stage' \in {"file", "prepared", "reported"}
  PROVE  answer'[q] # "none"
<1>0. q \in Questions /\ Topic(q) = "file"
  BY QuestionKinds DEF Questions
<1>1. CASE Proceed
  <2>1. stage' = "file" \/ (stage = "file" /\ stage' = "prepared")
    BY <1>1, ProceedPlaces
  <2> QED BY <1>0, <1>1, <2>1 DEF Proceed
<1>2. CASE Begin \/ Report \/ Change
  BY <1>2, ChangeAside DEF Begin, Report
<1>3. ASSUME NEW r \in Questions, Ask(r) PROVE answer'[q] # "none"
  <2>1. stage' = stage
    BY <1>0, <1>3, AskAnswers DEF Answered
  <2> QED BY <1>0, <1>3, <2>1, AskAnswers, AnswersDisjoint DEF Answered
<1> QED BY <1>1, <1>2, <1>3 DEF Next, Step

LEMMA CalmStep ==
  ASSUME CheckTypeOK, IInv, Seen, CalmSeen, CheckStep, Fit', Undisturbed'
  PROVE  FitSeen'
<1>0. items \in Items /\ items' \in Items /\ UNCHANGED <<vars, setup, history, recorded>>
  BY SectionItems, SectionTyped DEF CheckTypeOK, Items, ItemsStep
<1>1. Fit /\ FitSeen /\ ~SmokeFails /\ ~ProbeFails
  BY CalmBefore DEF CheckNext, CalmSeen
<1>2. UNCHANGED <<answer, stage, catalog>> /\ FilesMark' = FilesMark /\ ExtensionMark' = ExtensionMark
  BY <1>0, MarksOfAnswers DEF vars, cluster
<1>3. items'.package = "OK"
  <2>1. PackageMark = "OK"
    BY <1>1, HealthCheckAssumption DEF HealthCheckAssumption, Fit, PackageMark, Missing
  <2>2. CASE CheckPackage
    BY <1>0, <2>1, <2>2 DEF CheckPackage, Items
  <2>3. CASE ~CheckPackage
    <3>1. place # "package"
      BY <2>3 DEF CheckStep, CheckPackage, ReadBooks, FindCluster, CheckPlan, Collect, RunSmoke,
                  SmokeFails, ProbeRemoved, ProbeFails, Decide, Section
    <3> QED BY <1>1, <2>3, <3>1, SectionItems DEF FitSeen
  <2> QED BY <2>2, <2>3
<1>4. (place \notin {"package", "books", "cluster"} => items.cluster = "OK")'
  <2>1. CASE FindCluster
    <3>1. items' = [items EXCEPT !.cluster = "OK"]
      BY <1>1, <2>1 DEF FindCluster, Fit
    <3> QED BY <1>0, <3>1 DEF Items
  <2>2. CASE ~FindCluster
    <3>1. place' \notin {"package", "books", "cluster"}
            => place \notin {"package", "books", "cluster"}
      BY <2>2 DEF CheckStep, CheckPackage, ReadBooks, CheckPlan, Collect, RunSmoke, SmokeFails,
                  ProbeRemoved, ProbeFails, Decide, Section
    <3> QED BY <1>1, <2>2, <3>1, SectionItems DEF FitSeen
  <2> QED BY <2>1, <2>2
<1>5. (place \notin {"package", "books", "cluster", "plan"} => items.plan = "OK")'
  <2>1. CASE CheckPlan
    <3>1. PlanMark = "OK"
      BY <1>1, HealthCheckAssumption DEF HealthCheckAssumption, Fit, PlanMark, Missing
    <3> QED BY <1>0, <2>1, <3>1 DEF CheckPlan, Items
  <2>2. CASE ~CheckPlan
    <3>1. place' \notin {"package", "books", "cluster", "plan"}
            => place \notin {"package", "books", "cluster", "plan"}
      BY <1>1, <2>2 DEF CheckStep, CheckPackage, ReadBooks, FindCluster, Collect, RunSmoke,
                        SmokeFails, ProbeRemoved, ProbeFails, Decide, Section, Fit
    <3> QED BY <1>1, <2>2, <3>1, SectionItems DEF FitSeen
  <2> QED BY <2>1, <2>2
<1>6. (place \in Collected => stage = "reported" /\ items.files = FilesMark
                               /\ items.extension = ExtensionMark)'
  <2>1. CASE Collect
    <3>1. stage = "reported"
      BY <1>1, <2>1 DEF Collect, Ended, FitSeen
    <3>2. items' = [items EXCEPT !.files = FilesMark, !.extension = ExtensionMark]
      BY <2>1, <3>1 DEF Collect
    <3> QED BY <1>0, <1>2, <3>1, <3>2 DEF Items
  <2>2. CASE FindCluster
    BY <1>1, <2>2 DEF FindCluster, Section, Fit, Collected
  <2>3. CASE ~Collect /\ ~FindCluster
    <3>1. place' \in Collected => place \in Collected
      BY <2>3 DEF CheckStep, CheckPackage, ReadBooks, CheckPlan, RunSmoke, SmokeFails,
                  ProbeRemoved, ProbeFails, Decide, Section, Collected
    <3> QED BY <1>1, <1>2, <2>3, <3>1, SectionItems DEF FitSeen
  <2> QED BY <2>1, <2>2, <2>3
<1>7. (place \in {"removed", "decide", "checked"} => items.smoke = SmokeMark)'
  <2>1. CASE RunSmoke
    <3>1. items' = [items EXCEPT !.smoke = SmokeMark]
      BY <2>1 DEF RunSmoke, SmokeMark
    <3>2. items'.smoke = SmokeMark /\ items'.extension = items.extension
      BY <1>0, <3>1 DEF Items
    <3> QED BY <1>2, <3>2 DEF SmokeMark
  <2>2. CASE ~RunSmoke /\ place' \in {"removed", "decide", "checked"}
    <3>1. place \in {"removed", "decide", "checked"} /\ ~FindCluster /\ ~Collect
      BY <1>1, <2>2 DEF CheckStep, CheckPackage, ReadBooks, FindCluster, CheckPlan, Collect,
                        ProbeRemoved, ProbeFails, Decide, Section
    <3>2. items'.smoke = items.smoke /\ items'.extension = items.extension
      BY <1>1, <2>2, <3>1, SectionItems
    <3> QED BY <1>1, <1>2, <3>1, <3>2 DEF FitSeen, SmokeMark
  <2> QED BY <2>1, <2>2
<1>8. (stage \in {"file", "prepared", "reported"} =>
         \A q \in FileQuestions : File(q) \in Payload => answer[q] # "none")'
  BY <1>0, <1>1 DEF FitSeen, vars, cluster, Payload
<1> QED BY <1>1, <1>2, <1>3, <1>4, <1>5, <1>6, <1>7, <1>8 DEF FitSeen

LEMMA CalmNext ==
  ASSUME CheckTypeOK, IInv, Seen, CalmSeen, [CheckNext]_allVars
  PROVE  CalmSeen'
<1> SUFFICES ASSUME Fit', Undisturbed' PROVE FitSeen'
  BY DEF CalmSeen
<1>1. Fit /\ FitSeen /\ UNCHANGED <<cluster, setup, history>> /\ ~Change /\ ~Record
  BY CalmBefore DEF CalmSeen
<1>2. CASE CheckStep
  BY <1>2, CalmStep
<1>3. CASE Verify /\ Watch
  <2>1. Next /\ place = "verify" /\ place' = place /\ items' = items
    BY <1>3 DEF Verify, Next, checkVars
  <2>2. stage' # "raised"
    <3>1. ASSUME NEW q \in Questions, Ask(q) PROVE stage' = stage
      BY <3>1, AskAnswers DEF IInv, Answered
    <3> QED BY <1>1, <1>3, <3>1, ProceedPlaces DEF Verify, Step, Begin, Report, FitSeen, Fit
  <2>3. (stage \in {"file", "prepared", "reported"} =>
           \A q \in FileQuestions : File(q) \in Payload => answer[q] # "none")'
    <3>1. Payload' = Payload
      BY <1>1 DEF cluster, Payload
    <3> QED BY <1>1, <2>1, <3>1, PayloadAsked DEF IInv, FitSeen
  <2> QED BY <1>1, <2>1, <2>2, <2>3 DEF FitSeen, Collected
<1>4. CASE UNCHANGED allVars
  BY <1>1, <1>4, MarksOfAnswers DEF allVars, vars, cluster, checkVars, FitSeen, SmokeMark, Payload
<1> QED BY <1>1, <1>2, <1>3, <1>4 DEF CheckNext

\* The marks of a report about a cluster that stands still.
LEMMA ExtensionMarkExact ==
  ASSUME IInv, stage = "reported", changes = 0, faults = 0
  PROVE  /\ ExtensionMark \in {"OK", "WARN"}
         /\ (ExtensionMark = "OK") <=> Everywhere
<1>1. ASSUME NEW n \in Coordinators
      PROVE  \E q \in ExtensionQuestions :
               Node(q) = n /\ answer[q] \in ExtensionAnswers
               /\ (answer[q] \in Versions <=> catalog[n] # Absent)
  <2> DEFINE q == <<"extension", n, NoFile>>
  <2>1. q \in ExtensionQuestions /\ q \in Questions /\ Node(q) = n /\ Topic(q) = "extension"
        /\ q \notin FileQuestions
    BY DEF ExtensionQuestions, Questions, Node, Topic, FileQuestions
  <2> HIDE DEF q
  <2>2. answer[q] \notin {"none", "connected", "ok"} \union Open
    BY <2>1 DEF IInv, Orderly, Reached
  <2>3. answer[q] \in Versions \union Bad
    BY <2>1, <2>2 DEF IInv, TypeOK, Good
  <2>4. CASE catalog[n] = Absent
    <3>1. q \in lasting
      BY <2>1, <2>4 DEF IInv, Truthful, Defects
    <3>2. answer[q] \notin Versions
      BY <3>1, AnswerKinds DEF IInv, Watched, Reached
    <3> QED BY <2>1, <2>2, <2>4, <3>2 DEF ExtensionAnswers
  <2>5. CASE catalog[n] # Absent
    <3>1. q \notin Defects
      BY <2>1, <2>5, DefectKinds
    <3>2. answer[q] \notin Bad
      BY <2>1, <3>1 DEF IInv, Truthful, Blameless
    <3> QED BY <2>1, <2>2, <2>3, <2>5, <3>2 DEF ExtensionAnswers
  <2> QED BY <2>4, <2>5
<1>2. \A a \in ExtensionAnswers : \E q \in ExtensionQuestions : a = answer[q] /\ Node(q) \in Coordinators
  BY QuestionKinds DEF ExtensionAnswers, Questions
<1>3. ASSUME NEW q \in ExtensionQuestions PROVE q = <<"extension", Node(q), NoFile>>
  BY DEF ExtensionQuestions, Node
<1>4. ASSUME NEW q \in ExtensionQuestions, NEW r \in ExtensionQuestions, Node(q) = Node(r)
      PROVE  q = r
  BY <1>3, <1>4
<1>5. Everywhere => ExtensionAnswers # {} /\ ExtensionAnswers \subseteq Versions
  <2>1. Home \in Coordinators
    BY HealthCheckAssumption DEF HealthCheckAssumption
  <2> QED BY <1>1, <1>2, <1>4, <2>1 DEF Everywhere
<1>6. ~Everywhere => ~(ExtensionAnswers \subseteq Versions)
  BY <1>1 DEF Everywhere
<1> QED BY <1>5, <1>6 DEF ExtensionMark

LEMMA FilesMarkExact ==
  ASSUME IInv, LastingSighted, FitSeen, Fit, stage = "reported", changes = 0, faults = 0
  PROVE  /\ FilesMark \in {"OK", "WARN"}
         /\ (FilesMark = "OK") <=> Distributed
<1>1. FileAnswers # {}
  <2>1. PICK f \in Payload : TRUE
    BY DEF Fit
  <2>2. f \in Files /\ Home \in Nodes
    BY HealthCheckAssumption, DistributedVerifyAssumption
    DEF HealthCheckAssumption, DistributedVerifyAssumption, Payload, Nodes
  <2>3. <<"file", Home, f>> \in FileQuestions /\ File(<<"file", Home, f>>) = f
    BY <2>2 DEF FileQuestions, File
  <2>4. answer[<<"file", Home, f>>] # "none"
    BY <2>3 DEF FitSeen
  <2> QED BY <2>3, <2>4 DEF FileAnswers
<1>2. \A q \in FileQuestions : q \in Questions /\ File(q) \notin Unsupported
  BY DEF Questions, Fit
<1>3. ASSUME Distributed PROVE FileAnswers \intersect {"missing", "checksum_failed"} = {}
  <2>1. \A q \in FileQuestions : answer[q] \notin Bad
    BY <1>2, <1>3 DEF IInv, Truthful, Blameless, Distributed
  <2> QED BY <2>1, AnswerKinds DEF FileAnswers
<1>4. ASSUME ~Distributed PROVE FileAnswers \intersect {"missing", "checksum_failed"} # {}
  <2>1. PICK d \in FileQuestions : d \in lasting
    BY <1>4 DEF Distributed, IInv, Truthful
  <2>2. answer[d] \notin Good \union {"none"} \union Open
    BY <1>2, <2>1, QuestionKinds DEF IInv, Watched, Reached, Orderly
  <2>3. answer[d] \in {"missing", "checksum_failed"}
    BY <1>2, <2>1, <2>2 DEF IInv, TypeOK, LastingSighted, Sighted, Bad
  <2> QED BY <2>2, <2>3 DEF FileAnswers
<1> QED BY <1>1, <1>3, <1>4 DEF FilesMark

\* The final status of a fit plugin that nobody touches meanwhile is where it really stands,
\* whatever its records say of the past (StatusOfFit).
THEOREM StatusIsFit == CheckSpec => []StatusOfFit
<1>1. CheckInit => CalmSeen
  BY DEF CheckInit, Init, CalmSeen, FitSeen, Collected
<1>2. CheckInit => BooksSeen
  BY DEF CheckInit, BooksSeen
<1>3. CheckTypeOK /\ IInv /\ Seen /\ LastingSighted /\ CalmSeen /\ BooksSeen => StatusOfFit
  <2> SUFFICES ASSUME CheckTypeOK, IInv, Seen, LastingSighted, CalmSeen, BooksSeen,
                      Checked, Fit, Undisturbed, final = FinalStatus
               PROVE  /\ (final = "REGISTERED") <=> Everywhere
                      /\ (final = "DEPLOYED") <=> (Distributed /\ ~Everywhere)
                      /\ final \in {"REGISTERED", "DEPLOYED", "REMOVED", "READY"}
    BY DEF StatusOfFit, Checked, Seen
  <2>1. FitSeen /\ place = "checked" /\ changes = 0 /\ faults = 0
    BY DEF CalmSeen, Checked, Undisturbed
  <2>2. /\ items.package = "OK" /\ items.cluster = "OK" /\ items.plan = "OK"
        /\ stage = "reported"
        /\ items.files = FilesMark /\ items.extension = ExtensionMark /\ items.smoke = SmokeMark
    BY <2>1 DEF FitSeen, Collected
  <2>3. \A a \in Actions : items.books[a] # "failed"
    BY <2>1 DEF BooksSeen, Undisturbed, Fit
  <2>4. /\ items.extension \in {"OK", "WARN"} /\ ((items.extension = "OK") <=> Everywhere)
        /\ items.files \in {"OK", "WARN"} /\ ((items.files = "OK") <=> Distributed)
    BY <2>1, <2>2, ExtensionMarkExact, FilesMarkExact
  <2>5. items.smoke = IF Everywhere THEN "OK" ELSE "SKIP"
    <3>1. Everywhere => catalog[Home] # Absent
      BY HealthCheckAssumption DEF HealthCheckAssumption, Everywhere
    <3> QED BY <2>2, <2>4, <3>1 DEF SmokeMark
  <2>6. ~Failing /\ setup.listed /\ setup.cluster = "valid"
    BY <2>2, <2>3, <2>5 DEF Failing, Fit
  <2> QED BY <2>2, <2>4, <2>5, <2>6 DEF FinalStatus
<1> QED BY <1>1, <1>2, <1>3, SeenAlways, BooksNext, CalmNext, PTL DEF CheckSpec

----------------------------------------------------------------------------
(* How far what the documentation says of the status is true.              *)

\* As long as every call succeeds, DEPLOYED does mean that every node has every file: a
\* file query that fails is all that stands between the status and README.md:249.
THEOREM DeployedIfAsked == CheckSpec => [](faults = 0 => DeployedMeansDistributed)
<1>1. IInv /\ DeployedWasSeen => (faults = 0 => DeployedMeansDistributed)
  BY DEF IInv, Truthful, DeployedWasSeen, DeployedMeansDistributed, Distributed
<1> QED BY <1>1, DeployedSeen, VerifyInvariant, PTL

\* The registration outweighs whatever the records say but one thing.
PriorityUnlessFailed ==
  /\ history["rollback"] # "failed" => RegisteredTakesPriority
  /\ (Checked /\ recorded = 0 /\ history["rollback"] = "failed") => final = "BROKEN"

\* A registered plugin is called so unless its latest rollback failed, and every plugin
\* whose latest rollback failed is BROKEN: CHANGELOG.md:31 holds of no plugin with a failed
\* rollback, and of all others.
THEOREM PriorityOfRegistered == CheckSpec => []PriorityUnlessFailed
<1>1. CheckInit => BooksSeen
  BY DEF CheckInit, BooksSeen
<1>2. StatusOfFit => (history["rollback"] # "failed" => RegisteredTakesPriority)
  <2> SUFFICES ASSUME StatusOfFit, history["rollback"] # "failed", Checked, Undisturbed, Everywhere,
                      PackageMark = "OK", PlanMark = "OK", NameValid,
                      setup = [cluster |-> "valid", listed |-> TRUE], history["verify"] # "failed"
               PROVE  final = "REGISTERED"
    BY DEF RegisteredTakesPriority
  <2>1. Unsupported = {} /\ Missing(Declared \union Scripts) = {}
    BY DEF PackageMark, Missing
  <2>2. Payload # {} /\ Datanodes # {}
    BY DEF PlanMark
  <2>3. Fit
    BY <2>1, <2>2 DEF Fit, Actions
  <2> QED BY <2>3 DEF StatusOfFit
<1>3. Seen /\ BooksSeen /\ Checked /\ recorded = 0 /\ history["rollback"] = "failed"
        => final = "BROKEN"
  BY DEF Seen, BooksSeen, Checked, FinalStatus, Failing, Actions
<1>4. StatusOfFit /\ Seen /\ BooksSeen => PriorityUnlessFailed
  BY <1>2, <1>3 DEF PriorityUnlessFailed
<1> QED BY <1>1, <1>4, StatusIsFit, SeenAlways, BooksNext, CheckTypeCorrect, PTL DEF CheckSpec

----------------------------------------------------------------------------
(* The check comes to its status.                                          *)

SectionsLeft ==
  CASE place = "package" -> 8 [] place = "books" -> 7 [] place = "cluster" -> 6
    [] place = "plan" -> 5 [] place = "verify" -> 4 [] place = "smoke" -> 3
    [] place = "removed" -> 2 [] place = "decide" -> 1 [] place = "checked" -> 0

CheckWork == VerifyWork + SectionsLeft + (MaxChanges - recorded)

CheckShrinks == CheckWork' < CheckWork /\ CheckWork \in Nat /\ CheckWork' \in Nat

\* A section that need not wait, or a question of the distributed verify.
CheckGoesOn ==
  /\ place = "verify" => Ended \/ CallToMake
  /\ Checked => final \in Statuses

RecordsBounded == recorded <= MaxChanges

LEMMA RecordsBoundedNext ==
  ASSUME CheckTypeOK, RecordsBounded, [CheckNext]_allVars
  PROVE  RecordsBounded'
<1>1. recorded \in Nat /\ MaxChanges \in Nat
  BY DistributedVerifyAssumption DEF DistributedVerifyAssumption, CheckTypeOK
<1>2. recorded' = recorded \/ (recorded < MaxChanges /\ recorded' = recorded + 1)
  BY SectionItems DEF CheckNext, Verify, Record, allVars
<1> QED BY <1>1, <1>2 DEF RecordsBounded

LEMMA VerifyWorkCounted ==
  ASSUME TypeOK, ChangesBounded
  PROVE  VerifyWork \in Nat
<1>1. Cardinality(QuestionsLeft) \in Nat
  BY QuestionsLeftFinite
<1>2. StagesLeft \in Nat
  BY DEF TypeOK, Stages, StagesLeft
<1>3. MaxChanges - changes \in Nat
  BY DistributedVerifyAssumption DEF DistributedVerifyAssumption, TypeOK, ChangesBounded
<1> QED BY <1>1, <1>2, <1>3 DEF VerifyWork

LEMMA CheckWorkStep ==
  ASSUME CheckTypeOK, CheckTypeOK', IInv, RecordsBounded, RecordsBounded',
         ChangesBounded, ChangesBounded', CheckNext
  PROVE  CheckShrinks
<1>1. /\ SectionsLeft \in Nat /\ SectionsLeft' \in Nat /\ VerifyWork \in Nat
      /\ MaxChanges - recorded \in Nat /\ MaxChanges - recorded' \in Nat
  <2>1. SectionsLeft \in Nat /\ SectionsLeft' \in Nat
    BY DEF CheckTypeOK, SectionsLeft
  <2>2. VerifyWork \in Nat
    BY VerifyWorkCounted DEF CheckTypeOK
  <2>3. MaxChanges - recorded \in Nat /\ MaxChanges - recorded' \in Nat
    <3>1. recorded \in Nat /\ recorded' \in Nat
      BY DEF CheckTypeOK
    <3>2. MaxChanges \in Nat
      BY DistributedVerifyAssumption DEF DistributedVerifyAssumption
    <3>3. recorded <= MaxChanges /\ recorded' <= MaxChanges
      BY DEF RecordsBounded
    <3>4. \A i, j \in Nat : i <= j => j - i \in Nat
      OBVIOUS
    <3> QED BY <3>1, <3>2, <3>3, <3>4
  <2> QED BY <2>1, <2>2, <2>3
<1>2. ASSUME UNCHANGED vars PROVE VerifyWork' = VerifyWork
  BY <1>2 DEF vars, VerifyWork, QuestionsLeft, StagesLeft
<1>3. CASE CheckStep
  <2>1. SectionsLeft' < SectionsLeft
    BY <1>3 DEF CheckStep, CheckPackage, ReadBooks, FindCluster, CheckPlan, Collect, RunSmoke,
                SmokeFails, ProbeRemoved, ProbeFails, Decide, Section, SectionsLeft
  <2>2. recorded' = recorded /\ VerifyWork' = VerifyWork
    BY <1>2, <1>3, SectionItems
  <2> QED BY <1>1, <2>1, <2>2 DEF CheckShrinks, CheckWork
<1>4. CASE Record
  <2>1. SectionsLeft' = SectionsLeft /\ recorded' = recorded + 1 /\ VerifyWork' = VerifyWork
    BY <1>2, <1>4 DEF Record, checkVars, SectionsLeft
  <2>2. recorded \in Nat /\ MaxChanges \in Nat
    BY DistributedVerifyAssumption DEF DistributedVerifyAssumption, CheckTypeOK
  <2> QED BY <1>1, <2>1, <2>2 DEF CheckShrinks, CheckWork
<1>5. CASE (Step \/ Change) /\ Watch /\ UNCHANGED <<setup, history, recorded, checkVars>>
  <2>1. SectionsLeft' = SectionsLeft /\ recorded' = recorded
    BY <1>5 DEF checkVars, SectionsLeft
  <2>2. Next
    BY <1>5 DEF Next
  <2>3. VerifyShrinks
    BY <2>2, WorkStep DEF IInv, CheckTypeOK
  <2> QED BY <1>1, <2>1, <2>3 DEF CheckShrinks, CheckWork, VerifyShrinks
<1> QED BY <1>3, <1>4, <1>5 DEF CheckNext, Verify

\* Whatever fails and changes, the check ends: each of its steps leaves less to do, no
\* section waits for an answer that nobody owes, and in the end there is a status.
THEOREM CheckComesToEnd == CheckSpec => [][CheckShrinks]_allVars /\ []CheckGoesOn
<1>1. CheckInit => RecordsBounded
  BY DistributedVerifyAssumption
  DEF DistributedVerifyAssumption, CheckInit, RecordsBounded
<1>2. CheckTypeOK /\ Seen /\ VerifyGoesOn => CheckGoesOn
  BY MarksTyped DEF Seen, VerifyGoesOn, CheckGoesOn, Checked
<1>3. CheckSpec => [](RecordsBounded /\ CheckTypeOK /\ IInv /\ ChangesBounded)
  BY <1>1, RecordsBoundedNext, CheckTypeCorrect, VerifyInvariant, ChecksVerify, BoundedAlways, PTL
  DEF CheckSpec
<1>4. CheckTypeOK /\ CheckTypeOK' /\ IInv /\ RecordsBounded /\ RecordsBounded'
        /\ ChangesBounded /\ ChangesBounded' /\ [CheckNext]_allVars => [CheckShrinks]_allVars
  BY CheckWorkStep
<1> QED BY <1>2, <1>3, <1>4, ChecksVerify, VerifyNeverStuck, SeenAlways, PTL DEF CheckSpec

=============================================================================
