------------------------- MODULE Registration_proofs -------------------------
(***************************************************************************)
(* Proofs about module Registration, for any number of operators and of    *)
(* coordinators, and any number of failures.                               *)
(***************************************************************************)
EXTENDS Registration, FiniteSetTheorems, TLAPS

CommandSteps(c) ==
  \/ Connect(c) \/ CheckAvailable(c) \/ CheckRegistered(c) \/ PrecheckFails(c)
  \/ SendCreate(c) \/ CreateRefused(c) \/ CreateTimesOut(c) \/ Report(c)

\* The server gives an answer, to psql or to nobody.
Answers(c) == CreateSkips(c) \/ CreateCollides(c) \/ CreateEnds(c) \/ CreateBreaks(c)

LEMMA AnswersGive ==
  ASSUME NEW c \in Commands, Answers(c)
  PROVE  /\ session[c] # "none"
         /\ CreateSkips(c) \/ CreateEnds(c) => Answered(c, "registered") /\ faults' = faults
         /\ CreateCollides(c) => Answered(c, "failed") /\ faults' = faults
         /\ CreateBreaks(c) => Answered(c, "failed") /\ Fault
BY DEF Answers, CreateSkips, CreateCollides, CreateEnds, CreateBreaks

----------------------------------------------------------------------------
(* Types.                                                                  *)

LEMMA NextTypeOK ==
  ASSUME TypeOK, RegistrationAssumption, [Next]_vars
  PROVE  TypeOK'
<1>. USE DEF TypeOK, database, Fault, Finish, Goto, Activation
<1>1. ASSUME NEW c \in Commands, CommandSteps(c)
      PROVE  TypeOK'
  <2>1. CASE Connect(c)
    <3>1. CASE Coordinators = {}
      BY <2>1, <3>1 DEF Connect
    <3>2. CASE Coordinators # {}
      BY <2>1, <3>2 DEF Connect
    <3>. QED
      BY <3>1, <3>2
  <2>2. CASE CheckAvailable(c)
    <3>1. CASE control[Primary] = Nothing
      BY <2>2, <3>1 DEF CheckAvailable
    <3>2. CASE control[Primary] # Nothing
      BY <2>2, <3>2 DEF CheckAvailable
    <3>. QED
      BY <3>1, <3>2
  <2>3. CASE CheckRegistered(c)
    <3>1. CASE catalog[Primary] # Nothing \/ Mode[c] = "dry-run"
      BY <2>3, <3>1 DEF CheckRegistered
    <3>2. CASE ~(catalog[Primary] # Nothing \/ Mode[c] = "dry-run")
      BY <2>3, <3>2 DEF CheckRegistered
    <3>. QED
      BY <3>1, <3>2
  <2>4. CASE PrecheckFails(c)
    BY <2>4 DEF PrecheckFails
  <2>5. CASE SendCreate(c)
    BY <2>5 DEF SendCreate
  <2>6. CASE CreateRefused(c) \/ CreateTimesOut(c)
    BY <2>6 DEF CreateRefused, CreateTimesOut
  <2>7. CASE Report(c)
    BY <2>7 DEF Report
  <2>. QED
    BY <1>1, <2>1, <2>2, <2>3, <2>4, <2>5, <2>6, <2>7 DEF CommandSteps
<1>2. ASSUME NEW c \in Commands, NEW n \in Coordinators, QueryVersion(c, n) \/ QueryFails(c, n)
      PROVE  TypeOK'
  <2>1. PICK a : a \in Versions \union Statuses /\ seen' = [seen EXCEPT ![c][n] = a]
    BY <1>2 DEF QueryVersion, QueryFails, Answer, Statuses
  <2>2. seen' \in [Commands -> [Coordinators -> Versions \union Statuses]]
    BY <2>1
  <2>. QED
    BY <1>2, <2>2 DEF QueryVersion, QueryFails
<1>3. ASSUME NEW c \in Commands, CreateLooks(c) \/ CreateOnPrimary(c)
      PROVE  TypeOK'
  <2>1. session' \in [Commands -> {"none", "sent", "making", "spreading"}]
    BY <1>3 DEF CreateLooks, CreateOnPrimary
  <2>2. catalog' \in [Coordinators -> Versions \union {Nothing}]
    <3>1. CASE Coordinators = {}
      BY <1>3, <3>1 DEF CreateLooks, CreateOnPrimary
    <3>2. CASE Coordinators # {}
      BY <1>3, <3>2, RegistrationAssumption
      DEF CreateLooks, CreateOnPrimary, RegistrationAssumption
    <3>. QED
      BY <3>1, <3>2
  <2>. QED
    BY <1>3, <2>1, <2>2 DEF CreateLooks, CreateOnPrimary
<1>4. ASSUME NEW c \in Commands, Answers(c)
      PROVE  TypeOK'
  <2>1. PICK s \in {"registered", "failed"} : Answered(c, s)
    BY <1>4, AnswersGive DEF Answers
  <2>2. faults' \in Nat
    BY <1>4, AnswersGive DEF Answers
  <2>3. CASE pc[c] = "creating"
    <3>1. session' \in [Commands -> {"none", "sent", "making", "spreading"}]
      BY <2>1 DEF Answered
    <3>2. Activation(c, s) /\ UNCHANGED <<control, catalog, seen, drops>>
      BY <2>1, <2>3 DEF Answered
    <3>. QED
      BY <2>2, <3>1, <3>2
  <2>4. CASE pc[c] # "creating"
    BY <2>1, <2>2, <2>4 DEF Answered
  <2>. QED
    BY <2>3, <2>4
<1>5. ASSUME NEW c \in Commands, NEW n \in Coordinators, CreateOnOther(c, n)
      PROVE  TypeOK'
  BY <1>5 DEF CreateOnOther
<1>6. CASE Drop
  BY <1>6 DEF Drop
<1>7. CASE UNCHANGED vars
  BY <1>7 DEF vars
<1>. QED
  BY <1>1, <1>2, <1>3, <1>4, <1>5, <1>6, <1>7
  DEF Next, CommandStep, ServerStep, CommandSteps, Answers

\* The variables of the register commands and of the database keep their types.
THEOREM TypeCorrect == Spec => []TypeOK
<1>1. Init => TypeOK
  BY RegistrationAssumption DEF Init, TypeOK, Statuses
<1>2. TypeOK /\ [Next]_vars => TypeOK'
  BY NextTypeOK, RegistrationAssumption
<1>. QED
  BY <1>1, <1>2, PTL DEF Spec

----------------------------------------------------------------------------
(* What one step does to the command it belongs to, and to the others.     *)

\* A command records a result when it ends, the status of its CREATE EXTENSION
\* before it queries, and a failed CREATE EXTENSION never ends in OK.
Recorded(c) ==
  /\ outcome[c] # "none" <=> pc[c] = "done"
  /\ pc[c] \notin {"query", "done"} => created[c] = "none"
  /\ pc[c] = "query" => created[c] # "none"
  /\ pc[c] \notin {"start", "done"} \/ outcome[c] = "OK" => Coordinators # {}
  /\ created[c] = "failed" => outcome[c] # "OK"

Others(c) ==
  \A d \in Commands \ {c} :
    /\ pc'[d] = pc[d] /\ created'[d] = created[d] /\ outcome'[d] = outcome[d]
    /\ seen'[d] = seen[d]

LEMMA StepIsLocal ==
  ASSUME TypeOK, NEW c \in Commands, CommandStep(c) \/ ServerStep(c)
  PROVE  Others(c) /\ drops' = drops
<1>. USE DEF TypeOK, Others, Fault, Finish, Goto, Activation, database
<1>1. CASE CommandSteps(c)
  BY <1>1 DEF CommandSteps, Connect, CheckAvailable, CheckRegistered, PrecheckFails,
              SendCreate, CreateRefused, CreateTimesOut, Report
<1>2. CASE \E n \in Coordinators : QueryVersion(c, n) \/ QueryFails(c, n)
  BY <1>2 DEF QueryVersion, QueryFails
<1>3. CASE CreateLooks(c) \/ CreateOnPrimary(c) \/ \E n \in Coordinators : CreateOnOther(c, n)
  BY <1>3 DEF CreateLooks, CreateOnPrimary, CreateOnOther
<1>4. CASE Answers(c)
  <2>1. PICK s : Answered(c, s)
    BY <1>4, AnswersGive DEF Answers
  <2>. QED
    BY <2>1 DEF Answered
<1>. QED
  BY <1>1, <1>2, <1>3, <1>4 DEF CommandStep, CommandSteps, ServerStep, Answers

LEMMA StepRecorded ==
  ASSUME TypeOK, NEW c \in Commands, Recorded(c), CommandStep(c) \/ ServerStep(c)
  PROVE  Recorded(c)'
<1>. USE DEF TypeOK, Recorded, Fault, Finish, Goto, Activation, database
<1>1. CASE Connect(c) \/ CheckAvailable(c) \/ CheckRegistered(c) \/ PrecheckFails(c)
  BY <1>1 DEF Connect, CheckAvailable, CheckRegistered, PrecheckFails
<1>2. CASE SendCreate(c) \/ CreateRefused(c) \/ CreateTimesOut(c)
  BY <1>2 DEF SendCreate, CreateRefused, CreateTimesOut
<1>3. CASE Report(c)
  BY <1>3 DEF Report, Errors
<1>4. CASE \E n \in Coordinators : QueryVersion(c, n) \/ QueryFails(c, n)
  BY <1>4 DEF QueryVersion, QueryFails
<1>5. CASE CreateLooks(c) \/ CreateOnPrimary(c) \/ \E n \in Coordinators : CreateOnOther(c, n)
  BY <1>5 DEF CreateLooks, CreateOnPrimary, CreateOnOther
<1>6. CASE Answers(c)
  <2>1. PICK s \in {"registered", "failed"} : Answered(c, s)
    BY <1>6, AnswersGive DEF Answers
  <2>. QED
    BY <2>1 DEF Answered
<1>. QED
  BY <1>1, <1>2, <1>3, <1>4, <1>5, <1>6 DEF CommandStep, ServerStep, Answers

Core == TypeOK /\ \A c \in Commands : Recorded(c)

LEMMA InitCore ==
  ASSUME RegistrationAssumption, Init
  PROVE  Core
BY DEF RegistrationAssumption, Init, Core, TypeOK, Recorded, Statuses

LEMMA NextCore ==
  ASSUME RegistrationAssumption, Core, [Next]_vars
  PROVE  Core'
<1>1. TypeOK'
  BY NextTypeOK DEF Core
<1>2. ASSUME NEW c \in Commands, CommandStep(c) \/ ServerStep(c)
      PROVE  (\A d \in Commands : Recorded(d))'
  BY <1>2, StepIsLocal, StepRecorded DEF Core, Others, Recorded
<1>3. ASSUME Drop \/ UNCHANGED vars
      PROVE  (\A d \in Commands : Recorded(d))'
  BY <1>3 DEF Drop, vars, Core, Recorded
<1>4. (\A d \in Commands : Recorded(d))'
  BY <1>2, <1>3 DEF Next
<1>. QED
  BY <1>1, <1>4 DEF Core

\* For any number of operators and coordinators: a CREATE EXTENSION that failed or
\* whose answer was lost is never reported as a success.
THEOREM LostAnswersReported == Spec => []LostAnswerReported
<1>1. Init => Core
  BY InitCore, RegistrationAssumption
<1>2. Core /\ [Next]_vars => Core'
  BY NextCore, RegistrationAssumption
<1>3. Core => LostAnswerReported
  BY DEF Core, Recorded, LostAnswerReported
<1>. QED
  BY <1>1, <1>2, <1>3, PTL DEF Spec

----------------------------------------------------------------------------
(* Theorem: OK means that the extension is there.                          *)

\* While nobody drops the extension, a row of pg_extension stays as it is.
LEMMA CatalogGrows ==
  ASSUME TypeOK, [Next]_vars, drops' = 0
  PROVE  \A n \in Coordinators : catalog[n] # Nothing => catalog'[n] = catalog[n]
<1>1. ASSUME NEW c \in Commands, CommandStep(c)
      PROVE  catalog' = catalog
  BY <1>1 DEF CommandStep, Connect, CheckAvailable, CheckRegistered, PrecheckFails, SendCreate,
              CreateRefused, CreateTimesOut, QueryVersion, QueryFails, Report, database
<1>2. ASSUME NEW c \in Commands, ServerStep(c)
      PROVE  \A n \in Coordinators : catalog[n] # Nothing => catalog'[n] = catalog[n]
  BY <1>2 DEF ServerStep, CreateLooks, CreateSkips, CreateOnPrimary, CreateCollides, CreateEnds,
              CreateBreaks, Answered, CreateOnOther, Served, TypeOK
<1>3. ~Drop
  BY DEF Drop, TypeOK
<1>. QED
  BY <1>1, <1>2, <1>3 DEF Next, vars

\* While nobody drops the extension: what a command has seen is still there, a
\* command that ended well after a CREATE EXTENSION has seen one version everywhere,
\* and one that ended well without has seen the extension on the primary.
Witnessed(c) ==
  /\ \A n \in Coordinators : seen[c][n] \in Versions => catalog[n] = seen[c][n]
  /\ outcome[c] = "OK" /\ created[c] # "none" =>
       \A m, n \in Coordinators : seen[c][m] \in Versions /\ seen[c][m] = seen[c][n]
  /\ outcome[c] = "OK" /\ created[c] = "none" /\ Mode[c] = "execute" =>
       catalog[Primary] # Nothing

Undisturbed == drops = 0 => \A c \in Commands : Witnessed(c)

LEMMA NextUndisturbed ==
  ASSUME RegistrationAssumption, Core, Undisturbed, [Next]_vars
  PROVE  Undisturbed'
<1>. SUFFICES ASSUME drops' = 0, NEW c \in Commands
              PROVE  Witnessed(c)'
  BY DEF Undisturbed
<1>1. drops = 0 /\ Witnessed(c) /\ Recorded(c)
  BY StepIsLocal DEF Next, vars, Drop, Core, TypeOK, Undisturbed
<1>2. \A n \in Coordinators : catalog[n] # Nothing => catalog'[n] = catalog[n]
  BY CatalogGrows DEF Core
<1>3. ASSUME UNCHANGED <<seen[c], outcome[c], created[c]>>
      PROVE  Witnessed(c)'
  BY <1>1, <1>2, <1>3 DEF Witnessed, Recorded, RegistrationAssumption
<1>4. CASE CommandStep(c) \/ ServerStep(c)
  <2>. USE DEF Core, TypeOK, Fault, Finish, Goto, Activation, database
  <2>1. CASE Connect(c) \/ CheckAvailable(c) \/ PrecheckFails(c) \/ SendCreate(c)
             \/ CreateRefused(c) \/ CreateTimesOut(c)
    BY <1>1, <2>1 DEF Connect, CheckAvailable, PrecheckFails, SendCreate, CreateRefused,
                      CreateTimesOut, Witnessed, Recorded
  <2>2. CASE CheckRegistered(c)
    BY <1>1, <2>2 DEF CheckRegistered, Witnessed, Recorded
  <2>3. CASE Report(c)
    <3>1. CASE Errors(c)
      BY <1>1, <2>3, <3>1 DEF Report, Witnessed
    <3>2. CASE ~Errors(c)
      <4>1. \A n \in Coordinators : seen[c][n] \in Present(c) /\ seen[c][n] \in Versions
        BY <2>3, <3>2 DEF Report, Errors, Present, Statuses
      <4>2. \A m, n \in Coordinators : seen[c][m] = seen[c][n]
        BY <3>2, <4>1 DEF Errors, Mismatch
      <4>3. UNCHANGED <<seen, created, catalog>> /\ created[c] # "none"
        BY <1>1, <2>3 DEF Report, Recorded
      <4>. QED
        BY <1>1, <4>1, <4>2, <4>3 DEF Witnessed
    <3>. QED
      BY <3>1, <3>2
  <2>4. CASE \E n \in Coordinators : QueryVersion(c, n) \/ QueryFails(c, n)
    <3>1. PICK n \in Coordinators : QueryVersion(c, n) \/ QueryFails(c, n)
      BY <2>4
    <3>2. /\ \A m \in Coordinators \ {n} : seen'[c][m] = seen[c][m]
          /\ seen'[c][n] \in {Answer(n), "query_failed"}
          /\ UNCHANGED <<catalog, outcome>> /\ outcome[c] = "none"
      BY <1>1, <3>1 DEF QueryVersion, QueryFails, Recorded
    <3>3. seen'[c][n] \in Versions => catalog[n] = seen'[c][n]
      BY <3>2 DEF Answer, RegistrationAssumption
    <3>. QED
      BY <1>1, <3>2, <3>3 DEF Witnessed
  <2>5. CASE CreateLooks(c) \/ CreateOnPrimary(c) \/ \E n \in Coordinators : CreateOnOther(c, n)
    BY <1>3, <2>5 DEF CreateLooks, CreateOnPrimary, CreateOnOther
  <2>6. CASE Answers(c)
    <3>1. PICK s : Answered(c, s)
      BY <2>6, AnswersGive DEF Answers
    <3>2. UNCHANGED <<seen, outcome, catalog>>
      BY <3>1 DEF Answered
    <3>3. outcome[c] = "OK" => created'[c] = created[c]
      BY <1>1, <3>1 DEF Answered, Recorded
    <3>. QED
      BY <1>1, <3>2, <3>3 DEF Witnessed
  <2>. QED
    BY <1>4, <2>1, <2>2, <2>3, <2>4, <2>5, <2>6 DEF CommandStep, ServerStep, Answers
<1>5. CASE UNCHANGED vars
  BY <1>3, <1>5 DEF vars
<1>6. ASSUME NEW d \in Commands \ {c}, CommandStep(d) \/ ServerStep(d)
      PROVE  Witnessed(c)'
  BY <1>3, <1>6, StepIsLocal DEF Others, Core
<1>7. ~Drop
  BY DEF Drop, Core, TypeOK
<1>. QED
  BY <1>4, <1>5, <1>6, <1>7 DEF Next

LEMMA UndisturbedHolds == Spec => [](Core /\ Undisturbed)
<1>1. Init => Core /\ Undisturbed
  BY InitCore, RegistrationAssumption DEF Init, Undisturbed, Witnessed, RegistrationAssumption
<1>2. Core /\ Undisturbed /\ [Next]_vars => (Core /\ Undisturbed)'
  BY NextCore, NextUndisturbed, RegistrationAssumption
<1>. QED
  BY <1>1, <1>2, PTL DEF Spec

\* For any number of operators and coordinators: a register command that ran CREATE
\* EXTENSION and ended with OK means that every coordinator has the extension, in
\* one version, as long as nobody drops it.
THEOREM CreationUniform == Spec => []CreatedMeansUniform
<1>1. Core /\ Undisturbed => CreatedMeansUniform
  BY RegistrationAssumption
  DEF Undisturbed, Witnessed, CreatedMeansUniform, Uniform, RegistrationAssumption
<1>. QED
  BY <1>1, UndisturbedHolds, PTL

\* And OK of any executed register command means that the primary has it.
THEOREM RegistrationOnPrimary == Spec => []OkMeansRegistered
<1>1. Core /\ Undisturbed => OkMeansRegistered
  <2>. SUFFICES ASSUME Core, Undisturbed, drops = 0, NEW c \in Commands,
                       outcome[c] = "OK", Mode[c] = "execute"
                PROVE  catalog[Primary] # Nothing
    BY DEF OkMeansRegistered
  <2>1. Primary \in Coordinators
    BY RegistrationAssumption DEF Core, Recorded, RegistrationAssumption
  <2>. QED
    BY <2>1, RegistrationAssumption DEF Undisturbed, Witnessed, RegistrationAssumption
<1>. QED
  BY <1>1, UndisturbedHolds, PTL

----------------------------------------------------------------------------
(* Every command comes to its end.  Fairness is beyond the provers, but    *)
(* not what it rests on: each step of a command leaves it fewer to take,   *)
(* and nobody else gives it more.                                          *)

\* The statements a command has yet to make, one after the other.
StepsLeft(s) ==
  CASE s = "start" -> 6 [] s = "available" -> 5 [] s = "registered" -> 4 [] s = "create" -> 3
    [] s = "creating" -> 2 [] s = "query" -> 1 [] s = "done" -> 0

Unasked(c) == {n \in Coordinators : seen[c][n] = "unasked"}

\* What is left of a command: these, and a query for each coordinator.
Left(c) == IF pc[c] = "done" THEN 0 ELSE StepsLeft(pc[c]) + Cardinality(Unasked(c))

\* A command has printed its result when nothing is left of it.
LeftUntilAnswered ==
  \A c \in Commands :
    /\ Left(c) \in 0 .. 6 + Cardinality(Coordinators)
    /\ Left(c) = 0 <=> outcome[c] # "none"

StepsCount ==
  \A c \in Commands :
    /\ Left(c)' <= Left(c)
    /\ CommandStep(c) => Left(c)' < Left(c)

LEMMA UnaskedCounted ==
  ASSUME NEW c \in Commands
  PROVE  IsFiniteSet(Unasked(c)) /\ Cardinality(Unasked(c)) \in 0 .. Cardinality(Coordinators)
<1>1. IsFiniteSet(Coordinators) /\ Unasked(c) \subseteq Coordinators
  BY RegistrationAssumption DEF Unasked
<1>2. IsFiniteSet(Unasked(c)) /\ Cardinality(Unasked(c)) <= Cardinality(Coordinators)
  BY <1>1, FS_Subset
<1>. QED
  BY <1>1, <1>2, FS_CardinalityType

LEMMA LeftCounted ==
  ASSUME TypeOK, NEW c \in Commands
  PROVE  /\ Left(c) \in 0 .. 6 + Cardinality(Coordinators)
         /\ Left(c) = 0 <=> pc[c] = "done"
<1>. DEFINE u == Cardinality(Unasked(c))
            a == Cardinality(Coordinators)
<1>1. a \in Nat /\ u \in 0 .. a
  BY UnaskedCounted, FS_CardinalityType, RegistrationAssumption
<1>2. pc[c] # "done" => StepsLeft(pc[c]) \in 1 .. 6
  BY DEF TypeOK, StepsLeft
<1>. HIDE DEF u, a
<1>3. Left(c) = IF pc[c] = "done" THEN 0 ELSE StepsLeft(pc[c]) + u
  BY DEF Left, u
<1>. QED
  BY <1>1, <1>2, <1>3 DEF a

\* A statement takes its command on and asks nobody, a query asks one coordinator.
LEMMA Goes ==
  ASSUME TypeOK, NEW c \in Commands, CommandStep(c) \/ ServerStep(c)
  PROVE  \/ /\ pc'[c] # pc[c] /\ seen'[c] = seen[c]
            /\ <<pc[c], pc'[c]>> \in {<<"start", "available">>, <<"start", "done">>,
                 <<"available", "registered">>, <<"available", "done">>,
                 <<"registered", "create">>, <<"registered", "done">>,
                 <<"create", "creating">>, <<"create", "query">>,
                 <<"creating", "query">>, <<"query", "done">>}
         \/ /\ pc'[c] = pc[c] /\ pc[c] = "query"
            /\ \E n \in Unasked(c) : Unasked(c)' = Unasked(c) \ {n}
         \/ /\ pc'[c] = pc[c] /\ seen'[c] = seen[c] /\ ~CommandStep(c)
<1>. USE DEF TypeOK, Fault, Finish, Goto, Activation, database
<1>1. CASE Connect(c) \/ CheckAvailable(c) \/ CheckRegistered(c) \/ PrecheckFails(c)
  BY <1>1 DEF Connect, CheckAvailable, CheckRegistered, PrecheckFails
<1>2. CASE SendCreate(c) \/ CreateRefused(c) \/ CreateTimesOut(c) \/ Report(c)
  BY <1>2 DEF SendCreate, CreateRefused, CreateTimesOut, Report
<1>3. ASSUME NEW n \in Coordinators, QueryVersion(c, n) \/ QueryFails(c, n)
      PROVE  /\ pc'[c] = pc[c] /\ pc[c] = "query"
             /\ n \in Unasked(c) /\ Unasked(c)' = Unasked(c) \ {n}
  <2>1. PICK a : a # "unasked" /\ seen' = [seen EXCEPT ![c][n] = a]
    BY <1>3, RegistrationAssumption
    DEF QueryVersion, QueryFails, Answer
  <2>2. \A m \in Coordinators : seen'[c][m] = IF m = n THEN a ELSE seen[c][m]
    BY <2>1
  <2>. QED
    BY <1>3, <2>1, <2>2 DEF QueryVersion, QueryFails, Unasked
<1>4. ASSUME ~CommandStep(c),
             CreateLooks(c) \/ CreateOnPrimary(c) \/ \E n \in Coordinators : CreateOnOther(c, n)
      PROVE  pc'[c] = pc[c] /\ seen'[c] = seen[c]
  BY <1>4 DEF CreateLooks, CreateOnPrimary, CreateOnOther
<1>5. ASSUME ~CommandStep(c), Answers(c)
      PROVE  /\ seen'[c] = seen[c]
             /\ \/ pc'[c] = pc[c]
                \/ pc[c] = "creating" /\ pc'[c] = "query"
  <2>1. PICK s : Answered(c, s)
    BY <1>5, AnswersGive DEF Answers
  <2>. QED
    BY <2>1 DEF Answered
<1>. QED
  BY <1>1, <1>2, <1>3, <1>4, <1>5 DEF CommandStep, ServerStep, Answers

LEMMA LeftShrinks ==
  ASSUME TypeOK, NEW c \in Commands, CommandStep(c) \/ ServerStep(c)
  PROVE  Left(c)' <= Left(c) /\ (CommandStep(c) => Left(c)' < Left(c))
<1>. DEFINE u == Cardinality(Unasked(c))
            a == Cardinality(Coordinators)
<1>1. a \in Nat /\ u \in 0 .. a
  BY UnaskedCounted, FS_CardinalityType, RegistrationAssumption
<1>2. Left(c) = IF pc[c] = "done" THEN 0 ELSE StepsLeft(pc[c]) + u
  BY DEF Left
<1>3. Left(c)' = IF pc'[c] = "done" THEN 0 ELSE StepsLeft(pc'[c]) + u'
  BY DEF Left
<1>4. CASE pc'[c] = pc[c] /\ seen'[c] = seen[c] /\ ~CommandStep(c)
  <2>1. Left(c)' = Left(c)
    BY <1>4 DEF Left, Unasked
  <2>2. Left(c) \in 0 .. 6 + a
    BY LeftCounted
  <2>. QED
    BY <1>1, <1>4, <2>1, <2>2
<1>5. ASSUME pc'[c] = pc[c], pc[c] = "query", NEW n \in Unasked(c), Unasked(c)' = Unasked(c) \ {n}
      PROVE  Left(c)' < Left(c) /\ Left(c)' <= Left(c)
  <2>1. u' = u - 1
    BY <1>5, UnaskedCounted, FS_RemoveElement
  <2>. HIDE DEF u, a
  <2>. QED
    BY <1>1, <1>2, <1>3, <1>5, <2>1 DEF StepsLeft
<1>6. ASSUME pc'[c] # pc[c], seen'[c] = seen[c],
             <<pc[c], pc'[c]>> \in {<<"start", "available">>, <<"start", "done">>,
                 <<"available", "registered">>, <<"available", "done">>,
                 <<"registered", "create">>, <<"registered", "done">>,
                 <<"create", "creating">>, <<"create", "query">>,
                 <<"creating", "query">>, <<"query", "done">>}
      PROVE  Left(c)' < Left(c) /\ Left(c)' <= Left(c)
  <2>1. u' = u
    BY <1>6 DEF Unasked
  <2>. HIDE DEF u, a
  <2>. QED
    BY <1>1, <1>2, <1>3, <1>6, <2>1 DEF StepsLeft
<1>. QED
  BY <1>4, <1>5, <1>6, Goes

\* However many operators register at once and whatever the server does, a command
\* takes at most six steps and one for each coordinator, and nobody makes it take more.
THEOREM CommandsComeToEnd == Spec => [][StepsCount]_vars /\ []LeftUntilAnswered
<1>1. Init => Core
  BY InitCore, RegistrationAssumption
<1>2. Core /\ [Next]_vars => Core'
  BY NextCore, RegistrationAssumption
<1>3. Core => LeftUntilAnswered
  BY LeftCounted DEF Core, Recorded, LeftUntilAnswered
<1>4. Core /\ [Next]_vars => [StepsCount]_vars
  <2>. SUFFICES ASSUME Core, Next, NEW c \in Commands
                PROVE  /\ Left(c)' <= Left(c)
                       /\ CommandStep(c) => Left(c)' < Left(c)
    BY DEF StepsCount
  <2>1. CASE CommandStep(c) \/ ServerStep(c)
    BY <2>1, LeftShrinks DEF Core
  <2>2. ASSUME Drop \/ \E d \in Commands \ {c} : CommandStep(d) \/ ServerStep(d)
        PROVE  UNCHANGED <<pc[c], seen[c]>>
    BY <2>2, StepIsLocal DEF Drop, Core, Others
  <2>3. ASSUME UNCHANGED <<pc[c], seen[c]>>, ~CommandStep(c)
        PROVE  Left(c)' <= Left(c)
    <3>1. Left(c)' = Left(c)
      BY <2>3 DEF Left, Unasked
    <3>2. Left(c) \in 0 .. 6 + Cardinality(Coordinators)
      BY LeftCounted DEF Core
    <3>3. Cardinality(Coordinators) \in Nat
      BY RegistrationAssumption, FS_CardinalityType
    <3>. QED
      BY <3>1, <3>2, <3>3
  <2>. QED
    BY <2>1, <2>2, <2>3 DEF Next
<1>. QED
  BY <1>1, <1>2, <1>3, <1>4, PTL DEF Spec
----------------------------------------------------------------------------
(* The commands implement module RegistrationContract.                     *)

\* A CREATE EXTENSION is sent once, by a command that is executed, to a primary that
\* has the control file; psql waits for an answer that may come.
InFlight(c) ==
  /\ pc[c] \in {"registered", "create", "creating"} => control[Primary] # Nothing
  /\ pc[c] \in {"create", "creating"} => Mode[c] = "execute"
  /\ session[c] # "none" =>
       /\ pc[c] \in {"creating", "query", "done"} /\ Mode[c] = "execute"
       /\ control[Primary] # Nothing /\ Coordinators # {}
  /\ pc[c] = "creating" => session[c] # "none"
  /\ created[c] = "registered" => session[c] = "none"
  /\ session[c] = "spreading" => catalog[Primary] # Nothing
  /\ outcome[c] = "OK" => session[c] = "none"

Flights == Core /\ \A c \in Commands : InFlight(c)

\* What other commands and the database leave of a command's.
SessionsElsewhere(c) == \A d \in Commands \ {c} : session'[d] = session[d]

LEMMA StepElsewhere ==
  ASSUME TypeOK, NEW c \in Commands, CommandStep(c) \/ ServerStep(c)
  PROVE  SessionsElsewhere(c) /\ control' = control
BY DEF TypeOK, SessionsElsewhere, CommandStep, ServerStep, Connect, CheckAvailable,
       CheckRegistered, PrecheckFails, SendCreate, CreateRefused, CreateTimesOut, QueryVersion,
       QueryFails, Report, CreateLooks, CreateSkips, CreateOnPrimary, CreateCollides,
       CreateOnOther, CreateEnds, CreateBreaks, Answered, database

\* The primary keeps what it has but when the extension is dropped.
LEMMA PrimaryKeeps ==
  ASSUME TypeOK, NEW c \in Commands, CommandStep(c) \/ ServerStep(c)
  PROVE  catalog[Primary] # Nothing => catalog'[Primary] # Nothing
<1>1. CASE CommandStep(c) \/ CreateLooks(c) \/ Answers(c)
  BY <1>1 DEF CommandStep, Connect, CheckAvailable, CheckRegistered, PrecheckFails, SendCreate,
              CreateRefused, CreateTimesOut, QueryVersion, QueryFails, Report, CreateLooks,
              Answers, CreateSkips, CreateCollides, CreateEnds, CreateBreaks, Answered, database
<1>2. CASE CreateOnPrimary(c)
  BY <1>2 DEF CreateOnPrimary
<1>3. CASE \E n \in Coordinators : CreateOnOther(c, n)
  <2>1. PICK n \in Coordinators : CreateOnOther(c, n)
    BY <1>3
  <2>2. n # Primary \/ catalog[Primary] = Nothing
    BY <2>1 DEF CreateOnOther, Served
  <2> QED BY <2>1, <2>2 DEF CreateOnOther, TypeOK
<1> QED BY <1>1, <1>2, <1>3 DEF ServerStep, Answers

LEMMA CommandInFlight ==
  ASSUME RegistrationAssumption, TypeOK, NEW c \in Commands, Recorded(c), InFlight(c),
         CommandStep(c)
  PROVE  InFlight(c)'
<1> USE DEF TypeOK, Fault, Finish, Goto, Activation, database
<1>1. CASE Connect(c)
  BY <1>1 DEF Connect, InFlight, Recorded
<1>2. CASE CheckAvailable(c)
  BY <1>2 DEF CheckAvailable, InFlight, Recorded
<1>3. CASE CheckRegistered(c)
  BY <1>3, RegistrationAssumption DEF CheckRegistered, InFlight, Recorded, RegistrationAssumption
<1>4. CASE PrecheckFails(c)
  BY <1>4 DEF PrecheckFails, InFlight, Recorded
<1>5. CASE SendCreate(c)
  BY <1>5 DEF SendCreate, InFlight, Recorded
<1>6. CASE CreateRefused(c) \/ CreateTimesOut(c)
  BY <1>6 DEF CreateRefused, CreateTimesOut, InFlight
<1>7. CASE \E n \in Coordinators : QueryVersion(c, n) \/ QueryFails(c, n)
  BY <1>7 DEF QueryVersion, QueryFails, InFlight
<1>8. CASE Report(c)
  BY <1>8 DEF Report, InFlight, Recorded, Errors
<1> QED BY <1>1, <1>2, <1>3, <1>4, <1>5, <1>6, <1>7, <1>8 DEF CommandStep

LEMMA ServerInFlight ==
  ASSUME RegistrationAssumption, TypeOK, NEW c \in Commands, Recorded(c), InFlight(c),
         ServerStep(c)
  PROVE  InFlight(c)'
<1>1. CASE CreateLooks(c) \/ CreateOnPrimary(c)
  BY <1>1, RegistrationAssumption
  DEF CreateLooks, CreateOnPrimary, TypeOK, InFlight, Recorded, RegistrationAssumption
<1>2. CASE \E n \in Coordinators : CreateOnOther(c, n)
  <2>1. /\ UNCHANGED <<control, session, pc, created, outcome>>
        /\ catalog[Primary] # Nothing /\ catalog'[Primary] # Nothing
    BY <1>2, PrimaryKeeps DEF CreateOnOther, InFlight, ServerStep
  <2> QED BY <2>1 DEF InFlight
<1>3. CASE Answers(c)
  <2>1. PICK s : Answered(c, s)
    BY <1>3, AnswersGive DEF Answers
  <2>2. session'[c] = "none" /\ UNCHANGED <<control, catalog>>
    BY <2>1 DEF Answered, TypeOK
  <2>3. pc'[c] \in {"query", pc[c]} /\ pc'[c] # "creating"
    BY <2>1 DEF Answered, Activation, Goto, TypeOK
  <2> QED BY <2>2, <2>3 DEF InFlight
<1> QED BY <1>1, <1>2, <1>3 DEF ServerStep, Answers

LEMMA NextFlights == ASSUME RegistrationAssumption, Flights, [Next]_vars PROVE Flights'
<1>0. Core' /\ TypeOK
  BY NextCore DEF Flights, Core
<1>1. ASSUME NEW c \in Commands, CommandStep(c) \/ ServerStep(c), NEW d \in Commands
      PROVE  InFlight(d)'
  <2>1. CASE d = c
    BY <1>0, <1>1, <2>1, CommandInFlight, ServerInFlight DEF Flights, Core
  <2>2. CASE d # c
    <3>1. /\ pc'[d] = pc[d] /\ created'[d] = created[d] /\ session'[d] = session[d]
          /\ control' = control /\ outcome'[d] = outcome[d]
          /\ catalog[Primary] # Nothing => catalog'[Primary] # Nothing
      BY <1>0, <1>1, <2>2, StepIsLocal, StepElsewhere, PrimaryKeeps
      DEF Others, SessionsElsewhere
    <3> QED BY <3>1 DEF Flights, InFlight
  <2> QED BY <2>1, <2>2
<1>2. ASSUME Drop, NEW d \in Commands PROVE InFlight(d)'
  BY <1>2 DEF Drop, Spreading, Flights, InFlight
<1>3. ASSUME UNCHANGED vars, NEW d \in Commands PROVE InFlight(d)'
  BY <1>3 DEF vars, Flights, InFlight
<1> QED BY <1>0, <1>1, <1>2, <1>3 DEF Next, Flights

LEMMA InitFlights == ASSUME RegistrationAssumption, Init PROVE Flights
BY InitCore DEF Init, Flights, InFlight

----------------------------------------------------------------------------
(* What the step of a command is in RegistrationContract.                  *)

WhereNow == {n \in Coordinators : catalog[n] # Nothing}
PendingNow == {d \in Commands : MayCreate(d)}
ConfirmedNow == [d \in Commands |-> {n \in Coordinators : seen[d][n] \in Versions}]
StatusesNow == [d \in Commands |-> Progress(d)]

LEMMA ProgressIs ==
  ASSUME TypeOK, NEW c \in Commands, Recorded(c)
  PROVE  /\ pc[c] # "done" => Progress(c) = CASE created[c] = "none" -> "asked"
                                              [] created[c] = "registered" -> "created"
                                              [] created[c] = "failed" -> "lost"
         /\ Progress(c) = "ok" <=> outcome[c] = "OK"
         /\ Progress(c) = "failed" <=> outcome[c] = "FAILED"
BY DEF TypeOK, Recorded, Progress

LEMMA ProgressThen ==
  ASSUME NEW c
  PROVE  /\ outcome'[c] = "OK" => Progress(c)' = "ok"
         /\ outcome'[c] = "FAILED" => Progress(c)' = "failed"
         /\ outcome'[c] = "none" /\ created'[c] = "registered" => Progress(c)' = "created"
         /\ outcome'[c] = "none" /\ created'[c] = "failed" => Progress(c)' = "lost"
BY DEF Progress

LEMMA OthersKept ==
  ASSUME TypeOK, NEW c \in Commands, Others(c), SessionsElsewhere(c)
  PROVE  /\ StatusesNow' = [StatusesNow EXCEPT ![c] = Progress(c)']
         /\ ConfirmedNow' = [ConfirmedNow EXCEPT ![c] = {n \in Coordinators : seen'[c][n] \in Versions}]
         /\ MayCreate(c)' = MayCreate(c) => PendingNow' = PendingNow
         /\ ~MayCreate(c)' => PendingNow' = PendingNow \ {c}
<1>1. ASSUME NEW d \in Commands \ {c}
      PROVE  /\ Progress(d)' = Progress(d) /\ MayCreate(d)' = MayCreate(d)
             /\ seen'[d] = seen[d]
  BY <1>1 DEF Others, SessionsElsewhere, Progress, MayCreate
<1>2. StatusesNow' = [StatusesNow EXCEPT ![c] = Progress(c)']
  BY <1>1 DEF StatusesNow
<1>3. ConfirmedNow' = [ConfirmedNow EXCEPT ![c] = {n \in Coordinators : seen'[c][n] \in Versions}]
  BY <1>1 DEF ConfirmedNow
<1>4. MayCreate(c)' = MayCreate(c) => PendingNow' = PendingNow
  BY <1>1 DEF PendingNow
<1>5. ~MayCreate(c)' => PendingNow' = PendingNow \ {c}
  BY <1>1 DEF PendingNow
<1> QED BY <1>2, <1>3, <1>4, <1>5

\* A command's step by which it does not learn of a coordinator.
Moves(c, from, to) ==
  /\ Others(c) /\ SessionsElsewhere(c)
  /\ UNCHANGED <<catalog, seen>>
  /\ Progress(c) \in from /\ Progress(c)' = to

LEMMA BecomesThen ==
  ASSUME TypeOK, NEW c \in Commands, NEW from, NEW to, Moves(c, from, to)
  PROVE  /\ Contract!Becomes(c, from, to)
         /\ WhereNow' = WhereNow /\ ConfirmedNow' = ConfirmedNow
<1>1. StatusesNow' = [StatusesNow EXCEPT ![c] = to] /\ StatusesNow[c] = Progress(c)
  BY OthersKept DEF Moves, StatusesNow
<1>2. WhereNow' = WhereNow
  BY DEF Moves, WhereNow
<1>3. ConfirmedNow' = ConfirmedNow
  BY DEF Moves, ConfirmedNow
<1> QED BY <1>1, <1>2, <1>3 DEF Contract!Becomes, Moves, StatusesNow

LEMMA RefuseThen ==
  ASSUME TypeOK, NEW c \in Commands, Moves(c, {"asked", "created", "lost"}, "failed"),
         MayCreate(c)' => MayCreate(c)
  PROVE  Contract!Refuse(c)
<1>1. PendingNow' \in {PendingNow, PendingNow \ {c}}
  BY OthersKept DEF Moves, MayCreate
<1> QED BY <1>1, BecomesThen
        DEF Contract!Refuse, Contract!PendingShrinks, WhereNow, PendingNow, ConfirmedNow

LEMMA LoseThen ==
  ASSUME TypeOK, NEW c \in Commands, Moves(c, {"asked"}, "lost"), Mode[c] = "execute",
         MayCreate(c)' => MayCreate(c)
  PROVE  Contract!Lose(c)
<1>1. PendingNow' \in {PendingNow, PendingNow \ {c}}
  BY OthersKept DEF Moves, MayCreate
<1> QED BY <1>1, BecomesThen
        DEF Contract!Lose, Contract!PendingShrinks, WhereNow, PendingNow, ConfirmedNow

\* A step that the operators do not see.
LEMMA UnseenThen ==
  ASSUME TypeOK, NEW c \in Commands, Moves(c, {Progress(c)}, Progress(c)),
         MayCreate(c)' <=> MayCreate(c)
  PROVE  UNCHANGED Contract!contractVars
<1>1. MayCreate(c)' = MayCreate(c)
  BY DEF MayCreate
<1>2. PendingNow' = PendingNow
  BY <1>1, OthersKept DEF Moves
<1>3. StatusesNow' = StatusesNow
  BY OthersKept DEF Moves, StatusesNow
<1> QED BY <1>2, <1>3, BecomesThen
        DEF Contract!contractVars, WhereNow, PendingNow, ConfirmedNow, StatusesNow

----------------------------------------------------------------------------
(* Each step of a command or of the database is one of                     *)
(* RegistrationContract, or none.                                          *)

\* Before the CREATE EXTENSION nothing is under way.
LEMMA PrecheckStep ==
  ASSUME RegistrationAssumption, TypeOK, NEW c \in Commands, Recorded(c), InFlight(c),
         Connect(c) \/ CheckAvailable(c) \/ CheckRegistered(c) \/ PrecheckFails(c)
  PROVE  Contract!Approve(c) \/ Contract!Refuse(c) \/ UNCHANGED Contract!contractVars
<1>1. Others(c) /\ SessionsElsewhere(c)
  BY StepIsLocal, StepElsewhere DEF CommandStep
<1>2. /\ pc[c] \in {"start", "available", "registered"} /\ UNCHANGED <<catalog, seen, created, session>>
      /\ created[c] = "none" /\ session[c] = "none"
  BY DEF Connect, CheckAvailable, CheckRegistered, PrecheckFails, Recorded, InFlight, database
<1>3. Progress(c) = "asked"
  BY <1>2, ProgressIs
<1>4. CASE Finish(c, "FAILED")
  <2>1. pc'[c] = "done" /\ outcome'[c] = "FAILED"
    BY <1>4 DEF Finish, TypeOK
  <2>2. ~MayCreate(c)'
    BY <1>2, <2>1 DEF MayCreate
  <2> QED BY <1>1, <1>2, <1>3, <2>1, <2>2, ProgressThen, RefuseThen DEF Moves
<1>5. CASE Goto(c, "available") \/ Goto(c, "registered") \/ Goto(c, "create")
  <2>1. pc'[c] \in {"available", "registered", "create"} /\ outcome' = outcome
    BY <1>5 DEF Goto, TypeOK
  <2>2. Progress(c)' = Progress(c)
    BY <1>2, <2>1 DEF Progress
  <2>3. MayCreate(c)' <=> MayCreate(c)
    BY <1>2, <2>1 DEF MayCreate
  <2> QED BY <1>1, <1>2, <2>2, <2>3, UnseenThen DEF Moves
<1>6. CASE CheckRegistered(c) /\ Finish(c, "OK")
  <2>1. pc'[c] = "done" /\ outcome'[c] = "OK"
    BY <1>6 DEF Finish, TypeOK
  <2>2. ~MayCreate(c)'
    BY <1>2, <2>1 DEF MayCreate
  <2>3. Mode[c] = "execute" => catalog[Primary] # Nothing
    BY <1>6, <2>1 DEF CheckRegistered, Goto, Recorded, TypeOK
  <2>4. Primary \in Coordinators
    BY <1>6, RegistrationAssumption DEF CheckRegistered, Recorded, RegistrationAssumption
  <2>5. Mode[c] = "execute" => Primary \in WhereNow
    BY <2>3, <2>4 DEF WhereNow
  <2>6. Moves(c, {"asked"}, "ok")
    BY <1>1, <1>2, <1>3, <2>1, ProgressThen DEF Moves
  <2>7. PendingNow' = PendingNow \ {c}
    BY <1>1, <2>2, OthersKept
  <2> QED BY <2>5, <2>6, <2>7, BecomesThen
          DEF Contract!Approve, WhereNow, PendingNow, ConfirmedNow
<1> QED BY <1>4, <1>5, <1>6 DEF Connect, CheckAvailable, CheckRegistered, PrecheckFails

LEMMA CreateStep ==
  ASSUME RegistrationAssumption, TypeOK, NEW c \in Commands, Recorded(c), InFlight(c),
         SendCreate(c) \/ CreateRefused(c) \/ CreateTimesOut(c)
  PROVE  Contract!Lose(c) \/ UNCHANGED Contract!contractVars
<1>1. Others(c) /\ SessionsElsewhere(c)
  BY StepIsLocal, StepElsewhere DEF CommandStep
<1>2. /\ pc[c] \in {"create", "creating"} /\ UNCHANGED <<catalog, seen, outcome>>
      /\ created[c] = "none" /\ outcome[c] = "none" /\ Mode[c] = "execute"
  BY DEF SendCreate, CreateRefused, CreateTimesOut, Activation, Goto, Recorded, InFlight,
         database, TypeOK
<1>3. Progress(c) = "asked"
  BY <1>2, ProgressIs
<1>4. CASE SendCreate(c)
  <2>1. /\ pc[c] = "create" /\ pc'[c] = "creating" /\ session'[c] = "sent" /\ created' = created
    BY <1>4 DEF SendCreate, Goto, TypeOK
  <2>2. Progress(c)' = Progress(c)
    BY <1>2, <2>1 DEF Progress
  <2>3. MayCreate(c)' <=> MayCreate(c)
    BY <1>2, <2>1 DEF MayCreate
  <2> QED BY <1>1, <1>2, <2>2, <2>3, UnseenThen DEF Moves
<1>5. CASE CreateRefused(c) \/ CreateTimesOut(c)
  <2>1. pc'[c] = "query" /\ created'[c] = "failed" /\ session' = session
    BY <1>5 DEF CreateRefused, CreateTimesOut, Activation, Goto, database, TypeOK
  <2>2. MayCreate(c)' => MayCreate(c)
    BY <1>2, <2>1 DEF MayCreate
  <2>3. Moves(c, {"asked"}, "lost")
    BY <1>1, <1>2, <1>3, <2>1, ProgressThen DEF Moves
  <2> QED BY <1>2, <2>2, <2>3, LoseThen
<1> QED BY <1>4, <1>5

\* What a coordinator answers confirms the extension, or nothing.
LEMMA QueryStep ==
  ASSUME RegistrationAssumption, TypeOK, NEW c \in Commands, Recorded(c),
         NEW n \in Coordinators, QueryVersion(c, n) \/ QueryFails(c, n)
  PROVE  Contract!Confirm(c) \/ UNCHANGED Contract!contractVars
<1>1. Others(c) /\ SessionsElsewhere(c)
  BY StepIsLocal, StepElsewhere DEF CommandStep
<1>2. /\ pc[c] = "query" /\ seen[c][n] = "unasked"
      /\ UNCHANGED <<catalog, session, pc, created, outcome>>
  BY DEF QueryVersion, QueryFails, database
<1>3. Progress(c) \in {"created", "lost"} /\ Progress(c)' = Progress(c)
  BY <1>2, ProgressIs DEF Recorded, TypeOK, Progress
<1>4. MayCreate(c)' <=> MayCreate(c)
  BY <1>2 DEF MayCreate
<1>5. /\ StatusesNow' = StatusesNow /\ StatusesNow[c] \in {"created", "lost"}
      /\ WhereNow' = WhereNow /\ PendingNow' = PendingNow
  <2>1. MayCreate(c)' = MayCreate(c)
    BY <1>4 DEF MayCreate
  <2>2. PendingNow' = PendingNow
    BY <1>1, <2>1, OthersKept
  <2>3. StatusesNow' = StatusesNow /\ StatusesNow[c] \in {"created", "lost"}
    BY <1>1, <1>3, OthersKept DEF StatusesNow
  <2> QED BY <1>2, <2>2, <2>3 DEF WhereNow
<1>6. "unasked" \notin Versions
  BY RegistrationAssumption DEF RegistrationAssumption
<1>7. CASE QueryVersion(c, n) /\ catalog[n] # Nothing
  <2>1. seen' = [seen EXCEPT ![c][n] = catalog[n]]
    BY <1>7 DEF QueryVersion, Answer
  <2>2. n \in WhereNow /\ catalog[n] \in Versions
    BY <1>7 DEF WhereNow, TypeOK
  <2>3. {m \in Coordinators : seen'[c][m] \in Versions} = ConfirmedNow[c] \union {n}
    BY <2>1, <2>2 DEF ConfirmedNow, TypeOK
  <2>4. ConfirmedNow' = [ConfirmedNow EXCEPT ![c] = ConfirmedNow[c] \union {n}]
    BY <1>1, <2>3, OthersKept
  <2> QED BY <1>5, <2>2, <2>4
          DEF Contract!Confirm, StatusesNow, WhereNow, PendingNow, ConfirmedNow
<1>8. CASE ~(QueryVersion(c, n) /\ catalog[n] # Nothing)
  <2>1. PICK a \in {"missing", "query_failed"} : seen' = [seen EXCEPT ![c][n] = a]
    BY <1>8 DEF QueryVersion, QueryFails, Answer
  <2>2. a \notin Versions
    BY RegistrationAssumption DEF RegistrationAssumption
  <2>3. {m \in Coordinators : seen'[c][m] \in Versions} = ConfirmedNow[c]
    BY <1>2, <1>6, <2>1, <2>2 DEF ConfirmedNow, TypeOK
  <2>4. ConfirmedNow' = [ConfirmedNow EXCEPT ![c] = ConfirmedNow[c]]
    BY <1>1, <2>3, OthersKept
  <2>5. ConfirmedNow' = ConfirmedNow
    BY <2>4 DEF ConfirmedNow
  <2> QED BY <1>5, <2>5
          DEF Contract!contractVars, StatusesNow, WhereNow, PendingNow, ConfirmedNow
<1> QED BY <1>7, <1>8

LEMMA ReportStep ==
  ASSUME RegistrationAssumption, TypeOK, NEW c \in Commands, Recorded(c), InFlight(c), Report(c)
  PROVE  Contract!Report(c) \/ Contract!Refuse(c)
<1>1. Others(c) /\ SessionsElsewhere(c)
  BY StepIsLocal, StepElsewhere DEF CommandStep
<1>2. /\ pc[c] = "query" /\ pc'[c] = "done" /\ UNCHANGED <<catalog, seen, created, session>>
      /\ outcome'[c] = IF Errors(c) THEN "FAILED" ELSE "OK"
      /\ \A n \in Coordinators : seen[c][n] # "unasked"
      /\ created[c] # "none"
  BY DEF Report, Finish, database, TypeOK, Recorded
<1>3. MayCreate(c)' <=> MayCreate(c)
  BY <1>2 DEF MayCreate
<1>4. CASE Errors(c)
  <2>1. Moves(c, {"asked", "created", "lost"}, "failed")
    BY <1>1, <1>2, <1>4, ProgressIs, ProgressThen DEF Moves, TypeOK
  <2> QED BY <1>3, <2>1, RefuseThen
<1>5. CASE ~Errors(c)
  <2>1. created[c] = "registered" /\ \A n \in Coordinators : seen[c][n] \in Versions
    BY <1>2, <1>5 DEF Errors, TypeOK, Statuses
  <2>2. Moves(c, {"created"}, "ok")
    BY <1>1, <1>2, <1>5, <2>1, ProgressIs, ProgressThen DEF Moves
  <2>3. ConfirmedNow[c] = Coordinators
    BY <2>1 DEF ConfirmedNow
  <2>4. PendingNow' = PendingNow
    <3>1. MayCreate(c)' = MayCreate(c)
      BY <1>3 DEF MayCreate
    <3> QED BY <1>1, <3>1, OthersKept
  <2> QED BY <2>2, <2>3, <2>4, BecomesThen
          DEF Contract!Report, WhereNow, PendingNow, ConfirmedNow
<1> QED BY <1>4, <1>5

\* The database creates the extension, takes it to the others, and answers.
LEMMA ServerContract ==
  ASSUME RegistrationAssumption, TypeOK, NEW c \in Commands, Recorded(c), InFlight(c),
         ServerStep(c)
  PROVE  \/ Contract!Create(c) \/ Contract!Spread \/ Contract!Withdraw(c)
         \/ Contract!Created(c) \/ Contract!Lose(c) \/ UNCHANGED Contract!contractVars
<1>1. Others(c) /\ SessionsElsewhere(c)
  BY StepIsLocal, StepElsewhere
<1>2. session[c] # "none"
  BY DEF ServerStep, CreateLooks, CreateSkips, CreateOnPrimary, CreateCollides, CreateOnOther,
         CreateEnds, CreateBreaks
<1>3. /\ pc[c] \in {"creating", "query", "done"} /\ Mode[c] = "execute"
      /\ control[Primary] # Nothing /\ Primary \in Coordinators
  BY <1>2, RegistrationAssumption DEF InFlight, RegistrationAssumption
<1>4. ASSUME UNCHANGED <<created, outcome>>, Others(c) PROVE StatusesNow' = StatusesNow
  <2>1. Progress(c)' = Progress(c)
    BY <1>4 DEF Progress
  <2> QED BY <1>1, <2>1, OthersKept DEF StatusesNow
<1>5. ASSUME UNCHANGED seen PROVE ConfirmedNow' = ConfirmedNow
  BY <1>5 DEF ConfirmedNow
<1>6. CASE CreateOnPrimary(c)
  <2>1. /\ session[c] = "making" /\ session'[c] = "spreading" /\ catalog[Primary] = Nothing
        /\ catalog' = [catalog EXCEPT ![Primary] = control[Primary]]
        /\ UNCHANGED <<pc, created, seen, outcome>>
    BY <1>6 DEF CreateOnPrimary, TypeOK
  <2>2. MayCreate(c) /\ ~MayCreate(c)'
    BY <1>3, <2>1 DEF MayCreate
  <2>3. PendingNow' = PendingNow \ {c} /\ c \in PendingNow
    BY <1>1, <2>2, OthersKept DEF PendingNow
  <2>4. WhereNow' = WhereNow \union {Primary} /\ Primary \notin WhereNow
    BY <1>3, <2>1 DEF WhereNow, TypeOK
  <2>5. StatusesNow' = StatusesNow /\ ConfirmedNow' = ConfirmedNow
    BY <1>1, <1>4, <1>5, <2>1
  <2> QED BY <2>3, <2>4, <2>5
          DEF Contract!Create, WhereNow, PendingNow, ConfirmedNow, StatusesNow
<1>7. CASE \E n \in Coordinators : CreateOnOther(c, n)
  <2>1. PICK n \in Coordinators : CreateOnOther(c, n)
    BY <1>7
  <2>2. /\ catalog' = [catalog EXCEPT ![n] = control[n]] /\ control[n] # Nothing
        /\ session[c] = "spreading" /\ UNCHANGED <<session, pc, created, seen, outcome>>
    BY <2>1 DEF CreateOnOther, Served
  <2>3. WhereNow' = WhereNow \union {n}
    BY <2>2 DEF WhereNow, TypeOK
  <2>4. Primary \in WhereNow
    BY <1>3, <2>2 DEF InFlight, WhereNow
  <2>5. StatusesNow' = StatusesNow /\ ConfirmedNow' = ConfirmedNow /\ PendingNow' = PendingNow
    <3>1. MayCreate(c)' = MayCreate(c)
      BY <2>2 DEF MayCreate
    <3> QED BY <1>1, <1>4, <1>5, <2>2, <3>1, OthersKept
  <2> QED BY <2>3, <2>4, <2>5
          DEF Contract!Spread, WhereNow, PendingNow, ConfirmedNow, StatusesNow
<1>8. CASE CreateLooks(c)
  <2>1. MayCreate(c)' = MayCreate(c) /\ UNCHANGED <<catalog, created, seen, outcome>>
    BY <1>8 DEF CreateLooks, MayCreate, TypeOK
  <2>2. /\ PendingNow' = PendingNow /\ WhereNow' = WhereNow
        /\ StatusesNow' = StatusesNow /\ ConfirmedNow' = ConfirmedNow
    BY <1>1, <1>4, <1>5, <2>1, OthersKept DEF WhereNow
  <2> QED BY <2>2 DEF Contract!contractVars, WhereNow, PendingNow, ConfirmedNow, StatusesNow
<1>9. CASE Answers(c)
  <2>1. PICK s \in {"registered", "failed"} :
          /\ Answered(c, s)
          /\ s = "registered" => CreateSkips(c) \/ CreateEnds(c)
    BY <1>9, AnswersGive DEF Answers
  <2>2. session'[c] = "none" /\ UNCHANGED <<catalog, seen, outcome>>
    BY <2>1 DEF Answered, Activation, Goto, TypeOK
  <2>3. ~MayCreate(c)'
    <3>1. pc'[c] \in {"query", "done"}
      BY <1>3, <2>1 DEF Answered, Activation, Goto, TypeOK
    <3> QED BY <2>2, <3>1 DEF MayCreate
  <2>4. PendingNow' = PendingNow \ {c} /\ WhereNow' = WhereNow /\ ConfirmedNow' = ConfirmedNow
    BY <1>1, <1>5, <2>2, <2>3, OthersKept DEF WhereNow
  <2>5. CASE pc[c] # "creating"
    <3>1. created' = created
      BY <2>1, <2>5 DEF Answered
    <3>2. StatusesNow' = StatusesNow
      BY <1>1, <1>4, <2>2, <3>1
    <3> QED BY <2>4, <3>2
            DEF Contract!Withdraw, WhereNow, PendingNow, ConfirmedNow, StatusesNow
  <2>6. CASE pc[c] = "creating"
    <3>1. created[c] = "none" /\ outcome[c] = "none" /\ Progress(c) = "asked"
      BY <2>6, ProgressIs DEF Recorded, TypeOK
    <3>2. created'[c] = s /\ outcome'[c] = "none"
      BY <2>1, <2>6, <3>1 DEF Answered, Activation, Goto, TypeOK
    <3>3. CASE s = "registered"
      <4>1. Moves(c, {"asked"}, "created")
        BY <1>1, <2>2, <3>1, <3>2, <3>3, ProgressThen DEF Moves
      <4>2. Primary \in WhereNow
        BY <1>3, <2>1, <3>3 DEF CreateSkips, CreateEnds, InFlight, WhereNow
      <4> QED BY <1>3, <2>4, <4>1, <4>2, BecomesThen
              DEF Contract!Created, WhereNow, PendingNow, ConfirmedNow
    <3>4. CASE s = "failed"
      <4>1. Moves(c, {"asked"}, "lost")
        BY <1>1, <2>2, <3>1, <3>2, <3>4, ProgressThen DEF Moves
      <4> QED BY <1>3, <2>3, <4>1, LoseThen
    <3> QED BY <2>1, <3>3, <3>4
  <2> QED BY <2>5, <2>6
<1> QED BY <1>6, <1>7, <1>8, <1>9 DEF ServerStep, Answers

LEMMA ContractStep ==
  ASSUME RegistrationAssumption, Flights, [Next]_vars
  PROVE  [Contract!ContractNext]_Contract!contractVars
<1>0. TypeOK /\ \A c \in Commands : Recorded(c) /\ InFlight(c)
  BY DEF Flights, Core
<1>1. ASSUME NEW c \in Commands, CommandStep(c)
      PROVE  Contract!ContractNext \/ UNCHANGED Contract!contractVars
  <2>1. CASE Connect(c) \/ CheckAvailable(c) \/ CheckRegistered(c) \/ PrecheckFails(c)
    BY <1>0, <2>1, PrecheckStep DEF Contract!ContractNext
  <2>2. CASE SendCreate(c) \/ CreateRefused(c) \/ CreateTimesOut(c)
    BY <1>0, <2>2, CreateStep DEF Contract!ContractNext
  <2>3. CASE \E n \in Coordinators : QueryVersion(c, n) \/ QueryFails(c, n)
    BY <1>0, <2>3, QueryStep DEF Contract!ContractNext
  <2>4. CASE Report(c)
    BY <1>0, <2>4, ReportStep DEF Contract!ContractNext
  <2> QED BY <1>1, <2>1, <2>2, <2>3, <2>4 DEF CommandStep
<1>2. ASSUME NEW c \in Commands, ServerStep(c)
      PROVE  Contract!ContractNext \/ UNCHANGED Contract!contractVars
  BY <1>0, <1>2, ServerContract DEF Contract!ContractNext
<1>3. CASE Drop
  <2>1. WhereNow' = {}
    BY <1>3 DEF Drop, WhereNow
  <2>2. \A c \in Commands : Progress(c)' = Progress(c) /\ MayCreate(c)' = MayCreate(c)
    BY <1>3 DEF Drop, Progress, MayCreate
  <2>3. StatusesNow' = StatusesNow /\ PendingNow' = PendingNow /\ ConfirmedNow' = ConfirmedNow
    BY <1>3, <2>2 DEF Drop, StatusesNow, PendingNow, ConfirmedNow
  <2> QED BY <2>1, <2>3 DEF Contract!ContractNext, Contract!Vanish, WhereNow, PendingNow,
                            ConfirmedNow, StatusesNow
<1>4. CASE UNCHANGED vars
  BY <1>4 DEF vars, Contract!contractVars, Progress, MayCreate
<1> QED BY <1>1, <1>2, <1>3, <1>4 DEF Next

\* Any number of operators, on any number of coordinators: the commands and the database
\* keep what module RegistrationContract says, whatever fails, times out or is dropped
\* (cmd_register, execute_activation).
THEOREM ContractKept == Spec => KeepsContract
<1>1. Init => Contract!ContractInit
  <2> SUFFICES ASSUME Init PROVE Contract!ContractInit
    OBVIOUS
  <2>1. WhereNow = {}
    BY DEF Init, WhereNow
  <2>2. PendingNow = {c \in Commands : Mode[c] = "execute"}
    BY DEF Init, PendingNow, MayCreate
  <2>3. \A c \in Commands : Progress(c) = "asked"
    BY DEF Init, Progress
  <2>4. StatusesNow = [c \in Commands |-> "asked"]
    BY <2>3 DEF StatusesNow
  <2>5. "unasked" \notin Versions
    BY RegistrationAssumption DEF RegistrationAssumption
  <2>6. ConfirmedNow = [c \in Commands |-> {}]
    BY <2>5 DEF Init, ConfirmedNow
  <2> QED BY <2>1, <2>2, <2>4, <2>6
          DEF Contract!ContractInit, WhereNow, PendingNow, ConfirmedNow, StatusesNow
<1>2. Init => Flights
  BY InitFlights, RegistrationAssumption
<1>3. Flights /\ [Next]_vars => Flights'
  BY NextFlights, RegistrationAssumption
<1>4. Flights /\ [Next]_vars => [Contract!ContractNext]_Contract!contractVars
  BY ContractStep, RegistrationAssumption
<1> QED BY <1>1, <1>2, <1>3, <1>4, PTL DEF Spec, KeepsContract, Contract!ContractSpec

\* Nothing of a register command that has printed "Result: OK" is still to come: a
\* CREATE EXTENSION that takes effect late belongs to one that reports a failure.
THEOREM AnswersFinal == Spec => []Contract!AnsweredForGood
<1>1. Flights => Contract!AnsweredForGood
  <2> SUFFICES ASSUME Flights, NEW c \in Commands, Progress(c) \in {"created", "ok"}
               PROVE  ~MayCreate(c)
    BY DEF Contract!AnsweredForGood
  <2>1. Recorded(c) /\ InFlight(c) /\ TypeOK
    BY DEF Flights, Core
  <2>2. created[c] = "registered" \/ outcome[c] = "OK"
    BY <2>1, ProgressIs DEF Progress, TypeOK
  <2>3. pc[c] \in {"query", "done"} /\ session[c] = "none"
    BY <2>1, <2>2 DEF Recorded, InFlight, TypeOK
  <2> QED BY <2>3 DEF MayCreate
<1> QED BY <1>1, InitFlights, NextFlights, RegistrationAssumption, PTL DEF Spec

----------------------------------------------------------------------------
(* Theorem: the race of CREATE EXTENSION has a winner.                     *)

\* Nothing has failed, nobody drops, and all nodes have the same control file.
Calm ==
  /\ faults = 0 /\ drops = 0 /\ Coordinators # {}
  /\ \A m, n \in Coordinators : control[m] = control[n] /\ control[n] # Nothing

Installed == \A n \in Coordinators : catalog[n] = control[n]

\* Command d creates the extension, or has created it and sees it wherever it asks.
Wins(d) ==
  /\ Mode[d] = "execute" /\ outcome[d] # "FAILED" /\ created[d] # "failed"
  /\ \/ session[d] = "spreading"
     \/ /\ created[d] = "registered" /\ Installed
        /\ \A n \in Coordinators : seen[d][n] \in {"unasked", control[n]}

\* In a calm database psql waits for its CREATE EXTENSION, the queries come after it,
\* and a command that has an answer to it, or is refused, finds the extension there.
Waits(c) ==
  /\ session[c] # "none" => pc[c] = "creating"
  /\ pc[c] \notin {"query", "done"} => \A n \in Coordinators : seen[c][n] = "unasked"
  /\ created[c] # "none" => catalog[Primary] # Nothing
  /\ outcome[c] = "FAILED" => created[c] # "none"

Race ==
  Calm =>
    /\ \A n \in Coordinators : catalog[n] \in {Nothing, control[n]}
    /\ catalog[Primary] # Nothing => \E d \in Commands : Wins(d)
    /\ \A c \in Commands : Waits(c)

\* What a command does leaves a winner the winner.
LEMMA CommandKeepsWinner ==
  ASSUME RegistrationAssumption, Flights, Race, NEW c \in Commands, CommandStep(c), Calm,
         UNCHANGED <<control, catalog, faults, drops>>, NEW d \in Commands, Wins(d)
  PROVE  Wins(d)'
<1>1. TypeOK /\ Others(c) /\ SessionsElsewhere(c)
  BY StepIsLocal, StepElsewhere DEF Flights, Core
<1>2. Installed' <=> Installed
  BY DEF Installed
<1>3. CASE d # c
  BY <1>1, <1>2, <1>3 DEF Wins, Others, SessionsElsewhere
<1>4. CASE d = c
  <2>. USE DEF TypeOK, Finish, Goto, Activation, database
  <2>1. Recorded(c) /\ Waits(c) /\ Wins(c) /\ faults = 0 /\ faults' = 0
    BY <1>4 DEF Flights, Core, Race, Calm
  <2>2. pc[c] # "creating"
    BY <1>1, <2>1
    DEF CommandStep, Connect, CheckAvailable, CheckRegistered, PrecheckFails, SendCreate,
        CreateRefused, CreateTimesOut, QueryVersion, QueryFails, Report
  <2>3. /\ pc[c] = "query" /\ created[c] = "registered" /\ Installed
        /\ \A n \in Coordinators : seen[c][n] \in {"unasked", control[n]}
    BY <1>1, <2>1, <2>2
    DEF Wins, Waits, Recorded, CommandStep, Connect, CheckAvailable, CheckRegistered,
        PrecheckFails, SendCreate, CreateRefused, CreateTimesOut, QueryVersion, QueryFails, Report
  <2>4. CASE \E n \in Coordinators : QueryVersion(c, n)
    <3>1. PICK n \in Coordinators : QueryVersion(c, n)
      BY <2>4
    <3>2. Answer(n) = control[n]
      BY <2>3 DEF Installed, Answer, Calm
    <3>. QED
      BY <1>1, <1>2, <1>4, <2>1, <2>3, <3>1, <3>2 DEF QueryVersion, Wins
  <2>5. CASE Report(c)
    <3>1. \A n \in Coordinators : seen[c][n] = control[n] /\ seen[c][n] \in Versions
      BY <1>1, <2>3, <2>5 DEF Report, Calm
    <3>2. ~Mismatch(c)
      BY <3>1 DEF Mismatch, Present, Calm
    <3>3. ~Errors(c)
      BY <2>3, <3>1, <3>2, RegistrationAssumption DEF Errors, RegistrationAssumption
    <3>. QED
      BY <1>1, <1>2, <1>4, <2>1, <2>3, <2>5, <3>3 DEF Report, Wins
  <2>. QED
    BY <2>1, <2>3, <2>4, <2>5
    DEF CommandStep, Connect, CheckAvailable, CheckRegistered, PrecheckFails, SendCreate,
        CreateRefused, CreateTimesOut, QueryFails, Fault
<1>. QED
  BY <1>3, <1>4

LEMMA CommandRace ==
  ASSUME RegistrationAssumption, Flights, Race, NEW c \in Commands, CommandStep(c)
  PROVE  Race'
<1>. SUFFICES ASSUME Calm'
              PROVE  Race'
  BY DEF Race
<1>0. TypeOK /\ Others(c) /\ SessionsElsewhere(c) /\ Recorded(c)
  BY StepIsLocal, StepElsewhere DEF Flights, Core
<1>1. UNCHANGED <<control, catalog, faults, drops>> /\ Calm
  BY <1>0 DEF TypeOK, CommandStep, Connect, CheckAvailable, CheckRegistered, PrecheckFails,
         SendCreate, CreateRefused, CreateTimesOut, QueryVersion, QueryFails, Report, Calm, Fault,
         database
<1>2. (\A n \in Coordinators : catalog[n] \in {Nothing, control[n]})'
  BY <1>1 DEF Race
<1>3. (catalog[Primary] # Nothing => \E d \in Commands : Wins(d))'
  BY <1>1, CommandKeepsWinner DEF Race
<1>4. \A d \in Commands \ {c} : Waits(d)'
  BY <1>0, <1>1 DEF Race, Waits, Others, SessionsElsewhere
<1>5. Waits(c)'
  <2>. USE DEF TypeOK, Finish, Goto, Activation, database
  <2>1. Waits(c) /\ faults = 0 /\ faults' = 0
    BY <1>1 DEF Race, Calm
  <2>2. CASE Connect(c) \/ CheckRegistered(c) \/ SendCreate(c)
    BY <1>0, <1>1, <2>1, <2>2 DEF Connect, CheckRegistered, SendCreate, Calm, Waits, Recorded
  <2>3. CASE CheckAvailable(c)
    BY <1>0, <1>1, <2>1, <2>3, RegistrationAssumption
    DEF CheckAvailable, Calm, Waits, Recorded, RegistrationAssumption
  <2>4. CASE \E n \in Coordinators : QueryVersion(c, n)
    BY <1>0, <1>1, <2>1, <2>4 DEF QueryVersion, Waits
  <2>5. CASE Report(c)
    BY <1>0, <1>1, <2>1, <2>5 DEF Report, Waits, Recorded
  <2>. QED
    BY <2>1, <2>2, <2>3, <2>4, <2>5
    DEF CommandStep, PrecheckFails, CreateRefused, CreateTimesOut, QueryFails, Fault
<1>. QED
  BY <1>2, <1>3, <1>4, <1>5 DEF Race

LEMMA ServerRace ==
  ASSUME RegistrationAssumption, Flights, Race, NEW c \in Commands, ServerStep(c)
  PROVE  Race'
<1>. SUFFICES ASSUME Calm'
              PROVE  Race'
  BY DEF Race
<1>0. TypeOK /\ Others(c) /\ SessionsElsewhere(c) /\ Recorded(c) /\ InFlight(c)
  BY StepIsLocal, StepElsewhere DEF Flights, Core
<1>1. UNCHANGED <<control, faults, drops, seen, outcome>> /\ Calm
  <2>1. CASE Answers(c)
    BY <1>0, <2>1, AnswersGive DEF Answers, Answered, Activation, Goto, Fault, Calm, TypeOK
  <2>2. CASE ~Answers(c)
    BY <2>2 DEF ServerStep, Answers, CreateLooks, CreateOnPrimary, CreateOnOther, Calm
  <2>. QED
    BY <2>1, <2>2
<1>2. Primary \in Coordinators /\ control[Primary] # Nothing
  BY <1>1, RegistrationAssumption DEF Calm, RegistrationAssumption
<1>3. /\ \A n \in Coordinators : catalog[n] \in {Nothing, control[n]}
      /\ catalog[Primary] # Nothing => \E d \in Commands : Wins(d)
      /\ \A d \in Commands : Waits(d)
  BY <1>1 DEF Race
<1>4. /\ session[c] # "none" /\ pc[c] = "creating" /\ created[c] = "none"
      /\ outcome[c] = "none" /\ Mode[c] = "execute"
  <2>1. session[c] # "none"
    BY DEF ServerStep, CreateLooks, CreateSkips, CreateOnPrimary, CreateCollides, CreateOnOther,
           CreateEnds, CreateBreaks
  <2>. QED
    BY <1>0, <1>3, <2>1 DEF Waits, Recorded, InFlight, TypeOK
<1>5. /\ \A n \in Coordinators : catalog'[n] \in {catalog[n], control[n]}
      /\ \A n \in Coordinators : catalog[n] # Nothing => catalog'[n] = catalog[n]
  <2>1. CASE Answers(c)
    BY <2>1, AnswersGive DEF Answers, Answered
  <2>2. CASE ~Answers(c)
    BY <1>0, <2>2
    DEF ServerStep, Answers, CreateLooks, CreateOnPrimary, CreateOnOther, Served, TypeOK
  <2>. QED
    BY <2>1, <2>2
<1>6. (\A n \in Coordinators : catalog[n] \in {Nothing, control[n]})'
  BY <1>1, <1>3, <1>5
<1>7. Installed => Installed'
  BY <1>1, <1>5 DEF Installed, Calm
<1>8. ASSUME NEW d \in Commands \ {c}, Wins(d)
      PROVE  Wins(d)'
  BY <1>0, <1>1, <1>7, <1>8 DEF Wins, Others, SessionsElsewhere
<1>9. \A d \in Commands \ {c} : Waits(d)'
  BY <1>0, <1>1, <1>2, <1>3, <1>5 DEF Waits, Others, SessionsElsewhere
<1>10. ASSUME session'[c] # "none", UNCHANGED <<pc, created>>
       PROVE  Waits(c)'
  BY <1>1, <1>3, <1>4, <1>10 DEF Waits
<1>11. CASE CreateLooks(c)
  <2>1. session'[c] = "making" /\ UNCHANGED <<catalog, pc, created>> /\ catalog[Primary] = Nothing
    BY <1>0, <1>11 DEF CreateLooks, TypeOK
  <2>. QED
    BY <1>6, <1>9, <1>10, <2>1 DEF Race
<1>12. CASE CreateOnPrimary(c) \/ \E n \in Coordinators : CreateOnOther(c, n)
  <2>1. session'[c] = "spreading" /\ UNCHANGED <<pc, created>>
    BY <1>0, <1>12 DEF CreateOnPrimary, CreateOnOther, TypeOK
  <2>2. Wins(c)'
    BY <1>1, <1>4, <2>1 DEF Wins
  <2>. QED
    BY <1>6, <1>9, <1>10, <2>1, <2>2 DEF Race
<1>13. CASE CreateSkips(c) \/ CreateCollides(c)
  <2>1. catalog[Primary] # Nothing /\ session[c] # "spreading"
    BY <1>13 DEF CreateSkips, CreateCollides
  <2>2. PICK s : Answered(c, s)
    BY <1>13 DEF CreateSkips, CreateCollides
  <2>3. catalog' = catalog
    BY <2>2 DEF Answered
  <2>4. \E d \in Commands : Wins(d)'
    BY <1>3, <1>4, <1>8, <2>1 DEF Wins
  <2>5. Waits(c)'
    <3>1. session'[c] = "none" /\ pc'[c] = "query" /\ outcome'[c] # "FAILED"
      BY <1>0, <1>1, <1>4, <2>2 DEF Answered, Activation, Goto, TypeOK
    <3>. QED
      BY <2>1, <2>3, <3>1 DEF Waits
  <2>. QED
    BY <1>6, <1>9, <2>4, <2>5 DEF Race
<1>14. CASE CreateEnds(c)
  <2>1. Installed
    BY <1>1, <1>3, <1>14 DEF CreateEnds, Served, Installed, Calm
  <2>2. catalog' = catalog /\ session'[c] = "none" /\ pc'[c] = "query" /\ created'[c] = "registered"
    BY <1>0, <1>4, <1>14 DEF CreateEnds, Answered, Activation, Goto, TypeOK
  <2>3. catalog[Primary] # Nothing
    BY <1>2, <2>1 DEF Installed
  <2>4. \A n \in Coordinators : seen[c][n] = "unasked"
    BY <1>3, <1>4 DEF Waits
  <2>5. Wins(c)'
    BY <1>1, <1>4, <1>7, <2>1, <2>2, <2>4 DEF Wins
  <2>6. Waits(c)'
    BY <1>1, <1>4, <2>2, <2>3 DEF Waits
  <2>. QED
    BY <1>6, <1>9, <2>5, <2>6 DEF Race
<1>15. ~CreateBreaks(c)
  BY <1>1 DEF CreateBreaks, Fault, Calm
<1>. QED
  BY <1>11, <1>12, <1>13, <1>14, <1>15 DEF ServerStep

\* For any number of operators and coordinators: unless a statement failed or timed
\* out, the extension was dropped meanwhile, or the coordinators' control files differ
\* or are missing, a register command is refused only because another one, which is
\* not refused, creates or has created the extension (CREATE EXTENSION IF NOT EXISTS).
THEOREM RefusalsJustified == Spec => []RefusedForAReason
<1>1. Init => Flights /\ Race
  <2>. SUFFICES ASSUME Init
                PROVE  Race
    BY InitFlights, RegistrationAssumption
  <2>1. Calm => Primary \in Coordinators
    BY RegistrationAssumption DEF Calm, RegistrationAssumption
  <2>. QED
    BY <2>1 DEF Init, Race, Waits
<1>2. Flights /\ Race /\ [Next]_vars => (Flights /\ Race)'
  <2>. SUFFICES ASSUME Flights, Race, [Next]_vars
                PROVE  Race'
    BY NextFlights, RegistrationAssumption
  <2>1. CASE Drop
    BY <2>1 DEF Drop, Flights, Core, TypeOK, Race, Calm
  <2>2. CASE UNCHANGED vars
    BY <2>2 DEF vars, Race, Calm, Wins, Waits, Installed
  <2>. QED
    BY <2>1, <2>2, CommandRace, ServerRace, RegistrationAssumption DEF Next
<1>3. Flights /\ Race => RefusedForAReason
  <2>. SUFFICES ASSUME Flights, Race, Calm, NEW c \in Commands, outcome[c] = "FAILED"
                PROVE  \E d \in Commands \ {c} : LosesTo(c, d)
    BY DEF RefusedForAReason, Calm, Flights, Core, TypeOK
  <2>1. created[c] # "none" /\ catalog[Primary] # Nothing
    BY DEF Race, Waits
  <2>2. PICK d \in Commands : Wins(d)
    BY <2>1 DEF Race
  <2>3. d # c
    BY <2>2 DEF Wins
  <2>. QED
    BY <2>1, <2>2, <2>3 DEF Wins, LosesTo
<1>. QED
  BY <1>1, <1>2, <1>3, PTL DEF Spec
=============================================================================
