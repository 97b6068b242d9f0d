----------------------------- MODULE Build_proofs -----------------------------
(***************************************************************************)
(* Theorems about Build, for any number of builds and inits: what          *)
(* ClusterInit promises holds while builds run, a good build is fresh, and *)
(* every build comes to an end.                                            *)
(***************************************************************************)
EXTENDS Build, ClusterInit_proofs

----------------------------------------------------------------------------
(* Builds are readers of cluster.toml.                                     *)

LEMMA BuildStepsAreReads ==
  ASSUME NEW b \in Builders, BuildStep(b)
  PROVE  UNCHANGED clusterVars \/ (LookForCluster(b) /\ (Find(b) \/ Load(b)))
BY DEF BuildStep, BeginBuild, LookForCluster, Resolve, Pgxs, Clean, CleanFails, Compile, Link,
       MakeFails, CheckArtifact

LEMMA BuildRefines ==
  ASSUME [BuildNext]_vars
  PROVE  [Next]_clusterVars
<1>1. ASSUME NEW b \in Builders, BuildStep(b) PROVE [Next]_clusterVars
  BY <1>1, BuildStepsAreReads DEF Next, Builders
<1>2. CASE InitNext
  BY <1>2 DEF InitNext, Next
<1>3. CASE EditSource
  BY <1>3 DEF EditSource
<1>4. CASE UNCHANGED vars
  BY <1>4 DEF vars
<1> QED BY <1>1, <1>2, <1>3, <1>4 DEF BuildNext

\* Builds and inits together do to cluster.toml what ClusterInit says, so that its theorems
\* hold of the composition.
THEOREM BuildsOnlyRead == BuildSpec => Spec
<1>1. BuildInit => Init
  BY DEF BuildInit
<1> QED BY <1>1, BuildRefines, PTL DEF BuildSpec, Spec

\* The properties of cluster.toml, with builds (PortsMatchNodes, AutoFindsWhatAnswers,
\* LoadedIsWhole, InitTakesEffect, EachNodeOnce, LoadedOnce), and the steps an init may have
\* to take (LeftUntilEnded).
THEOREM ClusterStaysSound ==
  BuildSpec => /\ [](PortsMatchNodes /\ AutoFindsWhatAnswers /\ LoadedIsWhole /\ InitTakesEffect)
               /\ [](EachNodeOnce /\ LoadedOnce /\ LeftUntilEnded)
BY BuildsOnlyRead, PortsMatched, AutoFinds, LoadedWhole, InitEffective, EveryNodeOnce,
   LoadedNodesOnce, InitsComeToEnd, PTL

----------------------------------------------------------------------------
(* Types.                                                                  *)

BuilderLocals == [at : BuildSteps, manifest : Manifests \union {None},
                  pg_config : Servers \union {None}]

Resolved == {"pgxs", "clean", "compile", "link", "artifact", "ok"}

ServerKnown(ctx) == ctx.at \in Resolved => ctx.pg_config \in Servers
Commanded(ctx) == ctx.at # "start" => ctx.manifest \in Manifests

BuildTyped ==
  /\ BuildTypeOK
  /\ \A b \in Builders : ServerKnown(builder[b]) /\ Commanded(builder[b])

LEMMA BuildInitTyped == BuildInit => BuildTyped
<1> SUFFICES ASSUME BuildInit PROVE BuildTyped
  OBVIOUS
<1>1. TypeOK
  BY InitTyped DEF BuildInit, Typed
<1>2. builder \in [Builders -> BuilderLocals] /\ \A b \in Builders : builder[b].at = "start"
  BY DEF BuildInit, BuilderLocals, BuildSteps
<1>3. library \in Binaries \union {None} /\ source \in Nat
  BY DEF BuildInit, Binaries
<1> QED BY <1>1, <1>2, <1>3 DEF BuildInit, BuildTyped, BuildTypeOK, BuilderLocals, ServerKnown,
                                Commanded, Resolved

BuilderOnward(b, step) == [builder[b] EXCEPT !.at = step]
Choosing(b, server) == [builder[b] EXCEPT !.at = "pgxs", !.pg_config = server]

\* The local variables of b after a step of it.
LEMMA BuilderSteps ==
  ASSUME BuildTyped, NEW b \in Builders, BuildStep(b), ~LookForCluster(b)
  PROVE  \E ctx \in BuilderLocals :
           /\ builder' = [builder EXCEPT ![b] = ctx]
           /\ ServerKnown(ctx) /\ Commanded(ctx) /\ ctx.manifest = builder[b].manifest
           /\ \/ /\ Resolve(b) /\ ctx.at = "pgxs"
                 /\ ctx.pg_config \in PgConfigs(b) \ {None}
              \/ /\ ctx.pg_config = builder[b].pg_config
                 /\ ctx.at \in Resolved => builder[b].at \in Resolved
<1>0. builder \in [Builders -> BuilderLocals] /\ builder[b] \in BuilderLocals
      /\ ServerKnown(builder[b]) /\ Commanded(builder[b])
  BY DEF BuildTyped, BuildTypeOK, BuilderLocals
<1>1. ASSUME NEW step \in BuildSteps \ {"start", "pgxs"}, BuilderGoto(b, step),
             step \in Resolved => builder[b].at \in Resolved, builder[b].manifest \in Manifests
      PROVE  \E ctx \in BuilderLocals :
               /\ builder' = [builder EXCEPT ![b] = ctx]
               /\ ServerKnown(ctx) /\ Commanded(ctx) /\ ctx.manifest = builder[b].manifest
               /\ ctx.pg_config = builder[b].pg_config
               /\ ctx.at \in Resolved => builder[b].at \in Resolved
  <2> DEFINE ctx == BuilderOnward(b, step)
  <2>1. ctx \in BuilderLocals /\ ctx.at = step /\ ctx.pg_config = builder[b].pg_config
        /\ ctx.manifest = builder[b].manifest
    BY <1>0 DEF BuilderOnward, BuilderLocals
  <2>2. builder' = [builder EXCEPT ![b] = ctx]
    BY <1>0, <1>1 DEF BuilderGoto, BuilderOnward, BuilderLocals
  <2> HIDE DEF ctx
  <2> QED BY <1>0, <1>1, <2>1, <2>2 DEF ServerKnown, Commanded
<1>2. ASSUME NEW server \in PgConfigs(b) \ {None}, Resolve(b), server \in Servers,
             builder' = [builder EXCEPT ![b].at = "pgxs", ![b].pg_config = server]
      PROVE  \E ctx \in BuilderLocals :
               /\ builder' = [builder EXCEPT ![b] = ctx]
               /\ ServerKnown(ctx) /\ Commanded(ctx) /\ ctx.manifest = builder[b].manifest
               /\ Resolve(b) /\ ctx.at = "pgxs" /\ ctx.pg_config \in PgConfigs(b) \ {None}
  <2> DEFINE ctx == Choosing(b, server)
  <2>1. ctx \in BuilderLocals /\ ctx.at = "pgxs" /\ ctx.pg_config = server
        /\ ctx.manifest = builder[b].manifest
    BY <1>0, <1>2 DEF Choosing, BuilderLocals, BuildSteps
  <2>2. builder' = [builder EXCEPT ![b] = ctx]
    BY <1>0, <1>2 DEF Choosing, BuilderLocals
  <2>3. builder[b].manifest \in Manifests
    BY <1>0, <1>2 DEF Resolve, BuilderAt, Commanded
  <2> HIDE DEF ctx
  <2> QED BY <1>2, <2>1, <2>2, <2>3 DEF ServerKnown, Commanded
<1>3. PgConfigs(b) \ {None} \subseteq Servers
  BY BuildAssumption DEF BuildAssumption, PgConfigs, UsableServers
<1>4. CASE BeginBuild(b)
  <2>1. \E step \in {"skipped", "failed", "resolve"} : BuilderGoto(b, step)
    BY <1>4 DEF BeginBuild
  <2>2. builder[b].manifest \in Manifests
    BY <1>0, <1>4 DEF BeginBuild, BuilderLocals
  <2> QED BY <1>1, <2>1, <2>2 DEF BuildSteps, Resolved
<1>5. CASE Resolve(b)
  <2>1. CASE BuilderGoto(b, "failed")
    <3>1. builder[b].manifest \in Manifests
      BY <1>0, <1>5 DEF Resolve, BuilderAt, Commanded
    <3> QED BY <1>1, <2>1, <3>1 DEF BuildSteps, Resolved
  <2> QED BY <1>2, <1>3, <1>5, <2>1 DEF Resolve
<1>6. CASE Pgxs(b) \/ Clean(b) \/ CleanFails(b) \/ Compile(b) \/ Link(b) \/ MakeFails(b)
           \/ CheckArtifact(b)
  <2>1. \E step \in {"clean", "failed", "compile", "link", "artifact", "ok"} : BuilderGoto(b, step)
    BY <1>6 DEF Pgxs, Clean, CleanFails, Compile, Link, MakeFails, CheckArtifact
  <2>2. builder[b].at \in {"pgxs", "clean", "compile", "link", "artifact"}
    BY <1>6 DEF Pgxs, Clean, CleanFails, Compile, Link, MakeFails, CheckArtifact, BuilderAt
  <2> QED BY <1>0, <1>1, <2>1, <2>2 DEF BuildSteps, Resolved, Commanded
<1> QED BY <1>4, <1>5, <1>6 DEF BuildStep

LEMMA BuildNextTyped ==
  ASSUME Typed, BuildTyped, [BuildNext]_vars
  PROVE  BuildTyped'
<1>0. BuildTypeOK /\ TypeOK'
  BY BuildRefines, NextTyped DEF BuildTyped, Typed
<1>1. ASSUME NEW b \in Builders, BuildStep(b), ~LookForCluster(b)
      PROVE  BuildTyped'
  <2>1. PICK ctx \in BuilderLocals :
          builder' = [builder EXCEPT ![b] = ctx] /\ ServerKnown(ctx) /\ Commanded(ctx)
    BY <1>1, BuilderSteps
  <2>2. \A c \in Builders : builder'[c] = IF c = b THEN ctx ELSE builder[c]
    BY <1>0, <2>1 DEF BuildTypeOK
  <2>3. \A c \in Builders : ServerKnown(builder'[c]) /\ Commanded(builder'[c])
    BY <2>1, <2>2 DEF BuildTyped
  <2>4. builder' \in [Builders -> BuilderLocals]
    BY <1>0, <2>1 DEF BuildTypeOK, BuilderLocals
  <2>5. object' \in Binaries \union {None} /\ library' \in Binaries \union {None}
        /\ source' \in Nat /\ outdated' \subseteq {"object", "library"}
    <3>1. CASE Compile(b)
      <4>1. builder[b].pg_config \in Servers
        BY <3>1 DEF BuildTyped, ServerKnown, Resolved, Compile, BuilderAt
      <4>2. [version |-> source, server |-> builder[b].pg_config] \in Binaries
        BY <1>0, <4>1 DEF BuildTypeOK, Binaries
      <4>3. object' = object \/ object' = [version |-> source, server |-> builder[b].pg_config]
        BY <3>1 DEF Compile
      <4>4. UNCHANGED <<source, library>> /\ (outdated' = outdated \/ outdated' = {"library"})
        BY <3>1 DEF Compile
      <4> QED BY <1>0, <4>2, <4>3, <4>4 DEF BuildTypeOK
    <3>2. CASE ~Compile(b)
      BY <1>0, <1>1, <3>2 DEF BuildTypeOK, BuildStep, BeginBuild, Resolve, Pgxs, Clean, CleanFails,
                              Link, MakeFails, CheckArtifact, folder
    <3> QED BY <3>1, <3>2
  <2>6. alone' \subseteq Builders /\ mishaps' \in Nat
    BY <1>0, <1>1 DEF BuildTypeOK, BuildStep, BeginBuild, Resolve, Pgxs, Clean, CleanFails,
                      Compile, Link, MakeFails, CheckArtifact, Mishap
  <2> QED BY <1>0, <2>3, <2>4, <2>5, <2>6 DEF BuildTyped, BuildTypeOK, BuilderLocals, ServerKnown,
                                              Commanded
<1>2. CASE EditSource
  BY <1>0, <1>2 DEF EditSource, Mishap, BuildTyped, BuildTypeOK, ServerKnown, Commanded
<1>3. CASE UNCHANGED buildVars
  BY <1>0, <1>3 DEF buildVars, folder, BuildTyped, BuildTypeOK, ServerKnown, Commanded
<1> QED BY <1>1, <1>2, <1>3 DEF BuildNext, InitNext, LookForCluster, vars

\* The variables of the composition keep their types.
THEOREM BuildTypeCorrect == BuildSpec => []BuildTypeOK
<1>1. BuildSpec => []Typed
  BY BuildsOnlyRead, InitTyped, NextTyped, PTL DEF Spec
<1>2. BuildTyped => BuildTypeOK
  BY DEF BuildTyped
<1> QED BY <1>1, <1>2, BuildInitTyped, BuildNextTyped, PTL DEF BuildSpec

----------------------------------------------------------------------------
(* What a build has read.                                                  *)

\* What a command has loaded is what the file holds, unless it has been opened since.
FreshRead ==
  \A r \in Readers :
    reader[r].at = "loaded" /\ opened \subseteq reader[r].after =>
      reader[r].config = file[reader[r].place]

LEMMA NextFreshRead ==
  ASSUME Typed, Effective, FreshRead, [Next]_clusterVars
  PROVE  FreshRead'
<1>0. reader \in [Readers -> ReaderLocals]
  BY DEF Typed, TypeOK, ReaderLocals
<1>1. ASSUME NEW i \in Inits, Open(i) \/ Write(i) PROVE FreshRead'
  <2>1. i \in opened' /\ reader' = reader /\ ~At(i, "done")
    BY <1>1, Begins, InitStepElse DEF InitStep, Open, Write, At
  <2>2. \A r \in Readers : i \notin reader'[r].after
    BY <2>1 DEF Effective, Successors
  <2> QED BY <2>1, <2>2 DEF FreshRead
<1>2. ASSUME NEW i \in Inits, InitStep(i) \/ Kill(i), ~Open(i), ~Write(i) PROVE FreshRead'
  <2>1. reader' = reader /\ file' = file /\ opened' = opened
    BY <1>2, OtherPlaces, InitStepElse DEF Kill
  <2> QED BY <2>1 DEF FreshRead
<1>3. ASSUME NEW r \in Readers, Find(r) \/ Load(r) PROVE FreshRead'
  <2>1. PICK ctx \in ReaderLocals :
          /\ reader' = [reader EXCEPT ![r] = ctx]
          /\ ctx.at = "loaded" => ctx = Taking(r)
    <3>1. reader[r] \in ReaderLocals
      BY <1>0
    <3>2. Missed(r).at = "missing" /\ Rejecting(r).at = "rejected"
          /\ \A p : Spotted(r, p).at = "load"
      BY <3>1 DEF Missed, Spotted, Rejecting, ReaderLocals
    <3> QED BY <1>3, <3>2, ReaderSteps DEF Typed
  <2>2. ctx.at = "loaded" => ctx.config = file[ctx.place]
    BY <1>0, <2>1 DEF Taking, ReaderLocals
  <2>3. \A q \in Readers : reader'[q] = IF q = r THEN ctx ELSE reader[q]
    BY <1>0, <2>1
  <2>4. file' = file /\ opened' = opened
    BY <1>3 DEF Find, Load, Looking
  <2> QED BY <2>2, <2>3, <2>4 DEF FreshRead
<1>4. CASE UNCHANGED <<reader, file, opened>>
  BY <1>4 DEF FreshRead
<1> QED BY <1>1, <1>2, <1>3, <1>4 DEF Next, clusterVars, Resize

\* A build that has resolved its server has not read the configuration anew.
ResolvedWell == \A b \in Builders : builder[b].at \in Resolved => builder[b].pg_config \in PgConfigs(b)

LEMMA NextResolved ==
  ASSUME Typed, BuildTyped, ResolvedWell, [BuildNext]_vars
  PROVE  ResolvedWell'
<1>0. builder \in [Builders -> BuilderLocals]
  BY DEF BuildTyped, BuildTypeOK, BuilderLocals
<1>1. ASSUME NEW b \in Builders, builder'[b] = builder[b],
             reader'[b] = reader[b] \/ builder[b].at \notin Resolved
      PROVE  (builder[b].at \in Resolved => builder[b].pg_config \in PgConfigs(b))'
  BY <1>1 DEF ResolvedWell, PgConfigs
<1>2. ASSUME NEW c \in Builders, LookForCluster(c) PROVE ResolvedWell'
  <2>1. builder' = builder /\ builder[c].at \notin Resolved
    BY <1>2 DEF LookForCluster, buildVars, BuilderAt, Resolved
  <2>2. PICK ctx \in ReaderLocals : reader' = [reader EXCEPT ![c] = ctx]
    BY <1>2, ReaderSteps DEF LookForCluster, Builders, Typed
  <2>3. \A b \in Builders : b # c => reader'[b] = reader[b]
    BY <2>2 DEF Typed, TypeOK, Builders
  <2> QED BY <1>1, <2>1, <2>3 DEF ResolvedWell
<1>3. ASSUME NEW c \in Builders, BuildStep(c), ~LookForCluster(c) PROVE ResolvedWell'
  <2>1. PICK ctx \in BuilderLocals :
          /\ builder' = [builder EXCEPT ![c] = ctx]
          /\ ctx.manifest = builder[c].manifest
          /\ ctx.at \in Resolved => \/ ctx.pg_config \in PgConfigs(c)
                                   \/ /\ ctx.pg_config = builder[c].pg_config
                                      /\ builder[c].at \in Resolved
    BY <1>3, BuilderSteps
  <2>2. ctx.at \in Resolved => ctx.pg_config \in PgConfigs(c)
    BY <2>1 DEF ResolvedWell
  <2>3. reader' = reader
    BY <1>3, BuildStepsAreReads DEF clusterVars
  <2>4. \A b \in Builders : builder'[b] = IF b = c THEN ctx ELSE builder[b]
    BY <1>0, <2>1
  <2>5. (builder[c].at \in Resolved => builder[c].pg_config \in PgConfigs(c))'
    BY <2>1, <2>2, <2>3, <2>4 DEF PgConfigs
  <2> QED BY <1>1, <2>3, <2>4, <2>5 DEF ResolvedWell
<1>4. CASE UNCHANGED <<builder, reader>>
  BY <1>1, <1>4 DEF ResolvedWell
<1>5. ASSUME NEW i \in Inits, InitStep(i) PROVE reader' = reader
  BY <1>5, InitStepElse
<1> QED BY <1>2, <1>3, <1>4, <1>5
        DEF BuildNext, InitNext, EditSource, Kill, Resize, vars, clusterVars, buildVars

----------------------------------------------------------------------------
(* What a build that nobody has disturbed has made.                        *)

Wanted(b) == [version |-> source, server |-> builder[b].pg_config]

Made(b) ==
  /\ builder[b].at = "compile" => object = None /\ library = None
  /\ builder[b].at = "link" => object = Wanted(b) /\ library = None
  /\ builder[b].at \in {"artifact", "ok"} => library = Wanted(b)

AloneMakes == \A b \in alone : Running \subseteq {b} /\ Made(b)

LEMMA BuilderPlace ==
  ASSUME BuildTyped, NEW b \in Builders, NEW step, BuilderGoto(b, step)
  PROVE  /\ builder'[b].at = step /\ builder'[b].pg_config = builder[b].pg_config
         /\ \A c \in Builders : c # b => builder'[c] = builder[c]
<1>0. builder \in [Builders -> BuilderLocals] /\ builder[b] \in BuilderLocals
  BY DEF BuildTyped, BuildTypeOK, BuilderLocals
<1>1. BuilderOnward(b, step).at = step /\ BuilderOnward(b, step).pg_config = builder[b].pg_config
  BY <1>0 DEF BuilderOnward, BuilderLocals
<1>2. builder' = [builder EXCEPT ![b] = BuilderOnward(b, step)]
  BY <1>0 DEF BuilderGoto, BuilderOnward, BuilderLocals
<1> QED BY <1>0, <1>1, <1>2

\* The step of a running build makes what it wants.
LEMMA RunningMakes ==
  ASSUME BuildTyped, AloneMakes, NEW b \in alone, b \in alone', BuildStep(b), ~BeginBuild(b),
         ~LookForCluster(b)
  PROVE  Made(b)'
<1>0. b \in Builders
  BY DEF BuildTyped, BuildTypeOK
<1>1. CASE Resolve(b)
  <2>1. PICK ctx \in BuilderLocals :
          builder' = [builder EXCEPT ![b] = ctx] /\ ctx.at \in {"pgxs", "failed"}
    <3>1. CASE BuilderGoto(b, "failed")
      <4>1. builder'[b].at = "failed"
        BY <1>0, <3>1, BuilderPlace
      <4> QED BY <1>0, <1>1, <4>1, BuilderSteps DEF BuildTyped, BuildTypeOK, Resolve, BuilderAt,
                 LookForCluster
    <3>2. CASE ~BuilderGoto(b, "failed")
      <4>1. PICK server : builder' = [builder EXCEPT ![b].at = "pgxs", ![b].pg_config = server]
        BY <1>1, <3>2 DEF Resolve
      <4>2. builder'[b].at = "pgxs"
        BY <1>0, <4>1 DEF BuildTyped, BuildTypeOK
      <4> QED BY <1>0, <1>1, <4>2, BuilderSteps DEF BuildTyped, BuildTypeOK
    <3> QED BY <3>1, <3>2
  <2>2. builder'[b].at \in {"pgxs", "failed"}
    BY <1>0, <2>1 DEF BuildTyped, BuildTypeOK
  <2> QED BY <2>2 DEF Made
<1>2. CASE Pgxs(b) \/ MakeFails(b)
  <2>1. builder'[b].at \in {"clean", "failed"}
    BY <1>0, <1>2, BuilderPlace DEF Pgxs, MakeFails
  <2> QED BY <2>1 DEF Made
<1>3. CASE Clean(b)
  <2>1. builder'[b].at = "compile"
    BY <1>0, <1>3, BuilderPlace DEF Clean
  <2> QED BY <1>3, <2>1 DEF Clean, Made
<1>4. CASE CleanFails(b)
  BY <1>4 DEF CleanFails
<1>5. CASE Compile(b)
  <2>1. builder'[b].at = "link" /\ builder'[b].pg_config = builder[b].pg_config
    BY <1>0, <1>5, BuilderPlace DEF Compile
  <2>2. object = None /\ library = None
    BY <1>5 DEF Compile, BuilderAt, AloneMakes, Made
  <2> QED BY <1>5, <2>1, <2>2 DEF Compile, Made, Wanted
<1>6. CASE Link(b)
  <2>1. object = Wanted(b) /\ library = None
    BY <1>6 DEF Link, BuilderAt, AloneMakes, Made
  <2>2. object # None
    <3>1. builder[b].pg_config \in Servers /\ source \in Nat
      BY <1>0, <1>6 DEF Link, BuilderAt, BuildTyped, BuildTypeOK, ServerKnown, Resolved
    <3>2. Wanted(b) \in Binaries
      BY <3>1 DEF Wanted, Binaries
    <3> QED BY <2>1, <3>2, BuildAssumption DEF BuildAssumption
  <2>3. BuilderGoto(b, "artifact") /\ library' = object /\ source' = source
    BY <1>6, <2>1, <2>2 DEF Link
  <2>4. builder'[b].at = "artifact" /\ builder'[b].pg_config = builder[b].pg_config
    BY <1>0, <2>3, BuilderPlace
  <2> QED BY <2>1, <2>3, <2>4 DEF Made, Wanted
<1>7. CASE CheckArtifact(b)
  <2>1. library = Wanted(b) /\ UNCHANGED <<library, source>>
    BY <1>7 DEF CheckArtifact, BuilderAt, AloneMakes, Made, folder
  <2>2. builder'[b].at \in {"failed", "ok"} /\ builder'[b].pg_config = builder[b].pg_config
    BY <1>0, <1>7, BuilderPlace DEF CheckArtifact
  <2> QED BY <2>1, <2>2 DEF Made, Wanted
<1> QED BY <1>1, <1>2, <1>3, <1>4, <1>5, <1>6, <1>7 DEF BuildStep

LEMMA NextAlone ==
  ASSUME BuildTyped, AloneMakes, [BuildNext]_vars
  PROVE  AloneMakes'
<1>0. builder \in [Builders -> BuilderLocals] /\ alone \subseteq Builders
  BY DEF BuildTyped, BuildTypeOK, BuilderLocals
<1>1. ASSUME NEW c \in Builders, BeginBuild(c) PROVE AloneMakes'
  <2>1. builder'[c].at \in {"skipped", "failed", "resolve"}
        /\ \A b \in Builders : b # c => builder'[b] = builder[b]
    BY <1>1, BuilderPlace DEF BeginBuild
  <2>2. ASSUME NEW b \in alone' PROVE b = c /\ Running = {}
    BY <1>1, <2>2 DEF BeginBuild
  <2>3. Running = {} => Running' \subseteq {c}
    BY <2>1 DEF Running
  <2>4. Made(c)'
    BY <2>1 DEF Made
  <2> QED BY <2>2, <2>3, <2>4 DEF AloneMakes
<1>2. ASSUME NEW c \in Builders, BuildStep(c), ~BeginBuild(c), ~LookForCluster(c)
      PROVE  AloneMakes'
  <2>1. c \in Running /\ alone' \subseteq alone
    BY <1>2 DEF BuildStep, Resolve, Pgxs, Clean, CleanFails, Compile, Link, MakeFails,
                CheckArtifact, BuilderAt, Running
  <2>2. \A b \in Builders : b # c => builder'[b] = builder[b]
    BY <1>0, <1>2, BuilderSteps
  <2>3. Running' \subseteq Running
    BY <2>1, <2>2 DEF Running
  <2>4. ASSUME NEW b \in alone' PROVE (Running \subseteq {b})' /\ Made(b)'
    <3>1. b \in alone /\ b = c /\ Running \subseteq {b}
      BY <2>1, <2>4 DEF AloneMakes
    <3> QED BY <1>2, <2>3, <2>4, <3>1, RunningMakes
  <2> QED BY <2>4 DEF AloneMakes
<1>3. CASE EditSource
  BY <1>3 DEF EditSource, AloneMakes
<1>4. CASE UNCHANGED buildVars
  BY <1>4 DEF buildVars, folder, AloneMakes, Running, Made, Wanted
<1> QED BY <1>1, <1>2, <1>3, <1>4 DEF BuildNext, InitNext, LookForCluster, vars

\* A build that says it is completed, and that nobody has disturbed, has made the library of
\* the present sources for the server that cluster.toml describes (GoodBuildIsFresh).
THEOREM GoodBuildFresh == BuildSpec => []GoodBuildIsFresh
<1> DEFINE IInv == BuildTyped /\ FreshRead /\ ResolvedWell /\ AloneMakes
<1>1. BuildSpec => [](Typed /\ Effective)
  BY BuildsOnlyRead, InitTyped, NextTyped, InitWhole, NextWhole, InitEffects, NextEffective, PTL
     DEF Spec
<1>2. BuildInit => IInv
  BY BuildInitTyped DEF BuildInit, Init, FreshRead, ResolvedWell, Resolved, AloneMakes
<1>3. IInv /\ Typed /\ Effective /\ [BuildNext]_vars => IInv'
  BY BuildNextTyped, BuildRefines, NextFreshRead, NextResolved, NextAlone
<1>4. IInv => GoodBuildIsFresh
  <2> SUFFICES ASSUME IInv, NEW b \in alone, BuilderAt(b, "ok")
               PROVE  /\ library = Wanted(b)
                      /\ \A s \in Servers : ClusterNamed(b, s) => library.server = s
    BY DEF GoodBuildIsFresh, Wanted
  <2>1. library = Wanted(b) /\ b \in Builders
    BY DEF AloneMakes, Made, BuilderAt, BuildTyped, BuildTypeOK
  <2>2. ASSUME NEW s \in Servers, ClusterNamed(b, s) PROVE builder[b].pg_config = s
    <3>1. reader[b].config = file[reader[b].place]
      BY <2>1, <2>2 DEF FreshRead, ClusterNamed, Builders
    <3>2. PgConfigs(b) = {s}
      BY <2>2, <3>1 DEF ClusterNamed, PgConfigs
    <3> QED BY <2>1, <3>2 DEF ResolvedWell, Resolved, BuilderAt
  <2> QED BY <2>1, <2>2 DEF Wanted
<1> QED BY <1>1, <1>2, <1>3, <1>4, PTL DEF BuildSpec

----------------------------------------------------------------------------
(* A build comes to an end.                                                *)

BuildEnded == {"skipped", "ok", "failed"}

\* The steps before it ends, at most, but for the search for cluster.toml.
PlacesLeft(at) ==
  CASE at = "start" -> 7
    [] at = "resolve" -> 6
    [] at = "pgxs" -> 5
    [] at = "clean" -> 4
    [] at = "compile" -> 3
    [] at = "link" -> 2
    [] at = "artifact" -> 1
    [] OTHER -> 0

\* The search is only of use before pg_config is resolved.
LooksLeft(at, look) ==
  IF at \notin {"start", "resolve"} THEN 0
  ELSE CASE look = "start" -> 2 [] look = "load" -> 1 [] OTHER -> 0

BuildLeft(b) == PlacesLeft(builder[b].at) + LooksLeft(builder[b].at, reader[b].at)

BuildStepsCount ==
  \A b \in Builders :
    /\ BuildLeft(b)' <= BuildLeft(b)
    /\ BuildStep(b) => BuildLeft(b)' < BuildLeft(b)

BuildLeftUntilEnded ==
  \A b \in Builders :
    BuildLeft(b) \in 0 .. 9 /\ (BuildLeft(b) = 0 <=> builder[b].at \in BuildEnded)

LEMMA PlacesLeftAt ==
  /\ PlacesLeft("start") = 7 /\ PlacesLeft("resolve") = 6 /\ PlacesLeft("pgxs") = 5
  /\ PlacesLeft("clean") = 4 /\ PlacesLeft("compile") = 3 /\ PlacesLeft("link") = 2
  /\ PlacesLeft("artifact") = 1
  /\ \A at \in BuildEnded : PlacesLeft(at) = 0
BY DEF PlacesLeft, BuildEnded

LEMMA LooksLeftAt ==
  ASSUME NEW at
  PROVE  /\ at \notin {"start", "resolve"} => \A look : LooksLeft(at, look) = 0
         /\ at \in {"start", "resolve"} =>
              /\ LooksLeft(at, "start") = 2 /\ LooksLeft(at, "load") = 1
              /\ \A look \in {"loaded", "rejected", "missing"} : LooksLeft(at, look) = 0
         /\ \A look : LooksLeft(at, look) \in {0, 1, 2}
BY DEF LooksLeft

LEMMA PlacesDescend ==
  ASSUME BuildTyped, NEW b \in Builders, BuildStep(b), ~LookForCluster(b)
  PROVE  /\ reader' = reader
         /\ PlacesLeft(builder'[b].at) < PlacesLeft(builder[b].at)
         /\ builder'[b].at \in {"start", "resolve"} => builder[b].at \in {"start", "resolve"}
<1>0. builder \in [Builders -> BuilderLocals]
  BY DEF BuildTyped, BuildTypeOK, BuilderLocals
<1>1. reader' = reader
  BY BuildStepsAreReads DEF clusterVars
<1>2. ASSUME NEW step, BuilderGoto(b, step) PROVE builder'[b].at = step
  BY <1>0, <1>2 DEF BuilderGoto, BuilderLocals
<1>3. CASE BeginBuild(b)
  <2>1. builder[b].at = "start" /\ \E step \in {"skipped", "failed", "resolve"} : BuilderGoto(b, step)
    BY <1>3 DEF BeginBuild, BuilderAt
  <2>2. builder'[b].at \in {"skipped", "failed", "resolve"}
    BY <1>2, <2>1
  <2> QED BY <1>1, <2>1, <2>2, PlacesLeftAt DEF BuildEnded
<1>4. CASE Resolve(b)
  <2>1. builder[b].at = "resolve" /\ builder'[b].at \in {"pgxs", "failed"}
    BY <1>0, <1>2, <1>4 DEF Resolve, BuilderAt, BuilderLocals
  <2> QED BY <1>1, <2>1, PlacesLeftAt DEF BuildEnded
<1>5. CASE Pgxs(b) \/ Clean(b) \/ CleanFails(b) \/ Compile(b)
  <2>1. \/ builder[b].at = "pgxs" /\ \E step \in {"clean", "failed"} : BuilderGoto(b, step)
        \/ builder[b].at = "clean" /\ BuilderGoto(b, "compile")
        \/ builder[b].at = "compile" /\ BuilderGoto(b, "link")
    BY <1>5 DEF Pgxs, Clean, CleanFails, Compile, BuilderAt
  <2>2. <<builder[b].at, builder'[b].at>> \in
          {<<"pgxs", "clean">>, <<"pgxs", "failed">>, <<"clean", "compile">>, <<"compile", "link">>}
    BY <1>2, <2>1
  <2> QED BY <1>1, <2>2, PlacesLeftAt DEF BuildEnded
<1>6. CASE Link(b) \/ MakeFails(b) \/ CheckArtifact(b)
  <2>1. \/ /\ builder[b].at = "link"
           /\ \E step \in {"artifact", "failed"} : BuilderGoto(b, step)
        \/ builder[b].at = "compile" /\ BuilderGoto(b, "failed")
        \/ /\ builder[b].at = "artifact"
           /\ \E step \in {"ok", "failed"} : BuilderGoto(b, step)
    BY <1>6 DEF Link, MakeFails, CheckArtifact, BuilderAt
  <2>2. <<builder[b].at, builder'[b].at>> \in
          {<<"link", "artifact">>, <<"link", "failed">>, <<"compile", "failed">>,
           <<"artifact", "ok">>, <<"artifact", "failed">>}
    BY <1>2, <2>1
  <2> QED BY <1>1, <2>2, PlacesLeftAt DEF BuildEnded
<1> QED BY <1>3, <1>4, <1>5, <1>6 DEF BuildStep

\* A search is one look for the files, and one into the file that is there.
LEMMA LooksDescend ==
  ASSUME BuildTyped, NEW b \in Builders, LookForCluster(b)
  PROVE  /\ builder' = builder /\ builder[b].at = "resolve"
         /\ \A c \in Builders \ {b} : reader'[c] = reader[c]
         /\ <<reader[b].at, reader'[b].at>> \in
              {<<"start", "missing">>, <<"start", "load">>, <<"load", "rejected">>,
               <<"load", "loaded">>}
<1>0. reader \in [Builders -> ReaderLocals] /\ reader[b] \in ReaderLocals
  BY DEF BuildTyped, BuildTypeOK, TypeOK, ReaderLocals, Builders
<1>1. builder' = builder /\ builder[b].at = "resolve" /\ (Find(b) \/ Load(b))
  BY DEF LookForCluster, buildVars, BuilderAt
<1>2. PICK ctx \in ReaderLocals :
        /\ reader' = [reader EXCEPT ![b] = ctx]
        /\ \/ /\ reader[b].at = "start"
              /\ ctx = Missed(b) \/ \E p \in FoundAt : ctx = Spotted(b, p)
           \/ /\ reader[b].at = "load"
              /\ ctx = Rejecting(b) \/ ctx = Taking(b)
  BY <1>1, ReaderSteps DEF Builders, BuildTyped, BuildTypeOK
<1>3. /\ Missed(b).at = "missing" /\ Rejecting(b).at = "rejected" /\ Taking(b).at = "loaded"
      /\ \A p : Spotted(b, p).at = "load"
  BY <1>0 DEF Missed, Spotted, Rejecting, Taking, ReaderLocals
<1>4. reader'[b] = ctx /\ \A c \in Builders \ {b} : reader'[c] = reader[c]
  BY <1>0, <1>2 DEF Builders
<1> QED BY <1>1, <1>2, <1>3, <1>4

LEMMA BuildLeftCounted ==
  ASSUME BuildTyped, NEW b \in Builders
  PROVE  BuildLeft(b) \in 0 .. 9 /\ (BuildLeft(b) = 0 <=> builder[b].at \in BuildEnded)
<1>1. builder[b].at \in BuildSteps
  BY DEF BuildTyped, BuildTypeOK
<1>2. LooksLeft(builder[b].at, reader[b].at) \in {0, 1, 2}
  BY LooksLeftAt
<1>3. builder[b].at \in BuildEnded => LooksLeft(builder[b].at, reader[b].at) = 0
  BY LooksLeftAt DEF BuildEnded
<1>4. CASE builder[b].at \in BuildEnded
  BY <1>3, <1>4, PlacesLeftAt DEF BuildLeft
<1>5. CASE builder[b].at \in {"start", "resolve", "pgxs", "clean", "compile", "link", "artifact"}
  <2>1. PlacesLeft(builder[b].at) \in 1 .. 7 /\ builder[b].at \notin BuildEnded
    BY <1>5, PlacesLeftAt DEF BuildEnded
  <2> QED BY <1>2, <2>1 DEF BuildLeft
<1> QED BY <1>1, <1>4, <1>5 DEF BuildSteps, BuildEnded

LEMMA BuildLeftShrinks ==
  ASSUME BuildTyped, NEW b \in Builders, BuildStep(b)
  PROVE  BuildLeft(b)' < BuildLeft(b)
<1>1. BuildLeft(b)' = PlacesLeft(builder'[b].at) + LooksLeft(builder'[b].at, reader'[b].at)
  BY DEF BuildLeft, PlacesLeft, LooksLeft
<1>2. \A at \in BuildSteps : PlacesLeft(at) \in 0 .. 7
  BY PlacesLeftAt DEF BuildSteps, BuildEnded
<1>3. builder[b].at \in BuildSteps
  BY DEF BuildTyped, BuildTypeOK
<1>4. CASE LookForCluster(b)
  <2>1. LooksLeft("resolve", reader'[b].at) < LooksLeft("resolve", reader[b].at)
        /\ LooksLeft("resolve", reader'[b].at) \in {0, 1, 2}
        /\ LooksLeft("resolve", reader[b].at) \in {0, 1, 2}
    BY <1>4, LooksDescend, LooksLeftAt
  <2>2. builder'[b].at = "resolve" /\ builder[b].at = "resolve"
    BY <1>4, LooksDescend
  <2> QED BY <1>1, <2>1, <2>2, PlacesLeftAt DEF BuildLeft
<1>5. CASE ~LookForCluster(b)
  <2> DEFINE now == LooksLeft(builder[b].at, reader[b].at)
             then == LooksLeft(builder'[b].at, reader'[b].at)
             before == PlacesLeft(builder[b].at)
             after == PlacesLeft(builder'[b].at)
  <2>1. after < before /\ then <= now /\ then \in {0, 1, 2} /\ now \in {0, 1, 2}
    <3>1. CASE builder'[b].at \in {"start", "resolve"}
      <4>1. then = now
        BY <1>5, <3>1, PlacesDescend DEF LooksLeft
      <4> QED BY <1>5, <4>1, PlacesDescend, LooksLeftAt
    <3>2. CASE builder'[b].at \notin {"start", "resolve"}
      BY <1>5, <3>2, PlacesDescend, LooksLeftAt
    <3> QED BY <3>1, <3>2
  <2>2. before \in 0 .. 7 /\ after \in Int
    <3>1. builder'[b].at \in BuildSteps
      BY <1>5, BuilderSteps DEF BuildTyped, BuildTypeOK, BuilderLocals
    <3> QED BY <1>2, <1>3, <3>1
  <2>3. BuildLeft(b) = before + now /\ BuildLeft(b)' = after + then
    BY <1>1 DEF BuildLeft
  <2> HIDE DEF now, then, before, after
  <2> QED BY <2>1, <2>2, <2>3
<1> QED BY <1>4, <1>5

\* Whatever other builds, inits and editors do and whatever fails, a build takes at most
\* nine steps before it says that it is completed, skipped or failed (build_plugin).
THEOREM BuildsComeToEnd == BuildSpec => [][BuildStepsCount]_vars /\ []BuildLeftUntilEnded
<1>1. BuildSpec => []Typed
  BY BuildsOnlyRead, InitTyped, NextTyped, PTL DEF Spec
<1>2. BuildTyped => BuildLeftUntilEnded
  BY BuildLeftCounted DEF BuildLeftUntilEnded
<1>3. Typed /\ BuildTyped /\ [BuildNext]_vars => [BuildStepsCount]_vars
  <2> SUFFICES ASSUME Typed, BuildTyped, [BuildNext]_vars, NEW b \in Builders
               PROVE  BuildLeft(b)' <= BuildLeft(b) /\ (BuildStep(b) => BuildLeft(b)' < BuildLeft(b))
    BY DEF BuildStepsCount
  <2>0. BuildLeft(b) \in Nat
    BY BuildLeftCounted
  <2>1. BuildLeft(b)' = PlacesLeft(builder'[b].at) + LooksLeft(builder'[b].at, reader'[b].at)
    BY DEF BuildLeft, PlacesLeft, LooksLeft
  <2>2. CASE BuildStep(b)
    <3>1. BuildLeft(b)' < BuildLeft(b)
      BY <2>2, BuildLeftShrinks
    <3>2. BuildLeft(b)' \in Int
      <4>1. builder'[b].at \in BuildSteps
        <5>1. CASE LookForCluster(b)
          BY <5>1, LooksDescend DEF BuildSteps
        <5>2. CASE ~LookForCluster(b)
          BY <2>2, <5>2, BuilderSteps DEF BuildTyped, BuildTypeOK, BuilderLocals
        <5> QED BY <5>1, <5>2
      <4>2. PlacesLeft(builder'[b].at) \in 0 .. 7
        BY <4>1, PlacesLeftAt DEF BuildSteps, BuildEnded
      <4>3. LooksLeft(builder'[b].at, reader'[b].at) \in {0, 1, 2}
        BY LooksLeftAt
      <4> QED BY <2>1, <4>2, <4>3
    <3> QED BY <2>0, <3>1, <3>2
  <2>3. CASE ~BuildStep(b)
    <3>1. builder'[b] = builder[b] /\ reader'[b] = reader[b]
      <4>1. CASE \E c \in Builders : BuildStep(c)
        <5>1. PICK c \in Builders \ {b} : BuildStep(c)
          BY <2>3, <4>1
        <5>2. CASE LookForCluster(c)
          BY <5>1, <5>2, LooksDescend
        <5>3. CASE ~LookForCluster(c)
          BY <5>1, <5>3, BuilderSteps, PlacesDescend DEF BuildTyped, BuildTypeOK
        <5> QED BY <5>2, <5>3
      <4>2. CASE InitNext
        <5>1. builder' = builder
          BY <4>2 DEF InitNext, buildVars
        <5>2. reader' = reader
          BY <4>2, InitStepElse DEF InitNext, Kill, Resize
        <5> QED BY <5>1, <5>2
      <4>3. CASE EditSource \/ UNCHANGED vars
        BY <4>3 DEF EditSource, vars, buildVars, clusterVars
      <4> QED BY <4>1, <4>2, <4>3 DEF BuildNext
    <3>2. BuildLeft(b)' = BuildLeft(b)
      BY <2>1, <3>1 DEF BuildLeft
    <3> QED BY <2>0, <2>3, <3>2
  <2> QED BY <2>2, <2>3
<1> QED BY <1>1, <1>2, <1>3, BuildInitTyped, BuildNextTyped, PTL DEF BuildSpec

=============================================================================
