-------------------------- MODULE ClusterInit_proofs --------------------------
(***************************************************************************)
(* Theorems about ClusterInit, for any cluster, any two orders of the      *)
(* names, and any number of inits and readers.                             *)
(***************************************************************************)
EXTENDS ClusterInit, FiniteSetTheorems, WellFoundedInduction, TLAPS

Locals == [at : Steps, try : Nat, told : SUBSET Nodes, rows : SUBSET Nodes,
           nodes : Topologies]

----------------------------------------------------------------------------
(* The merge of two topologies.                                            *)

LEMMA OwnTyped == ASSUME NEW nodes \in SUBSET Nodes PROVE Own(nodes) \in Topologies
BY DEF Own, Topologies

LEMMA MergedTyped ==
  ASSUME NEW told \in SUBSET Nodes, NEW rows \in SUBSET Nodes
  PROVE  Merged(told, rows) \in Topologies
BY OwnTyped DEF Merged, Topologies

\* Nodes of one role have different places.
LEMMA PlacesDiffer ==
  ASSUME NEW nodes \in SUBSET Nodes, NEW n \in nodes, NEW m \in nodes,
         Role[n] = Role[m], CtlRank[n] < CtlRank[m]
  PROVE  Position(n, nodes, CtlRank) < Position(m, nodes, CtlRank)
<1> DEFINE Below(k) == {l \in OfRole(nodes, Role[k]) : CtlRank[l] < CtlRank[k]}
<1>1. Below(m) \subseteq Nodes /\ IsFiniteSet(Below(m))
  BY FS_Subset, ClusterInitAssumption DEF ClusterInitAssumption, OfRole
<1>2. Below(n) \subseteq Below(m)
  BY ClusterInitAssumption DEF ClusterInitAssumption, OfRole
<1>3. n \in Below(m) /\ n \notin Below(n)
  BY ClusterInitAssumption DEF ClusterInitAssumption, OfRole
<1>4. Cardinality(Below(n)) <= Cardinality(Below(m))
      /\ Cardinality(Below(n)) # Cardinality(Below(m)) /\ IsFiniteSet(Below(n))
  BY <1>1, <1>2, <1>3, FS_Subset
<1>5. Cardinality(Below(n)) \in Nat /\ Cardinality(Below(m)) \in Nat
  BY <1>1, <1>4, FS_CardinalityType
<1> QED BY <1>4, <1>5 DEF Position

\* Sorted alike, the two orders give each node one place.
LEMMA PlacesAgree ==
  ASSUME NamesAgree, NEW nodes \in SUBSET Nodes, NEW n \in nodes
  PROVE  Position(n, nodes, CtlRank) = Position(n, nodes, PgxcRank)
<1>1. {l \in OfRole(nodes, Role[n]) : CtlRank[l] < CtlRank[n]}
        = {l \in OfRole(nodes, Role[n]) : PgxcRank[l] < PgxcRank[n]}
  BY DEF NamesAgree, OfRole
<1> QED BY <1>1 DEF Position

LEMMA MergedAlike ==
  ASSUME NamesAgree, NEW nodes \in SUBSET Nodes
  PROVE  Merged(nodes, nodes) = Own(nodes)
<1>1. ASSUME NEW n \in nodes, NEW m \in nodes, Role[n] = Role[m],
             Position(n, nodes, CtlRank) = Position(m, nodes, PgxcRank)
      PROVE  n = m
  <2>1. Position(n, nodes, CtlRank) = Position(m, nodes, CtlRank)
    BY <1>1, PlacesAgree
  <2>2. ~(CtlRank[n] < CtlRank[m]) /\ ~(CtlRank[m] < CtlRank[n])
    <3>1. ASSUME NEW a \in nodes, NEW b \in nodes, Role[a] = Role[b], CtlRank[a] < CtlRank[b]
          PROVE  Position(a, nodes, CtlRank) # Position(b, nodes, CtlRank)
      <4>1. Position(a, nodes, CtlRank) < Position(b, nodes, CtlRank)
        BY <3>1, PlacesDiffer
      <4>2. ASSUME NEW c \in nodes PROVE Position(c, nodes, CtlRank) \in Nat
        <5>1. IsFiniteSet({l \in OfRole(nodes, Role[c]) : CtlRank[l] < CtlRank[c]})
          BY FS_Subset, ClusterInitAssumption DEF ClusterInitAssumption, OfRole
        <5> QED BY <5>1, FS_CardinalityType DEF Position
      <4> QED BY <4>1, <4>2
    <3> QED BY <1>1, <2>1, <3>1
  <2> QED BY <2>2, ClusterInitAssumption DEF ClusterInitAssumption
<1>2. ASSUME NEW n \in nodes
      PROVE  Position(n, nodes, CtlRank) = Position(n, nodes, PgxcRank)
  BY PlacesAgree
<1>3. {e \in nodes \X nodes :
         /\ Role[e[1]] = Role[e[2]]
         /\ Position(e[1], nodes, CtlRank) = Position(e[2], nodes, PgxcRank)}
        = {<<n, n>> : n \in nodes}
  BY <1>1, <1>2
<1>4. Merged(nodes, nodes) =
        {e \in nodes \X nodes :
           /\ Role[e[1]] = Role[e[2]]
           /\ Position(e[1], nodes, CtlRank) = Position(e[2], nodes, PgxcRank)}
  BY DEF Merged
<1> QED BY <1>3, <1>4 DEF Own

----------------------------------------------------------------------------
(* A status that names a coordinator has a first one.                      *)

LEMMA FirstOfRanks ==
  ASSUME NEW T \in SUBSET Nat, T # {}
  PROVE  \E x \in T : \A y \in T : x <= y
<1>1. PICK x \in T : \A y \in T : <<y, x>> \notin OpToRel(<, Nat)
  BY NatLessThanWellFounded, WFMin
<1>2. \A y \in T : ~(y < x)
  BY <1>1 DEF OpToRel
<1> QED BY <1>2

LEMMA PrimaryIsCoordinator ==
  ASSUME NEW nodes \in SUBSET Nodes, nodes \intersect Coordinators # {}
  PROVE  Primary(nodes) \in nodes \intersect Coordinators
<1> DEFINE T == {PrintRank[n] : n \in nodes \intersect Coordinators}
<1>0. PICK c \in nodes \intersect Coordinators : PrintRank[c] \in T
  OBVIOUS
<1>1. T \subseteq Nat /\ T # {}
  BY <1>0, ClusterInitAssumption DEF ClusterInitAssumption
<1>2. PICK x \in T : \A y \in T : x <= y
  BY <1>1, FirstOfRanks
<1>3. \E n \in nodes \intersect Coordinators :
        \A m \in nodes \intersect Coordinators : PrintRank[n] <= PrintRank[m]
  BY <1>2
<1> QED BY <1>3 DEF Primary

----------------------------------------------------------------------------
(* Types.                                                                  *)

Unasked == {"start", "help", "probe", "status", "psql", "local"}
Opened == {"write", "done", "killed"}

\* What the place of an init says of its other variables.
Sane(i, ctx, began, opens) ==
  /\ ctx.at # "start" => began \in Requests
  /\ ctx.at \in {"probe", "status"} => ctx.try \in 1..Len(Described)
  /\ ctx.at = "local" => ctx.try \in 1..3
  /\ ctx.at = "psql" => ctx.told \intersect Coordinators # {}
  /\ ctx.at \in Unasked => ctx.rows = {}
  /\ i \in opens => ctx.at \in Opened
  /\ ctx.at \in {"write", "done"} => i \in opens

AllSane == \A i \in Inits : Sane(i, init[i], request[i], opened)

Typed == TypeOK /\ AllSane

LEMMA DescribedNodes ==
  /\ Len(Described) \in Nat /\ Len(Described) >= 1 /\ DOMAIN Described = 1..Len(Described)
  /\ \A k \in 1..Len(Described) : Described[k] \subseteq Nodes
BY ClusterInitAssumption DEF ClusterInitAssumption

LEMMA InitTyped == Init => Typed
<1> SUFFICES ASSUME Init PROVE Typed
  OBVIOUS
<1>1. TypeOK
  BY ClusterInitAssumption
  DEF ClusterInitAssumption, Init, TypeOK, Steps, Looks, Places, Contents, Topologies
<1>2. AllSane
  BY DEF Init, AllSane, Sane, Unasked
<1> QED BY <1>1, <1>2 DEF Typed

\* A step of i replaces its context by a sane one of the right type.
LEMMA OneContext ==
  ASSUME Typed, NEW i \in Inits, NEW ctx \in Locals, init' = [init EXCEPT ![i] = ctx],
         request' = request, opened' \in {opened, opened \union {i}},
         Sane(i, ctx, request[i], opened')
  PROVE  init' \in [Inits -> Locals] /\ AllSane'
<1>1. init' \in [Inits -> Locals]
  BY DEF Typed, TypeOK, Locals
<1>2. ASSUME NEW j \in Inits, j # i PROVE Sane(j, init'[j], request'[j], opened')
  <2>1. init'[j] = init[j] /\ (j \in opened' <=> j \in opened)
    BY <1>2 DEF Typed, TypeOK
  <2>2. Sane(j, init[j], request[j], opened)
    BY DEF Typed, AllSane
  <2> QED BY <2>1, <2>2 DEF Sane
<1>3. init'[i] = ctx
  BY DEF Typed, TypeOK
<1>4. \A j \in Inits : Sane(j, init'[j], request'[j], opened')
  BY <1>2, <1>3
<1> QED BY <1>1, <1>4 DEF AllSane

Onward(i, step) == [init[i] EXCEPT !.at = step, !.try = 1]

LEMMA GotoTyped ==
  ASSUME Typed, NEW i \in Inits, NEW step \in Steps, Goto(i, step), request' = request,
         opened' \in {opened, opened \union {i}}, Sane(i, Onward(i, step), request[i], opened')
  PROVE  init' \in [Inits -> Locals] /\ AllSane'
<1>1. init[i] \in Locals
  BY DEF Typed, TypeOK, Locals
<1>2. Onward(i, step) \in Locals
  BY <1>1 DEF Locals, Onward
<1>3. init' = [init EXCEPT ![i] = Onward(i, step)]
  BY <1>1 DEF Goto, Onward, Typed, TypeOK, Locals
<1> QED BY <1>2, <1>3, OneContext

LEMMA AgainTyped ==
  ASSUME Typed, NEW i \in Inits, Again(i), request' = request, opened' = opened,
         \/ init[i].at = "local" /\ init[i].try < 3
         \/ init[i].at \in {"probe", "status"} /\ init[i].try < Len(Described)
  PROVE  init' \in [Inits -> Locals] /\ AllSane'
<1> DEFINE ctx == [init[i] EXCEPT !.try = @ + 1]
<1>1. init[i] \in Locals /\ Sane(i, init[i], request[i], opened)
  BY DEF Typed, TypeOK, Locals, AllSane
<1>2. ctx \in Locals /\ ctx.at = init[i].at /\ ctx.try = init[i].try + 1
      /\ ctx.told = init[i].told /\ ctx.rows = init[i].rows
  BY <1>1 DEF Locals
<1>3. init' = [init EXCEPT ![i] = ctx]
  BY <1>1 DEF Again, Typed, TypeOK, Locals
<1>4. Sane(i, ctx, request[i], opened')
  <2> HIDE DEF ctx
  <2> QED BY <1>1, <1>2, DescribedNodes DEF Sane, Locals
<1> QED BY <1>2, <1>3, <1>4, OneContext

\* Going on with a place at which nothing but the request is needed.
LEMMA GotoFreely ==
  ASSUME Typed, NEW i \in Inits, NEW step \in {"help", "probe", "status", "local", "open", "error"},
         Goto(i, step), request' = request, opened' = opened, request[i] \in Requests,
         init[i].at \notin Opened, step \in Unasked => init[i].rows = {}
  PROVE  init' \in [Inits -> Locals] /\ AllSane'
<1>1. init[i] \in Locals /\ Sane(i, init[i], request[i], opened)
  BY DEF Typed, TypeOK, Locals, AllSane
<1>2. Sane(i, Onward(i, step), request[i], opened')
  BY <1>1, DescribedNodes DEF Sane, Onward, Locals, Unasked, Opened
<1> QED BY <1>2, GotoTyped DEF Steps

LEMMA CtlUnableTyped ==
  ASSUME Typed, NEW i \in Inits, CtlUnable(i), request' = request, opened' = opened,
         request[i] \in Requests, init[i].at \in {"start", "probe", "status"}
  PROVE  init' \in [Inits -> Locals] /\ AllSane'
<1>1. init[i].rows = {}
  BY DEF Typed, AllSane, Sane, Unasked
<1> QED BY <1>1, GotoFreely DEF CtlUnable, Opened

LEMMA StatusRefusedTyped ==
  ASSUME Typed, NEW i \in Inits, StatusRefused(i), request' = request, opened' = opened,
         init[i].at \in {"probe", "status"}
  PROVE  init' \in [Inits -> Locals] /\ AllSane'
<1>1. request[i] \in Requests
  BY DEF Typed, AllSane, Sane
<1> QED BY <1>1, CtlUnableTyped, AgainTyped DEF StatusRefused

LEMMA NextPortTyped ==
  ASSUME Typed, NEW i \in Inits, NextPort(i), request' = request, opened' = opened,
         init[i].at = "local"
  PROVE  init' \in [Inits -> Locals] /\ AllSane'
<1>1. request[i] \in Requests /\ init[i].rows = {}
  BY DEF Typed, AllSane, Sane, Unasked
<1> QED BY <1>1, GotoFreely, AgainTyped DEF NextPort, Opened

LEMMA UnverifiedTyped ==
  ASSUME Typed, NEW i \in Inits, Unverified(i), request' = request, opened' = opened,
         init[i].at = "psql"
  PROVE  init' \in [Inits -> Locals] /\ AllSane'
<1>1. request[i] \in Requests
  BY DEF Typed, AllSane, Sane
<1> QED BY <1>1, GotoFreely DEF Unverified, Opened, Unasked

LEMMA RowsTyped ==
  ASSUME TypeOK, NEW port \in 1..3
  PROVE  Rows(port) \in SUBSET Nodes
BY ClusterInitAssumption DEF ClusterInitAssumption, Rows, TypeOK

\* The effect of init's steps on the two things the inductive invariant of types is about.
StepTyped == init' \in [Inits -> Locals] /\ AllSane'

LEMMA InitStepTyped ==
  ASSUME Typed, NEW i \in Inits, InitStep(i)
  PROVE  StepTyped
<1> USE DEF StepTyped
<1>0. init[i] \in Locals /\ Sane(i, init[i], request[i], opened)
  BY DEF Typed, TypeOK, Locals, AllSane
<1>1. CASE Begin(i)
  <2>1. request[i] \in Requests /\ init[i].at = "start" /\ init[i].rows = {}
        /\ request' = request /\ opened' = opened
    BY <1>0, <1>1 DEF Begin, At, Asking, Typed, TypeOK, Sane, Unasked
  <2>2. CtlUnable(i) \/ Goto(i, "local") \/ Goto(i, "error") \/ Goto(i, "help")
    BY <1>1 DEF Begin
  <2> QED BY <2>1, <2>2, CtlUnableTyped, GotoFreely DEF Opened
<1>2. CASE Help(i) \/ HelpFails(i)
  <2>1. request[i] \in Requests /\ init[i].at = "help" /\ init[i].rows = {}
        /\ request' = request /\ opened' = opened
    BY <1>0, <1>2 DEF Help, HelpFails, At, Asking, Sane, Unasked
  <2>2. Goto(i, "status") \/ Goto(i, "probe")
    BY <1>2 DEF Help, HelpFails
  <2> QED BY <2>1, <2>2, GotoFreely DEF Opened
<1>3. CASE AskStatus(i)
  <2>1. request[i] \in Requests /\ init[i].at \in {"probe", "status"} /\ init[i].rows = {}
        /\ request' = request /\ opened' = opened
    BY <1>0, <1>3 DEF AskStatus, At, Asking, Sane, Unasked
  <2>2. CASE CtlUnable(i)
    BY <2>1, <2>2, CtlUnableTyped
  <2>3. CASE Goto(i, "status")
    BY <2>1, <2>3, GotoFreely DEF Opened
  <2>4. CASE TakeStatus(i, Status(i))
    <3>1. Status(i) \in SUBSET Nodes
      BY DEF Status, Typed, TypeOK
    <3> DEFINE nodes == Status(i)
               ctx == [init[i] EXCEPT
                         !.at = IF nodes \intersect Coordinators = {} THEN "open" ELSE "psql",
                         !.try = 1, !.told = nodes, !.nodes = Own(nodes)]
    <3> HIDE DEF nodes
    <3>2. Own(nodes) \in Topologies
      BY <3>1, OwnTyped DEF nodes
    <3>3. ctx \in Locals
      BY <1>0, <3>1, <3>2 DEF Locals, Steps, nodes
    <3>4. Sane(i, ctx, request[i], opened')
      BY <1>0, <2>1 DEF Sane, Locals, Unasked, Opened
    <3>5. init' = [init EXCEPT ![i] = ctx]
      BY <1>0, <2>4 DEF TakeStatus, nodes, Typed, TypeOK, Locals
    <3> QED BY <2>1, <3>3, <3>4, <3>5, OneContext
  <2> QED BY <1>3, <2>2, <2>3, <2>4 DEF AskStatus
<1>4. CASE AskStatusInVain(i) \/ StatusFails(i)
  <2>1. init[i].at \in {"probe", "status"} /\ request' = request /\ opened' = opened
        /\ StatusRefused(i)
    BY <1>4 DEF AskStatusInVain, StatusFails, At, Asking
  <2> QED BY <2>1, StatusRefusedTyped
<1>5. CASE AskPrimary(i)
  <2>1. request[i] \in Requests /\ init[i].at = "psql" /\ request' = request /\ opened' = opened
    BY <1>0, <1>5 DEF AskPrimary, At, Asking, Sane
  <2> DEFINE rows == pgxc[Primary(init[i].told)]
             ctx == [init[i] EXCEPT !.at = "open", !.rows = rows,
                                    !.nodes = Merged(init[i].told, rows)]
  <2>2. rows \in SUBSET Nodes
    BY <1>0, <2>1, PrimaryIsCoordinator DEF Sane, Locals, Typed, TypeOK
  <2>3. CASE Unverified(i)
    BY <2>1, <2>3, UnverifiedTyped
  <2>4. CASE init' = [init EXCEPT ![i].at = "open", ![i].rows = rows,
                                  ![i].nodes = Merged(init[i].told, rows)]
    <3> HIDE DEF rows
    <3>1. ctx \in Locals
      BY <1>0, <2>2, MergedTyped DEF Locals, Steps
    <3>2. Sane(i, ctx, request[i], opened')
      BY <1>0, <2>1 DEF Sane, Locals, Unasked, Opened
    <3>3. init' = [init EXCEPT ![i] = ctx]
      BY <1>0, <2>4 DEF Typed, TypeOK, Locals
    <3> QED BY <2>1, <3>1, <3>2, <3>3, OneContext
  <2> QED BY <1>5, <2>3, <2>4 DEF AskPrimary
<1>6. CASE PrimaryFails(i)
  <2>1. init[i].at = "psql" /\ request' = request /\ opened' = opened /\ Unverified(i)
    BY <1>6 DEF PrimaryFails, At, Asking
  <2> QED BY <2>1, UnverifiedTyped
<1>7. CASE AskLocal(i)
  <2>1. request[i] \in Requests /\ init[i].at = "local" /\ request' = request /\ opened' = opened
        /\ init[i].try \in 1..3 /\ init[i].rows = {}
    BY <1>0, <1>7 DEF AskLocal, At, Asking, Sane, Unasked
  <2> DEFINE rows == Rows(init[i].try)
             ctx == [init[i] EXCEPT !.at = "open", !.nodes = Own(rows)]
  <2>2. rows \in SUBSET Nodes
    BY <2>1, RowsTyped DEF Typed
  <2>3. CASE NextPort(i)
    BY <2>1, <2>3, NextPortTyped
  <2>4. CASE init' = [init EXCEPT ![i].at = "open", ![i].nodes = Own(rows)]
    <3> HIDE DEF rows
    <3>1. ctx \in Locals
      BY <1>0, <2>2, OwnTyped DEF Locals, Steps
    <3>2. Sane(i, ctx, request[i], opened')
      BY <1>0, <2>1 DEF Sane, Locals, Unasked, Opened
    <3>3. init' = [init EXCEPT ![i] = ctx]
      BY <1>0, <2>4 DEF Typed, TypeOK, Locals
    <3> QED BY <2>1, <3>1, <3>2, <3>3, OneContext
  <2> QED BY <1>7, <2>3, <2>4 DEF AskLocal
<1>8. CASE LocalFails(i)
  <2>1. init[i].at = "local" /\ request' = request /\ opened' = opened /\ NextPort(i)
    BY <1>8 DEF LocalFails, At, Asking
  <2> QED BY <2>1, NextPortTyped
<1>9. CASE Open(i)
  <2>1. Goto(i, "write") /\ request' = request /\ opened' = opened \union {i}
        /\ init[i].at = "open"
    BY <1>9 DEF Open, At
  <2>2. Sane(i, Onward(i, "write"), request[i], opened')
    BY <1>0, <2>1 DEF Sane, Onward, Locals, Unasked, Opened
  <2> QED BY <2>1, <2>2, GotoTyped DEF Steps
<1>10. CASE Write(i)
  <2>1. Goto(i, "done") /\ request' = request /\ opened' = opened /\ init[i].at = "write"
    BY <1>10 DEF Write, At
  <2>2. Sane(i, Onward(i, "done"), request[i], opened')
    BY <1>0, <2>1 DEF Sane, Onward, Locals, Unasked, Opened
  <2> QED BY <2>1, <2>2, GotoTyped DEF Steps
<1> QED BY <1>1, <1>2, <1>3, <1>4, <1>5, <1>6, <1>7, <1>8, <1>9, <1>10 DEF InitStep

LEMMA KillTyped ==
  ASSUME Typed, NEW i \in Inits, Kill(i)
  PROVE  StepTyped
<1>1. init[i] \in Locals /\ Sane(i, init[i], request[i], opened)
  BY DEF Typed, TypeOK, Locals, AllSane
<1>2. init[i].at # "start" /\ Goto(i, "killed") /\ request' = request /\ opened' = opened
  BY <1>1 DEF Kill
<1>3. Sane(i, Onward(i, "killed"), request[i], opened')
  BY <1>1, <1>2 DEF Sane, Onward, Locals, Unasked, Opened
<1> QED BY <1>2, <1>3, GotoTyped DEF StepTyped, Steps

LEMMA ConfigTyped ==
  ASSUME Typed, NEW i \in Inits, init[i].at # "start"
  PROVE  Target(i) \in Places /\ Config(i) \in Configs
<1>1. init[i] \in Locals /\ request[i] \in Requests
  BY DEF Typed, TypeOK, Locals, AllSane, Sane
<1>2. request[i].target \in Places /\ request[i].server \in Servers
  BY <1>1, ClusterInitAssumption DEF ClusterInitAssumption
<1> QED BY <1>1, <1>2 DEF Target, Config, Configs, Locals

\* A step of an init changes, besides its context, the file that it opens or writes.
LEMMA InitStepElse ==
  ASSUME Typed, NEW i \in Inits, InitStep(i)
  PROVE  /\ UNCHANGED <<listed, pgxc, request, reader>>
         /\ file' \in [Places -> Contents]
         /\ opened' \subseteq Inits /\ collided' \in BOOLEAN /\ disturbances' \in Nat
<1>0. TypeOK
  BY DEF Typed
<1>1. CASE Open(i)
  <2>1. Target(i) \in Places
    BY <1>1, ConfigTyped DEF Open, At
  <2> QED BY <1>0, <1>1, <2>1 DEF Open, TypeOK, Contents, sources
<1>2. CASE Write(i)
  <2>1. Target(i) \in Places /\ Config(i) \in Configs
    BY <1>2, ConfigTyped DEF Write, At
  <2>2. \A c \in Landed(file[Target(i)], Config(i)) : c \in Contents
    BY <2>1 DEF Landed, Contents
  <2> QED BY <1>0, <1>2, <2>2 DEF Write, TypeOK, sources
<1>3. CASE ~Open(i) /\ ~Write(i)
  <2>1. Asking /\ (Quietly \/ Disturb)
    BY <1>3 DEF InitStep, Begin, Help, HelpFails, AskStatus, AskStatusInVain, StatusFails,
                AskPrimary, PrimaryFails, AskLocal, LocalFails
  <2> QED BY <1>0, <2>1 DEF Asking, Quietly, Disturb, sources, TypeOK
<1> QED BY <1>1, <1>2, <1>3

ReaderLocals == [at : Looks, place : Places, config : Contents \union {None}, after : SUBSET Inits]

\* What a step makes of its reader's context.
Missed(r) == [reader[r] EXCEPT !.at = "missing", !.after = {i \in Inits : At(i, "done")}]
Spotted(r, p) ==
  [reader[r] EXCEPT !.at = "load", !.place = p, !.after = {i \in Inits : At(i, "done")}]
Rejecting(r) == [reader[r] EXCEPT !.at = "rejected"]
Taking(r) == [reader[r] EXCEPT !.at = "loaded", !.config = file[reader[r].place]]

LEMMA ReaderSteps ==
  ASSUME TypeOK, NEW r \in Readers, Find(r) \/ Load(r)
  PROVE  \E ctx \in ReaderLocals :
           /\ reader' = [reader EXCEPT ![r] = ctx]
           /\ \/ /\ reader[r].at = "start"
                 /\ \/ FoundAt = {} /\ ctx = Missed(r)
                    \/ \E p \in FoundAt : ctx = Spotted(r, p)
              \/ /\ reader[r].at = "load"
                 /\ \/ ctx = Rejecting(r)
                         /\ (~Loadable(file[reader[r].place]) \/ file[reader[r].place] = Mixed)
                    \/ ctx = Taking(r) /\ Loadable(file[reader[r].place])
<1>0. reader[r] \in ReaderLocals /\ reader \in [Readers -> ReaderLocals]
  BY DEF TypeOK, ReaderLocals
<1>1. Missed(r) \in ReaderLocals /\ Rejecting(r) \in ReaderLocals
  BY <1>0 DEF ReaderLocals, Missed, Rejecting, Looks
<1>2. \A p \in FoundAt : Spotted(r, p) \in ReaderLocals
  BY <1>0 DEF ReaderLocals, Spotted, Looks, FoundAt, Places
<1>3. Taking(r) \in ReaderLocals
  <2>1. file[reader[r].place] \in Contents
    BY DEF TypeOK
  <2> QED BY <1>0, <2>1 DEF ReaderLocals, Taking, Looks
<1>4. CASE Find(r)
  <2>1. CASE FoundAt = {}
    <3>1. reader' = [reader EXCEPT ![r] = Missed(r)]
      BY <1>0, <1>4, <2>1 DEF Find, Missed
    <3> QED BY <1>1, <1>4, <2>1, <3>1 DEF Find
  <2>2. CASE FoundAt # {}
    <3>1. PICK p \in FoundAt : reader' = [reader EXCEPT ![r] = Spotted(r, p)]
      BY <1>0, <1>4, <2>2 DEF Find, Spotted
    <3> QED BY <1>2, <1>4, <2>2, <3>1 DEF Find
  <2> QED BY <2>1, <2>2
<1>5. CASE Load(r)
  BY <1>0, <1>1, <1>3, <1>5 DEF Load, Rejecting, Taking
<1> QED BY <1>4, <1>5

LEMMA ReaderTyped ==
  ASSUME TypeOK, NEW r \in Readers, Find(r) \/ Load(r)
  PROVE  reader' \in [Readers -> ReaderLocals]
BY ReaderSteps DEF TypeOK, ReaderLocals

LEMMA NextTyped ==
  ASSUME Typed, [Next]_clusterVars
  PROVE  Typed'
<1>0. TypeOK /\ AllSane
  BY DEF Typed
<1>1. ASSUME NEW i \in Inits, InitStep(i)
      PROVE  Typed'
  BY <1>0, <1>1, InitStepTyped, InitStepElse DEF StepTyped, Typed, TypeOK, Locals
<1>2. ASSUME NEW i \in Inits, Kill(i)
      PROVE  Typed'
  BY <1>0, <1>2, KillTyped DEF Kill, Disturb, sources, StepTyped, Typed, TypeOK, Locals
<1>3. ASSUME NEW r \in Readers, Find(r) \/ Load(r)
      PROVE  Typed'
  <2>1. Looking
    BY <1>3 DEF Find, Load
  <2> QED BY <1>0, <1>3, <2>1, ReaderTyped DEF ReaderLocals, Looking, sources, Typed, TypeOK, AllSane
<1>4. CASE Resize
  <2>1. \A nodes \in SUBSET Nodes, n \in Nodes : Toggled(nodes, n) \in SUBSET Nodes
    BY DEF Toggled
  <2>2. listed' \subseteq Nodes /\ pgxc' \in [Coordinators -> SUBSET Nodes]
    BY <1>0, <1>4, <2>1 DEF Resize, TypeOK
  <2> QED BY <1>0, <1>4, <2>2 DEF Resize, Disturb, Typed, TypeOK, AllSane
<1>5. CASE UNCHANGED clusterVars
  BY <1>0, <1>5 DEF clusterVars, sources, Typed, TypeOK, AllSane
<1> QED BY <1>1, <1>2, <1>3, <1>4, <1>5 DEF Next

\* The variables of the model keep their types.
THEOREM TypeCorrect == Spec => []TypeOK
<1>1. Typed => TypeOK
  BY DEF Typed
<1> QED BY <1>1, InitTyped, NextTyped, PTL DEF Spec

----------------------------------------------------------------------------
(* What a step does to the view of the cluster that an init has.           *)

SameView(ctx, old) == ctx.told = old.told /\ ctx.rows = old.rows /\ ctx.nodes = old.nodes

MergedView(ctx) == ctx.rows # {} => ctx.nodes = Merged(ctx.told, ctx.rows)

LEMMA GotoView ==
  ASSUME Typed, NEW i \in Inits, NEW step \in Steps, Goto(i, step)
  PROVE  \E ctx \in Locals :
           /\ init' = [init EXCEPT ![i] = ctx] /\ SameView(ctx, init[i])
           /\ ctx.at = step
<1>1. init[i] \in Locals /\ init \in [Inits -> Locals]
  BY DEF Typed, TypeOK, Locals
<1>2. Onward(i, step) \in Locals /\ SameView(Onward(i, step), init[i]) /\ Onward(i, step).at = step
  BY <1>1 DEF Onward, SameView, Locals
<1>3. init' = [init EXCEPT ![i] = Onward(i, step)]
  BY <1>1 DEF Goto, Onward, Locals
<1> QED BY <1>2, <1>3

LEMMA AgainView ==
  ASSUME Typed, NEW i \in Inits, Again(i)
  PROVE  \E ctx \in Locals :
           /\ init' = [init EXCEPT ![i] = ctx] /\ SameView(ctx, init[i])
           /\ ctx.at = init[i].at
<1> DEFINE ctx == [init[i] EXCEPT !.try = @ + 1]
<1>1. init[i] \in Locals /\ init \in [Inits -> Locals]
  BY DEF Typed, TypeOK, Locals
<1>2. ctx \in Locals /\ SameView(ctx, init[i]) /\ ctx.at = init[i].at
  BY <1>1 DEF SameView, Locals
<1>3. init' = [init EXCEPT ![i] = ctx]
  BY <1>1 DEF Again, Locals
<1> QED BY <1>2, <1>3

LEMMA StepView ==
  ASSUME Typed, NEW i \in Inits, InitStep(i) \/ Kill(i)
  PROVE  \E ctx \in Locals :
           /\ init' = [init EXCEPT ![i] = ctx]
           /\ SameView(ctx, init[i]) \/ (init[i].at \in Unasked /\ MergedView(ctx))
           /\ ctx.at \in {"write", "done"} => Open(i) \/ Write(i)
<1>0. init[i] \in Locals /\ init \in [Inits -> Locals] /\ Sane(i, init[i], request[i], opened)
  BY DEF Typed, TypeOK, Locals, AllSane
<1>2. CASE AskStatus(i) /\ TakeStatus(i, Status(i))
  <2>1. Status(i) \in SUBSET Nodes /\ init[i].at \in Unasked /\ init[i].rows = {}
    BY <1>0, <1>2 DEF AskStatus, At, Status, Typed, TypeOK, Sane, Unasked
  <2> DEFINE nodes == Status(i)
             ctx == [init[i] EXCEPT
                       !.at = IF nodes \intersect Coordinators = {} THEN "open" ELSE "psql",
                       !.try = 1, !.told = nodes, !.nodes = Own(nodes)]
  <2>2. init' = [init EXCEPT ![i] = ctx]
    BY <1>0, <1>2 DEF TakeStatus, Locals
  <2> HIDE DEF nodes
  <2>3. Own(nodes) \in Topologies
    BY <2>1, OwnTyped DEF nodes
  <2>4. ctx \in Locals /\ ctx.rows = {} /\ ctx.at \in {"open", "psql"}
    BY <1>0, <2>1, <2>3 DEF Locals, Steps, nodes
  <2> QED BY <2>1, <2>2, <2>4 DEF MergedView
<1>3. CASE AskPrimary(i) /\ ~Unverified(i)
  <2> DEFINE rows == pgxc[Primary(init[i].told)]
             ctx == [init[i] EXCEPT !.at = "open", !.rows = rows,
                                    !.nodes = Merged(init[i].told, rows)]
  <2>1. init[i].at = "psql"
    BY <1>3 DEF AskPrimary, At
  <2>2. rows \in SUBSET Nodes
    BY <1>0, <2>1, PrimaryIsCoordinator DEF Sane, Locals, Typed, TypeOK
  <2>3. init' = [init EXCEPT ![i] = ctx]
    BY <1>0, <1>3 DEF AskPrimary, Locals
  <2> HIDE DEF rows
  <2>4. Merged(init[i].told, rows) \in Topologies
    BY <1>0, <2>2, MergedTyped DEF Locals
  <2>5. ctx \in Locals /\ ctx.at = "open" /\ ctx.rows = rows /\ ctx.told = init[i].told
        /\ ctx.nodes = Merged(init[i].told, rows)
    BY <1>0, <2>2, <2>4 DEF Locals, Steps
  <2>6. MergedView(ctx)
    BY <2>5 DEF MergedView
  <2> QED BY <2>1, <2>3, <2>5, <2>6 DEF Unasked
<1>4. CASE AskLocal(i) /\ ~NextPort(i)
  <2> DEFINE rows == Rows(init[i].try)
             ctx == [init[i] EXCEPT !.at = "open", !.nodes = Own(rows)]
  <2>1. init[i].at = "local" /\ init[i].try \in 1..3 /\ init[i].rows = {}
    BY <1>0, <1>4 DEF AskLocal, At, Sane, Unasked
  <2>2. rows \in SUBSET Nodes
    BY <2>1, RowsTyped DEF Typed
  <2>3. init' = [init EXCEPT ![i] = ctx]
    BY <1>0, <1>4 DEF AskLocal, Locals
  <2> HIDE DEF rows
  <2>4. Own(rows) \in Topologies
    BY <2>2, OwnTyped
  <2>5. ctx \in Locals /\ ctx.rows = {} /\ ctx.at = "open"
    BY <1>0, <2>1, <2>4 DEF Locals, Steps
  <2> QED BY <2>1, <2>3, <2>5 DEF Unasked, MergedView
<1>5. CASE Kill(i) \/ Open(i) \/ Write(i)
  <2>1. \/ Goto(i, "killed")
        \/ Open(i) /\ Goto(i, "write")
        \/ Write(i) /\ Goto(i, "done")
    BY <1>5 DEF Kill, Open, Write
  <2> QED BY <1>5, <2>1, GotoView DEF Steps
<1>6. CASE Begin(i) \/ Help(i) \/ HelpFails(i) \/ (AskStatus(i) /\ ~TakeStatus(i, Status(i)))
           \/ PrimaryFails(i) \/ (AskPrimary(i) /\ Unverified(i))
  <2>1. \E step \in {"local", "error", "help", "status", "probe", "open"} : Goto(i, step)
    BY <1>6 DEF Begin, Help, HelpFails, AskStatus, PrimaryFails, CtlUnable, Unverified
  <2> QED BY <2>1, GotoView DEF Steps
<1>7. CASE AskStatusInVain(i) \/ StatusFails(i) \/ LocalFails(i) \/ (AskLocal(i) /\ NextPort(i))
  <2>1. init[i].at \in {"probe", "status", "local"}
    BY <1>7 DEF AskStatusInVain, StatusFails, LocalFails, AskLocal, At
  <2>2. Again(i) \/ \E step \in {"local", "error"} : Goto(i, step)
    BY <1>7 DEF AskStatusInVain, StatusFails, LocalFails, StatusRefused, CtlUnable, NextPort
  <2> QED BY <2>1, <2>2, GotoView, AgainView DEF Steps
<1> QED BY <1>2, <1>3, <1>4, <1>5, <1>6, <1>7 DEF InitStep

\* An action of an init, of a reader, of the cluster, or none.
LEMMA NextCases ==
  ASSUME [Next]_clusterVars
  PROVE  \/ \E i \in Inits : InitStep(i) \/ Kill(i)
         \/ UNCHANGED init /\ UNCHANGED <<file, request, opened, collided>>
BY DEF Next, clusterVars, Find, Load, Looking, Resize

----------------------------------------------------------------------------
(* The ports.                                                              *)

ViewsMerged == \A i \in Inits : MergedView(init[i])

LEMMA NextMerged ==
  ASSUME Typed, ViewsMerged, [Next]_clusterVars
  PROVE  ViewsMerged'
<1>1. ASSUME NEW i \in Inits, InitStep(i) \/ Kill(i)
      PROVE  ViewsMerged'
  <2>1. PICK ctx \in Locals :
          /\ init' = [init EXCEPT ![i] = ctx]
          /\ SameView(ctx, init[i]) \/ (init[i].at \in Unasked /\ MergedView(ctx))
    BY <1>1, StepView
  <2>2. MergedView(ctx)
    BY <2>1 DEF SameView, MergedView, ViewsMerged
  <2>3. \A j \in Inits : init'[j] = IF j = i THEN ctx ELSE init[j]
    BY <2>1 DEF Typed, TypeOK
  <2>4. \A j \in Inits : MergedView(init'[j])
    BY <2>2, <2>3 DEF ViewsMerged
  <2> QED BY <2>4 DEF ViewsMerged, MergedView
<1>2. CASE UNCHANGED init
  BY <1>2 DEF ViewsMerged, MergedView
<1> QED BY <1>1, <1>2, NextCases

\* Sources that have named the same nodes, by names that sort alike, give every node its
\* own port (PortsMatchNodes).
THEOREM PortsMatched == Spec => []PortsMatchNodes
<1>1. Init => ViewsMerged
  BY DEF Init, ViewsMerged, MergedView
<1>2. Typed /\ ViewsMerged => PortsMatchNodes
  BY MergedAlike DEF Typed, TypeOK, ViewsMerged, MergedView, PortsMatchNodes
<1> QED BY <1>1, <1>2, InitTyped, NextTyped, NextMerged, PTL DEF Spec

----------------------------------------------------------------------------
(* The file.                                                               *)

\* What an init that has opened its file will write does not change any more.
LEMMA ConfigKept ==
  ASSUME Typed, [Next]_clusterVars, NEW j \in opened
  PROVE  Config(j)' = Config(j) /\ Target(j)' = Target(j) /\ j \in Inits /\ j \in opened'
<1>0. j \in Inits /\ init \in [Inits -> Locals] /\ init[j].at \in Opened
  BY DEF Typed, TypeOK, Locals, AllSane, Sane
<1>1. request' = request /\ opened \subseteq opened'
  <2>1. ASSUME NEW i \in Inits, InitStep(i) PROVE request' = request /\ opened \subseteq opened'
    BY <2>1 DEF InitStep, Begin, Help, HelpFails, AskStatus, AskStatusInVain, StatusFails,
                AskPrimary, PrimaryFails, AskLocal, LocalFails, Open, Write, Asking
  <2> QED BY <2>1 DEF Next, clusterVars, Kill, Find, Load, Looking, Resize
<1>2. init'[j].nodes = init[j].nodes
  <2>1. ASSUME NEW i \in Inits, InitStep(i) \/ Kill(i) PROVE init'[j].nodes = init[j].nodes
    <3>1. PICK ctx \in Locals :
            /\ init' = [init EXCEPT ![i] = ctx]
            /\ SameView(ctx, init[i]) \/ (init[i].at \in Unasked /\ MergedView(ctx))
      BY <2>1, StepView
    <3>2. i = j => SameView(ctx, init[i])
      BY <1>0, <3>1 DEF Unasked, Opened
    <3> QED BY <1>0, <3>1, <3>2 DEF SameView
  <2> QED BY <2>1, NextCases
<1> QED BY <1>0, <1>1, <1>2 DEF Config, Target

\* The places of the inits after a step of i.
LEMMA OthersStay ==
  ASSUME Typed, NEW i \in Inits, NEW step \in Steps, Goto(i, step)
  PROVE  \A j \in Inits : init'[j].at = IF j = i THEN step ELSE init[j].at
BY DEF Goto, Typed, TypeOK

LEMMA Begins ==
  ASSUME Typed, NEW i \in Inits, init[i].at \in {"open", "write"}
  PROVE  Target(i) \in Places /\ Config(i) \in Configs /\ (i \in opened <=> init[i].at = "write")
BY ConfigTyped DEF Typed, AllSane, Sane, Opened

\* The steps that leave the file alone.
LEMMA OtherPlaces ==
  ASSUME Typed, NEW i \in Inits, InitStep(i) \/ Kill(i), ~Open(i), ~Write(i)
  PROVE  /\ \A j \in Inits : j # i => init'[j] = init[j]
         /\ init'[i].at \notin {"write", "done"} /\ init[i].at # "done"
         /\ UNCHANGED <<file, request, opened, collided>>
<1>0. init \in [Inits -> Locals]
  BY DEF Typed, TypeOK, Locals
<1>1. UNCHANGED <<file, request, opened, collided>> /\ init[i].at # "done"
  BY DEF InitStep, Begin, Help, HelpFails, AskStatus, AskStatusInVain, StatusFails,
         AskPrimary, PrimaryFails, AskLocal, LocalFails, Kill, Asking, At, Finished
<1>2. PICK ctx \in Locals :
        /\ init' = [init EXCEPT ![i] = ctx]
        /\ ctx.at \in {"write", "done"} => Open(i) \/ Write(i)
  BY StepView
<1> QED BY <1>0, <1>1, <1>2

Genuine(place, content) ==
  \/ \E i \in opened : content = Config(i) /\ Target(i) = place
  \/ \E first \in FirstFiles : content = first[place]

LEMMA GenuineKept ==
  ASSUME Typed, [Next]_clusterVars, NEW place, NEW content, Genuine(place, content)
  PROVE  \/ \E i \in opened' : content = Config(i)' /\ Target(i)' = place
         \/ \E first \in FirstFiles : content = first[place]
BY ConfigKept DEF Genuine

FilesWhole ==
  /\ \A p \in Places : file[p] = Truncated \/ Genuine(p, file[p])
  /\ \A i \in Inits : At(i, "write") => file[Target(i)] = Truncated
  /\ \A i, j \in Inits : At(i, "write") /\ At(j, "write") /\ Target(i) = Target(j) => i = j
  /\ \A r \in Readers : reader[r].at = "loaded" => Genuine(reader[r].place, reader[r].config)

Whole == ~collided => FilesWhole

LEMMA InitWhole == Init => Whole
BY DEF Init, Whole, FilesWhole, Genuine, At

LEMMA NextWhole ==
  ASSUME Typed, Whole, [Next]_clusterVars
  PROVE  Whole'
<1> SUFFICES ASSUME ~collided' PROVE FilesWhole'
  BY DEF Whole
<1>0. TypeOK /\ init \in [Inits -> Locals] /\ TypeOK'
  BY NextTyped DEF Typed, TypeOK, Locals
<1>1. ~collided /\ FilesWhole
  <2>1. ASSUME NEW i \in Inits, InitStep(i) PROVE collided => collided'
    BY <2>1 DEF InitStep, Begin, Help, HelpFails, AskStatus, AskStatusInVain, StatusFails,
                AskPrimary, PrimaryFails, AskLocal, LocalFails, Open, Write, Asking
  <2>2. collided => collided'
    BY <2>1 DEF Next, clusterVars, Kill, Find, Load, Looking, Resize
  <2> QED BY <2>2 DEF Whole
<1>2. \A i \in Inits : Target(i)' = Target(i)
  <2>1. request' = request
    BY NextCases, OtherPlaces DEF Open, Write
  <2> QED BY <2>1 DEF Target
\* The files that hold something new hold what a writer has written, and writers are alone.
<1>3. /\ \A p \in Places : file'[p] = Truncated \/ Genuine(p, file'[p])
      /\ \A i \in Inits : init'[i].at = "write" => file'[Target(i)] = Truncated
      /\ \A i, j \in Inits :
           init'[i].at = "write" /\ init'[j].at = "write" /\ Target(i) = Target(j) => i = j
  <2>1. ASSUME NEW i \in Inits, Open(i) PROVE <1>3!:
    <3>1. Target(i) \in Places /\ \A j \in Inits : At(j, "write") => Target(j) # Target(i)
      BY <2>1, Begins DEF Open, At, Writing
    <3>2. \A j \in Inits : init'[j].at = IF j = i THEN "write" ELSE init[j].at
      BY <2>1, OthersStay DEF Open, Steps
    <3>3. \A p \in Places : file'[p] = IF p = Target(i) THEN Truncated ELSE file[p]
      BY <1>0, <2>1, <3>1 DEF Open, TypeOK
    <3>4. \A j \in Inits : At(j, "write") => Target(j) \in Places
      BY Begins DEF At
    <3> QED BY <1>1, <3>1, <3>2, <3>3, <3>4 DEF FilesWhole, At
  <2>2. ASSUME NEW i \in Inits, Write(i) PROVE <1>3!:
    <3>1. Target(i) \in Places /\ i \in opened /\ At(i, "write")
      BY <2>2, Begins DEF Write, At
    <3>2. \A j \in Inits : init'[j].at = IF j = i THEN "done" ELSE init[j].at
      BY <2>2, OthersStay DEF Write, Steps
    <3>3. Landed(file[Target(i)], Config(i)) = {Config(i)}
      BY <1>1, <3>1 DEF FilesWhole, Landed
    <3>4. \A p \in Places : file'[p] = IF p = Target(i) THEN Config(i) ELSE file[p]
      BY <1>0, <2>2, <3>1, <3>3 DEF Write, TypeOK
    <3>5. Genuine(Target(i), Config(i))
      BY <3>1 DEF Genuine
    <3>6. \A j \in Inits : At(j, "write") => Target(j) \in Places
      BY Begins DEF At
    <3> QED BY <1>1, <3>1, <3>2, <3>4, <3>5, <3>6 DEF FilesWhole, At
  <2>3. ASSUME NEW i \in Inits, InitStep(i) \/ Kill(i), ~Open(i), ~Write(i) PROVE <1>3!:
    BY <1>1, <2>3, OtherPlaces DEF FilesWhole, At
  <2>4. CASE UNCHANGED init /\ UNCHANGED <<file, request, opened, collided>>
    BY <1>1, <2>4 DEF FilesWhole, At
  <2> QED BY <2>1, <2>2, <2>3, <2>4, NextCases
<1>4. \A p \in Places : (file[p] = Truncated \/ Genuine(p, file[p]))'
  BY <1>3, GenuineKept DEF Genuine
<1>5. \A r \in Readers : reader'[r].at = "loaded" => Genuine(reader'[r].place, reader'[r].config)
  <2>1. ASSUME NEW r \in Readers, Find(r) \/ Load(r) PROVE <1>5!:
    <3>1. PICK ctx \in ReaderLocals :
            /\ reader' = [reader EXCEPT ![r] = ctx]
            /\ ctx.at = "loaded" => ctx = Taking(r) /\ Loadable(file[reader[r].place])
      <4>1. reader[r] \in ReaderLocals
        BY <1>0 DEF TypeOK, ReaderLocals
      <4>2. Missed(r).at = "missing" /\ Rejecting(r).at = "rejected"
            /\ \A p : Spotted(r, p).at = "load"
        BY <4>1 DEF Missed, Spotted, Rejecting, ReaderLocals
      <4> QED BY <1>0, <2>1, <4>2, ReaderSteps
    <3>2. reader[r] \in ReaderLocals /\ file[reader[r].place] # Truncated
            => Genuine(reader[r].place, file[reader[r].place])
      BY <1>1 DEF FilesWhole, ReaderLocals
    <3>3. ctx.at = "loaded" => Genuine(ctx.place, ctx.config)
      BY <1>0, <3>1, <3>2 DEF Taking, Loadable, TypeOK, ReaderLocals
    <3>4. \A q \in Readers : reader'[q] = IF q = r THEN ctx ELSE reader[q]
      BY <1>0, <3>1 DEF TypeOK
    <3> QED BY <1>1, <3>3, <3>4 DEF FilesWhole
  <2>2. CASE reader' = reader
    BY <1>1, <2>2 DEF FilesWhole
  <2>3. ASSUME NEW i \in Inits, InitStep(i) PROVE reader' = reader
    BY <2>3, InitStepElse
  <2> QED BY <2>1, <2>2, <2>3 DEF Next, clusterVars, Kill, Resize
<1>6. \A r \in Readers : (reader[r].at = "loaded" => Genuine(reader[r].place, reader[r].config))'
  BY <1>5, GenuineKept DEF Genuine
<1> QED BY <1>2, <1>3, <1>4, <1>6 DEF FilesWhole, At

\* Unless two inits have written one file at once, what a command loads has been written
\* whole, or was there in the beginning (LoadedIsWhole).
THEOREM LoadedWhole == Spec => []LoadedIsWhole
<1>1. Whole => LoadedIsWhole
  BY DEF Whole, FilesWhole, Genuine, LoadedIsWhole
<1> QED BY <1>1, InitTyped, NextTyped, InitWhole, NextWhole, PTL DEF Spec

----------------------------------------------------------------------------
(* The effect of a lone init.                                              *)

\* Two inits that have collided are two.
CollidersDiffer == collided => \E i, j \in opened : i # j

\* What a lone init has written is what the file holds.
LoneWritten ==
  \A i \in Inits : opened = {i} /\ At(i, "done") => file[Target(i)] = Config(i)

\* Commands that started after it.
Successors ==
  \A r \in Readers :
    /\ reader[r].at = "start" => reader[r].after = {}
    /\ \A i \in reader[r].after : At(i, "done")

HasEffect(r, i) ==
  \/ reader[r].at = "load" /\ reader[r].place = Target(i)
  \/ reader[r].at = "loaded" /\ reader[r].config = Config(i)

EffectSeen ==
  \A r \in Readers : \A i \in reader[r].after :
    opened = {i} /\ (file["cwd"] = NoFile \/ Target(i) = "cwd") => HasEffect(r, i)

Effective == CollidersDiffer /\ LoneWritten /\ Successors /\ EffectSeen

LEMMA InitEffects == Init => Effective
BY DEF Init, Effective, CollidersDiffer, LoneWritten, Successors, EffectSeen

\* Once a lone init is done, it stays so, and the file is left alone as long as it is alone.
LEMMA DoneStays ==
  ASSUME Typed, [Next]_clusterVars, NEW i \in Inits, At(i, "done")
  PROVE  /\ init'[i].at = "done" /\ Config(i)' = Config(i) /\ Target(i)' = Target(i)
         /\ opened' = {i} => file' = file /\ opened = {i}
<1>0. i \in opened /\ init \in [Inits -> Locals]
  BY DEF At, Typed, TypeOK, Locals, AllSane, Sane
<1>1. Config(i)' = Config(i) /\ Target(i)' = Target(i)
  BY <1>0, ConfigKept
<1>2. ASSUME NEW j \in Inits, Open(j) \/ Write(j)
      PROVE  init'[i].at = "done" /\ opened' # {i}
  <2>1. j # i /\ j \in opened'
    BY <1>2, Begins DEF Open, Write, At
  <2> QED BY <1>2, <2>1, OthersStay DEF Open, Write, Steps, At
<1>3. ASSUME NEW j \in Inits, InitStep(j) \/ Kill(j), ~Open(j), ~Write(j)
      PROVE  init'[i].at = "done" /\ file' = file /\ opened' = opened
  BY <1>3, OtherPlaces DEF At
<1>4. CASE UNCHANGED init /\ UNCHANGED <<file, request, opened, collided>>
  BY <1>1, <1>4 DEF At
<1> QED BY <1>1, <1>2, <1>3, <1>4, NextCases DEF At

LEMMA NextCollided ==
  ASSUME Typed, CollidersDiffer, [Next]_clusterVars
  PROVE  CollidersDiffer'
<1>1. ASSUME NEW i \in Inits, Open(i) PROVE CollidersDiffer'
  <2>1. \A j \in Writing(Target(i)) : j \in opened /\ j # i
    BY <1>1, Begins DEF Open, Writing, At
  <2> QED BY <1>1, <2>1 DEF Open, CollidersDiffer
<1>2. ASSUME NEW i \in Inits, Write(i) PROVE CollidersDiffer'
  BY <1>2 DEF Write, CollidersDiffer
<1>3. ASSUME NEW i \in Inits, InitStep(i) \/ Kill(i), ~Open(i), ~Write(i)
      PROVE  CollidersDiffer'
  BY <1>3, OtherPlaces DEF CollidersDiffer
<1>4. CASE UNCHANGED init /\ UNCHANGED <<file, request, opened, collided>>
  BY <1>4 DEF CollidersDiffer
<1> QED BY <1>1, <1>2, <1>3, <1>4, NextCases

LEMMA NextLoneWritten ==
  ASSUME Typed, Whole, CollidersDiffer, LoneWritten, [Next]_clusterVars
  PROVE  LoneWritten'
<1> SUFFICES ASSUME NEW i \in Inits, opened' = {i}, init'[i].at = "done"
             PROVE  file'[Target(i)'] = Config(i)'
  BY DEF LoneWritten, At
<1>1. CASE At(i, "done")
  BY <1>1, DoneStays DEF LoneWritten
<1>2. CASE ~At(i, "done")
  <2>1. Write(i)
    <3>1. ASSUME NEW j \in Inits, Open(j) \/ (Write(j) /\ j # i) PROVE FALSE
      BY <1>2, <3>1, OthersStay DEF Open, Write, Steps, At
    <3>2. ASSUME NEW j \in Inits, InitStep(j) \/ Kill(j), ~Open(j), ~Write(j) PROVE FALSE
      BY <1>2, <3>2, OtherPlaces DEF At
    <3> QED BY <1>2, <3>1, <3>2, NextCases DEF At
  <2>2. opened = {i} /\ Target(i) \in Places /\ At(i, "write")
    BY <2>1, Begins DEF Write, At
  <2>3. ~collided
    BY <2>2 DEF CollidersDiffer
  <2>4. Landed(file[Target(i)], Config(i)) = {Config(i)}
    BY <2>2, <2>3 DEF Whole, FilesWhole, Landed
  <2>5. file'[Target(i)] = Config(i)
    BY <2>1, <2>2, <2>4 DEF Write, Typed, TypeOK
  <2> QED BY <2>2, <2>5, ConfigKept
<1> QED BY <1>1, <1>2

\* A reader that does not move.
LEMMA IdleReader ==
  ASSUME Typed, Effective, [Next]_clusterVars, NEW r \in Readers, reader'[r] = reader[r]
  PROVE  /\ reader'[r].at = "start" => reader'[r].after = {}
         /\ \A i \in reader'[r].after : init'[i].at = "done"
         /\ \A i \in reader'[r].after :
              opened' = {i} /\ (file'["cwd"] = NoFile \/ Target(i)' = "cwd") => HasEffect(r, i)'
<1>1. reader[r].after \subseteq Inits
  BY DEF Typed, TypeOK
<1>2. \A i \in reader[r].after :
        /\ At(i, "done") /\ init'[i].at = "done"
        /\ Config(i)' = Config(i) /\ Target(i)' = Target(i)
        /\ opened' = {i} => file' = file /\ opened = {i}
  BY <1>1, DoneStays DEF Effective, Successors
<1>3. ASSUME NEW i \in reader[r].after, opened' = {i}, file'["cwd"] = NoFile \/ Target(i)' = "cwd"
      PROVE  HasEffect(r, i)'
  <2>1. HasEffect(r, i)
    BY <1>2, <1>3 DEF Effective, EffectSeen
  <2> QED BY <1>2, <2>1 DEF HasEffect
<1> QED BY <1>2, <1>3 DEF Effective, Successors

\* A reader that looks for the file, or reads it.
LEMMA BusyReader ==
  ASSUME Typed, Effective, NEW r \in Readers, Find(r) \/ Load(r)
  PROVE  /\ reader'[r].at = "start" => reader'[r].after = {}
         /\ \A i \in reader'[r].after : init'[i].at = "done"
         /\ \A i \in reader'[r].after :
              opened' = {i} /\ (file'["cwd"] = NoFile \/ Target(i)' = "cwd") => HasEffect(r, i)'
<1>0. Looking /\ reader[r] \in ReaderLocals /\ reader \in [Readers -> ReaderLocals] /\ TypeOK
  BY DEF Find, Load, Typed, TypeOK, ReaderLocals
<1>1. \A i : Config(i)' = Config(i) /\ Target(i)' = Target(i)
  BY <1>0 DEF Looking, Config, Target
<1>2. \A i \in Inits : At(i, "done") => Config(i) \in Configs /\ Target(i) \in Places
  BY ConfigTyped DEF At
<1>3. CASE Find(r)
  <2>1. /\ reader[r].at = "start" /\ reader'[r].at \in {"missing", "load"}
        /\ reader'[r].after = {i \in Inits : At(i, "done")}
        /\ reader'[r].at = "missing" => FoundAt = {}
        /\ reader'[r].at = "load" => reader'[r].place \in FoundAt
    <3>1. reader[r].at = "start"
      BY <1>3 DEF Find
    <3>2. PICK ctx \in ReaderLocals :
            /\ reader' = [reader EXCEPT ![r] = ctx]
            /\ \/ FoundAt = {} /\ ctx = Missed(r)
               \/ \E p \in FoundAt : ctx = Spotted(r, p)
      BY <1>0, <1>3, <3>1, ReaderSteps
    <3>3. Missed(r).at = "missing" /\ Missed(r).after = {i \in Inits : At(i, "done")}
      BY <1>0 DEF Missed, ReaderLocals
    <3>4. \A p \in FoundAt : /\ Spotted(r, p).at = "load" /\ Spotted(r, p).place = p
                            /\ Spotted(r, p).after = {i \in Inits : At(i, "done")}
      BY <1>0 DEF Spotted, ReaderLocals
    <3> QED BY <1>0, <3>1, <3>2, <3>3, <3>4
  <2>2. ASSUME NEW i \in Inits, At(i, "done"), opened = {i},
               file["cwd"] = NoFile \/ Target(i) = "cwd"
        PROVE  FoundAt = {Target(i)}
    <3>1. file[Target(i)] = Config(i) /\ Config(i) # NoFile
      BY <1>2, <2>2, ClusterInitAssumption DEF ClusterInitAssumption, Effective, LoneWritten
    <3> QED BY <1>2, <2>2, <3>1 DEF FoundAt, Places
  <2>3. ASSUME NEW i \in reader'[r].after, opened' = {i},
               file'["cwd"] = NoFile \/ Target(i)' = "cwd"
        PROVE  HasEffect(r, i)'
    <3>1. i \in Inits /\ At(i, "done") /\ opened = {i} /\ file' = file /\ Target(i)' = Target(i)
      BY <1>0, <1>1, <2>1, <2>3 DEF Looking
    <3>2. FoundAt = {Target(i)}
      BY <2>2, <2>3, <3>1
    <3>3. reader'[r].at = "load" /\ reader'[r].place = Target(i)
      BY <2>1, <3>2
    <3> QED BY <3>1, <3>3 DEF HasEffect
  <2>4. \A i \in reader'[r].after : init'[i].at = "done"
    BY <1>0, <2>1 DEF Looking, At
  <2>5. reader'[r].at # "start"
    BY <2>1
  <2> QED BY <2>3, <2>4, <2>5
<1>4. CASE Load(r)
  <2>1. reader[r].at = "load" /\ reader'[r].after = reader[r].after /\ reader'[r].at # "start"
    BY <1>0, <1>4 DEF Load, ReaderLocals
  <2>2. \A i \in reader[r].after : i \in Inits /\ At(i, "done")
    BY <1>0 DEF Effective, Successors, ReaderLocals
  <2>3. ASSUME NEW i \in reader[r].after, opened = {i},
               file["cwd"] = NoFile \/ Target(i) = "cwd"
        PROVE  reader'[r].at = "loaded" /\ reader'[r].config = Config(i)
    <3>1. reader[r].place = Target(i)
      BY <2>1, <2>3 DEF Effective, EffectSeen, HasEffect
    <3>2. file[Target(i)] = Config(i) /\ Config(i) \in Configs
      BY <1>2, <2>2, <2>3 DEF Effective, LoneWritten
    <3>3. Loadable(Config(i)) /\ Config(i) # Mixed
      BY <3>2, ClusterInitAssumption DEF ClusterInitAssumption, Loadable
    <3> QED BY <1>0, <1>4, <3>1, <3>2, <3>3 DEF Load, ReaderLocals
  <2>4. ASSUME NEW i \in reader'[r].after, opened' = {i},
               file'["cwd"] = NoFile \/ Target(i)' = "cwd"
        PROVE  HasEffect(r, i)'
    BY <1>0, <1>1, <2>1, <2>3, <2>4 DEF HasEffect, Looking
  <2> QED BY <1>0, <2>1, <2>2, <2>4 DEF Looking, At
<1> QED BY <1>3, <1>4

LEMMA NextEffective ==
  ASSUME Typed, Whole, Effective, [Next]_clusterVars
  PROVE  Effective'
<1>1. \A r \in Readers :
        \/ reader'[r] = reader[r]
        \/ Find(r) \/ Load(r)
  <2>1. ASSUME NEW i \in Inits, InitStep(i) PROVE reader' = reader
    BY <2>1, InitStepElse
  <2>2. ASSUME NEW q \in Readers, Find(q) \/ Load(q)
        PROVE  \A r \in Readers : r # q => reader'[r] = reader[r]
    <3>1. PICK ctx \in ReaderLocals : reader' = [reader EXCEPT ![q] = ctx]
      BY <2>2, ReaderSteps DEF Typed
    <3> QED BY <3>1 DEF Typed, TypeOK
  <2> QED BY <2>1, <2>2 DEF Next, clusterVars, Kill, Resize
<1>2. Successors' /\ EffectSeen'
  BY <1>1, IdleReader, BusyReader DEF Successors, EffectSeen, At
<1>3. CollidersDiffer' /\ LoneWritten'
  BY NextCollided, NextLoneWritten DEF Effective
<1> QED BY <1>2, <1>3 DEF Effective

\* A command that starts after a lone init has ended well loads what that init has
\* discovered (InitTakesEffect).
THEOREM InitEffective == Spec => []InitTakesEffect
<1>1. Effective => InitTakesEffect
  BY DEF Effective, EffectSeen, HasEffect, InitTakesEffect
<1> QED BY <1>1, InitTyped, NextTyped, InitWhole, NextWhole, InitEffects, NextEffective, PTL
        DEF Spec

----------------------------------------------------------------------------
(* Discovery misses no source that answers.                                *)

Plainly(i) == request[i].backend = "auto" /\ request[i].ctl # "misnamed"

\* What an init that nothing has disturbed has tried in vain.
Tried(i, ctx) ==
  /\ ctx.at \in {"probe", "status"} => \A j \in 1..(ctx.try - 1) : Described[j] = {}
  /\ ctx.at = "local" => ~CtlAnswers(i) /\ \A port \in 1..(ctx.try - 1) : Rows(port) = {}
  /\ ctx.at = "error" => ~CtlAnswers(i) /\ ~PsqlAnswers

AllTried == disturbances = 0 => \A i \in Inits : Plainly(i) => Tried(i, init[i])

LEMMA GotoPlace ==
  ASSUME Typed, NEW i \in Inits, NEW step, Goto(i, step)
  PROVE  init'[i].at = step /\ init'[i].try = 1
<1>1. init[i] \in Locals
  BY DEF Typed, TypeOK, Locals
<1>2. init' = [init EXCEPT ![i] = Onward(i, step)]
  BY <1>1 DEF Goto, Onward, Typed, TypeOK, Locals
<1>3. Onward(i, step).at = step /\ Onward(i, step).try = 1
  BY <1>1 DEF Onward, Locals
<1> QED BY <1>2, <1>3 DEF Typed, TypeOK

LEMMA AgainPlace ==
  ASSUME Typed, NEW i \in Inits, Again(i)
  PROVE  init'[i].at = init[i].at /\ init'[i].try = init[i].try + 1
<1>1. init[i] \in Locals
  BY DEF Typed, TypeOK, Locals
<1> QED BY <1>1 DEF Again, Typed, TypeOK, Locals

\* The first config file accepted describes no node that is there.
LEMMA StatusEmpty ==
  ASSUME Typed, NEW i \in Inits, init[i].at \in {"probe", "status"}, Tried(i, init[i]),
         Described[init[i].try] # {}, Status(i) = {}
  PROVE  ~CtlAnswers(i)
<1>1. init[i].try \in 1..Len(Described)
  BY DEF Typed, AllSane, Sane
<1>2. ASSUME NEW k \in DOMAIN Described, Described[k] \intersect listed # {},
             \A j \in 1..(k - 1) : Described[j] = {}
      PROVE  FALSE
  <2>1. k \in 1..Len(Described) /\ ~(k < init[i].try) /\ ~(init[i].try < k)
    BY <1>1, <1>2, DescribedNodes DEF Tried
  <2> QED BY <1>1, <1>2, <2>1 DEF Status
<1> QED BY <1>2 DEF CtlAnswers

\* No config file describes anything.
LEMMA StatusExhausted ==
  ASSUME Typed, NEW i \in Inits, init[i].at \in {"probe", "status"}, Tried(i, init[i]),
         Described[init[i].try] = {}, ~(init[i].try < Len(Described))
  PROVE  ~CtlAnswers(i)
<1>1. init[i].try \in 1..Len(Described)
  BY DEF Typed, AllSane, Sane
<1>2. \A k \in DOMAIN Described : Described[k] = {}
  BY <1>1, DescribedNodes DEF Tried
<1> QED BY <1>2 DEF CtlAnswers

LEMMA CtlUnableTried ==
  ASSUME Typed, NEW i \in Inits, Plainly(i), CtlUnable(i), ~CtlAnswers(i)
  PROVE  Tried(i, init'[i])
BY GotoPlace DEF Plainly, CtlUnable, Tried

LEMMA StepTried ==
  ASSUME Typed, NEW i \in Inits, InitStep(i) \/ Kill(i), UNCHANGED disturbances, Plainly(i),
         Tried(i, init[i]), disturbances = 0
  PROVE  Tried(i, init'[i])
<1>0. init[i] \in Locals /\ Sane(i, init[i], request[i], opened) /\ ~Disturb
  BY DEF Typed, TypeOK, Locals, AllSane, Disturb
<1>1. CASE Begin(i)
  <2>1. CASE request[i].ctl = "absent" /\ CtlUnable(i)
    BY <2>1, CtlUnableTried DEF CtlAnswers
  <2>2. CASE Goto(i, "help")
    BY <2>2, GotoPlace DEF Tried
  <2> QED BY <1>1, <2>1, <2>2 DEF Begin, Plainly
<1>2. CASE Help(i)
  <2>1. init'[i].at \in {"status", "probe"} /\ init'[i].try = 1
    BY <1>2, GotoPlace DEF Help
  <2> QED BY <2>1 DEF Tried
<1>3. CASE AskStatus(i)
  <2>1. CASE Status(i) = {} /\ CtlUnable(i)
    BY <1>3, <2>1, StatusEmpty, CtlUnableTried DEF AskStatus, At
  <2>2. CASE Goto(i, "status")
    <3>1. init'[i].at = "status" /\ init'[i].try = 1
      BY <2>2, GotoPlace
    <3> QED BY <3>1 DEF Tried
  <2>3. CASE TakeStatus(i, Status(i))
    <3> DEFINE nodes == Status(i)
               ctx == [init[i] EXCEPT
                         !.at = IF nodes \intersect Coordinators = {} THEN "open" ELSE "psql",
                         !.try = 1, !.told = nodes, !.nodes = Own(nodes)]
    <3>1. init' = [init EXCEPT ![i] = ctx]
      BY <1>0, <2>3 DEF TakeStatus, Locals, Typed, TypeOK
    <3> HIDE DEF nodes
    <3>2. ctx.at \in {"open", "psql"}
      BY <1>0 DEF Locals
    <3> HIDE DEF ctx
    <3>3. init'[i].at \in {"open", "psql"}
      BY <3>1, <3>2 DEF Typed, TypeOK
    <3> QED BY <3>3 DEF Tried
  <2> QED BY <1>3, <2>1, <2>2, <2>3 DEF AskStatus
<1>4. CASE AskStatusInVain(i)
  <2>1. init[i].at \in {"probe", "status"} /\ init[i].try \in 1..Len(Described)
        /\ Described[init[i].try] = {}
    BY <1>0, <1>4 DEF AskStatusInVain, At, Sane
  <2>2. CASE init[i].try < Len(Described) /\ Again(i)
    <3>1. init'[i].at = init[i].at /\ init'[i].try = init[i].try + 1
      BY <2>2, AgainPlace
    <3> QED BY <2>1, <3>1 DEF Tried
  <2>3. CASE ~(init[i].try < Len(Described)) /\ CtlUnable(i)
    BY <2>1, <2>3, StatusExhausted, CtlUnableTried
  <2> QED BY <1>4, <2>2, <2>3 DEF AskStatusInVain, StatusRefused
<1>5. CASE AskPrimary(i)
  <2>1. init'[i].at = "open"
    <3>1. CASE Unverified(i)
      BY <3>1, GotoPlace DEF Unverified, Plainly
    <3>2. CASE ~Unverified(i)
      BY <1>5, <3>2 DEF AskPrimary, Typed, TypeOK
    <3> QED BY <3>1, <3>2
  <2> QED BY <2>1 DEF Tried
<1>6. CASE AskLocal(i)
  <2>1. init[i].at = "local" /\ init[i].try \in 1..3
    BY <1>0, <1>6 DEF AskLocal, At, Sane
  <2>2. CASE Rows(init[i].try) = {} /\ init[i].try < 3 /\ Again(i)
    <3>1. init'[i].at = "local" /\ init'[i].try = init[i].try + 1
      BY <2>1, <2>2, AgainPlace
    <3> QED BY <2>1, <2>2, <3>1 DEF Tried
  <2>3. CASE Rows(init[i].try) = {} /\ ~(init[i].try < 3) /\ Goto(i, "error")
    <3>1. init'[i].at = "error"
      BY <2>3, GotoPlace
    <3>2. \A port \in 1..3 : Rows(port) = {}
      BY <2>1, <2>3 DEF Tried
    <3> QED BY <2>1, <3>1, <3>2 DEF Tried, PsqlAnswers
  <2>4. CASE Rows(init[i].try) # {}
    <3>1. init'[i].at = "open"
      BY <1>6, <2>4 DEF AskLocal, Typed, TypeOK
    <3> QED BY <3>1 DEF Tried
  <2> QED BY <1>6, <2>2, <2>3, <2>4 DEF AskLocal, NextPort
<1>7. CASE Open(i) \/ Write(i)
  <2>1. init'[i].at \in {"write", "done"}
    BY <1>7, GotoPlace DEF Open, Write
  <2> QED BY <2>1 DEF Tried
<1> QED BY <1>0, <1>1, <1>2, <1>3, <1>4, <1>5, <1>6, <1>7
        DEF InitStep, Kill, HelpFails, StatusFails, PrimaryFails, LocalFails

LEMMA NextTried ==
  ASSUME Typed, AllTried, [Next]_clusterVars
  PROVE  AllTried'
<1> SUFFICES ASSUME disturbances' = 0, NEW i \in Inits, Plainly(i)' PROVE Tried(i, init[i])'
  BY DEF AllTried
<1>1. ~Disturb /\ disturbances \in Nat
  BY DEF Disturb, Typed, TypeOK
<1>2. UNCHANGED <<listed, pgxc, request, disturbances>>
  <2>1. ASSUME NEW j \in Inits, InitStep(j) PROVE UNCHANGED <<listed, pgxc, request, disturbances>>
    BY <1>1, <2>1 DEF InitStep, Begin, Help, HelpFails, AskStatus, AskStatusInVain, StatusFails,
                      AskPrimary, PrimaryFails, AskLocal, LocalFails, Open, Write, Asking,
                      Quietly, sources
  <2> QED BY <1>1, <2>1 DEF Next, clusterVars, sources, Kill, Find, Load, Looking, Resize
<1>3. Tried(i, init'[i])
  <2>1. Plainly(i) /\ disturbances = 0 /\ Tried(i, init[i])
    BY <1>2 DEF Plainly, AllTried
  <2>2. ASSUME NEW j \in Inits, InitStep(j) \/ Kill(j) PROVE Tried(i, init'[i])
    <3>1. CASE j = i
      BY <1>2, <2>1, <2>2, <3>1, StepTried
    <3>2. CASE j # i
      BY <2>1, <2>2, <3>2, StepView DEF Typed, TypeOK
    <3> QED BY <3>1, <3>2
  <2>3. CASE UNCHANGED init
    BY <2>1, <2>3
  <2> QED BY <2>2, <2>3, NextCases
<1> QED BY <1>2, <1>3 DEF Tried, CtlAnswers, PsqlAnswers, Rows

\* As long as nothing fails or changes, an `auto` init gives up only if neither source has an
\* answer (AutoFindsWhatAnswers).
THEOREM AutoFinds == Spec => []AutoFindsWhatAnswers
<1>1. Init => AllTried
  BY DEF Init, AllTried, Tried
<1>2. AllTried => AutoFindsWhatAnswers
  BY DEF AllTried, Tried, Plainly, AutoFindsWhatAnswers, At
<1> QED BY <1>1, <1>2, InitTyped, NextTyped, NextTried, PTL DEF Spec

----------------------------------------------------------------------------
(* Every node once.                                                        *)

\* An init keeps each node that opentenbase_ctl named, once and under its own role, and
\* gives no two of them the port of one row of pgxc_node, whatever the names in the two
\* sources are.
NodesOnce(nodes) ==
  /\ \A e, f \in nodes : e[1] = f[1] <=> e[2] = f[2]
  /\ \A e \in nodes : Role[e[1]] = Role[e[2]]

EachNodeOnce ==
  \A i \in Inits :
    /\ NodesOnce(init[i].nodes)
    /\ init[i].told # {} => {e[1] : e \in init[i].nodes} = init[i].told

\* The two orders of the names.
Orders == {CtlRank, PgxcRank}

LEMMA OrdersTyped ==
  ASSUME NEW rank \in Orders
  PROVE  /\ \A n \in Nodes : rank[n] \in Nat
         /\ \A m, n \in Nodes : m # n => rank[m] # rank[n]
BY ClusterInitAssumption DEF ClusterInitAssumption, Orders

\* The places of the nodes of one role are as many as these nodes, and each is taken once.
LEMMA PlacesTaken ==
  ASSUME NEW rank \in Orders, NEW nodes \in SUBSET Nodes, NEW role \in {"cn", "dn"}
  PROVE  /\ Cardinality(OfRole(nodes, role)) \in Nat
         /\ \A n \in OfRole(nodes, role) :
              Position(n, nodes, rank) \in 0 .. Cardinality(OfRole(nodes, role)) - 1
         /\ \A m, n \in OfRole(nodes, role) :
              Position(m, nodes, rank) = Position(n, nodes, rank) => m = n
         /\ \A k \in 0 .. Cardinality(OfRole(nodes, role)) - 1 :
              \E n \in OfRole(nodes, role) : Position(n, nodes, rank) = k
<1> DEFINE R == OfRole(nodes, role)
           c == Cardinality(R)
           Below(n) == {l \in R : rank[l] < rank[n]}
<1>1. R \subseteq Nodes /\ IsFiniteSet(R) /\ c \in Nat
  <2>1. R \subseteq Nodes /\ IsFiniteSet(Nodes)
    BY ClusterInitAssumption DEF ClusterInitAssumption, OfRole
  <2> QED BY <2>1, FS_Subset, FS_CardinalityType
<1>2. \A n \in R : Position(n, nodes, rank) = Cardinality(Below(n))
  BY DEF Position, OfRole
<1>3. \A n \in R : IsFiniteSet(Below(n)) /\ Cardinality(Below(n)) \in Nat
                   /\ Cardinality(Below(n)) <= c
  <2>1. \A n \in R : Below(n) \in SUBSET R
    OBVIOUS
  <2> QED BY <1>1, <2>1, FS_Subset, FS_CardinalityType
<1>4. \A n \in R : Cardinality(Below(n)) \in 0 .. c - 1
  <2>1. ASSUME NEW n \in R PROVE Cardinality(Below(n)) # c
    <3>1. n \notin Below(n) /\ Below(n) \in SUBSET R
      BY <1>1, OrdersTyped
    <3> QED BY <1>1, <3>1, FS_Subset
  <2>2. \A x \in Nat : x <= c /\ x # c => x \in 0 .. c - 1
    BY <1>1
  <2> HIDE DEF Below, R, c
  <2> QED BY <1>3, <2>1, <2>2
<1>5. ASSUME NEW m \in R, NEW n \in R, rank[m] < rank[n]
      PROVE  Cardinality(Below(m)) # Cardinality(Below(n))
  <2>1. Below(m) \in SUBSET Below(n) /\ m \in Below(n) /\ m \notin Below(m)
    BY <1>1, <1>5, OrdersTyped
  <2> QED BY <1>3, <2>1, FS_Subset
<1>6. ASSUME NEW m \in R, NEW n \in R, m # n
      PROVE  Cardinality(Below(m)) # Cardinality(Below(n))
  <2>1. rank[m] < rank[n] \/ rank[n] < rank[m]
    BY <1>1, <1>6, OrdersTyped
  <2> QED BY <1>5, <2>1
<1>7. ASSUME NEW k \in 0 .. c - 1 PROVE \E n \in R : Cardinality(Below(n)) = k
  <2> DEFINE T == 0 .. c - 1
             f == [n \in R |-> Cardinality(Below(n))]
  <2>1. f \in Injection(R, T)
    BY <1>4, <1>6 DEF Injection, IsInjective
  <2>2. c # 0
    BY <1>1, <1>7
  <2>3. IsFiniteSet(T) /\ Cardinality(T) \in Nat /\ Cardinality(T) <= c
    <3>1. T \in SUBSET Nat /\ c - 1 \in Nat /\ (\A s \in T : s <= c - 1) /\ (c - 1) + 1 = c
      BY <1>1, <2>2
    <3>2. IsFiniteSet(T) /\ Cardinality(T) <= (c - 1) + 1
      BY <3>1, FS_BoundedSetOfNaturals
    <3> QED BY <3>1, <3>2, FS_CardinalityType
  <2>4. c <= Cardinality(T) /\ (c = Cardinality(T) <=> f \in Surjection(R, T))
    BY <2>1, <2>3, FS_Injection
  <2>5. f \in Surjection(R, T)
    BY <1>1, <2>3, <2>4
  <2>6. \E n \in R : f[n] = k
    BY <2>5, <1>7 DEF Surjection
  <2> QED BY <2>6
<1> HIDE DEF Below, c
<1>8. /\ c \in Nat
      /\ \A n \in R : Position(n, nodes, rank) \in 0 .. c - 1
      /\ \A m, n \in R : Position(m, nodes, rank) = Position(n, nodes, rank) => m = n
      /\ \A k \in 0 .. c - 1 : \E n \in R : Position(n, nodes, rank) = k
  BY <1>1, <1>2, <1>4, <1>6, <1>7
<1> QED BY <1>8 DEF c

LEMMA OwnOnce ==
  ASSUME NEW nodes \in SUBSET Nodes
  PROVE  NodesOnce(Own(nodes)) /\ {e[1] : e \in Own(nodes)} = nodes
<1>1. \A e \in Own(nodes) : e[1] = e[2] /\ e[1] \in nodes
  BY DEF Own
<1>2. ASSUME NEW n \in nodes PROVE n \in {e[1] : e \in Own(nodes)}
  <2>1. <<n, n>> \in Own(nodes) /\ <<n, n>>[1] = n
    BY DEF Own
  <2> QED BY <2>1
<1> QED BY <1>1, <1>2 DEF NodesOnce

\* The pairs that are written are one to one, and leave no node out.
LEMMA MergedOnce ==
  ASSUME NEW told \in SUBSET Nodes, NEW rows \in SUBSET Nodes
  PROVE  NodesOnce(Merged(told, rows)) /\ {e[1] : e \in Merged(told, rows)} = told
<1>1. CASE Merged(told, rows) = Own(told)
  BY <1>1, OwnOnce
<1>2. CASE Merged(told, rows) # Own(told)
  <2>1. \A role \in {"cn", "dn"} :
          Cardinality(OfRole(told, role)) = Cardinality(OfRole(rows, role))
    BY <1>2 DEF Merged
  <2>2. Merged(told, rows) =
          {e \in told \X rows :
             /\ Role[e[1]] = Role[e[2]]
             /\ Position(e[1], told, CtlRank) = Position(e[2], rows, PgxcRank)}
    BY <2>1 DEF Merged
  <2>3. CtlRank \in Orders /\ PgxcRank \in Orders
    BY DEF Orders
  <2>4. \A n \in Nodes : Role[n] \in {"cn", "dn"}
    BY ClusterInitAssumption DEF ClusterInitAssumption
  <2>5. ASSUME NEW e \in Merged(told, rows), NEW f \in Merged(told, rows)
        PROVE  e[1] = f[1] <=> e[2] = f[2]
    <3>1. /\ e[1] \in told /\ f[1] \in told /\ e[2] \in rows /\ f[2] \in rows
          /\ Role[e[1]] = Role[e[2]] /\ Role[f[1]] = Role[f[2]]
          /\ Position(e[1], told, CtlRank) = Position(e[2], rows, PgxcRank)
          /\ Position(f[1], told, CtlRank) = Position(f[2], rows, PgxcRank)
      BY <2>2, <2>5
    <3> DEFINE role == Role[e[1]]
    <3>2. ASSUME e[1] = f[1] PROVE e[2] = f[2]
      <4>1. e[2] \in OfRole(rows, role) /\ f[2] \in OfRole(rows, role) /\ role \in {"cn", "dn"}
        BY <2>4, <3>1, <3>2 DEF OfRole
      <4> HIDE DEF role
      <4> QED BY <2>3, <3>1, <3>2, <4>1, PlacesTaken
    <3>3. ASSUME e[2] = f[2] PROVE e[1] = f[1]
      <4>1. e[1] \in OfRole(told, role) /\ f[1] \in OfRole(told, role) /\ role \in {"cn", "dn"}
        BY <2>4, <3>1, <3>3 DEF OfRole
      <4> HIDE DEF role
      <4> QED BY <2>3, <3>1, <3>3, <4>1, PlacesTaken
    <3> QED BY <3>2, <3>3
  <2>6. ASSUME NEW n \in told PROVE \E m \in rows : <<n, m>> \in Merged(told, rows)
    <3> DEFINE role == Role[n]
    <3>1. n \in OfRole(told, role) /\ role \in {"cn", "dn"}
      BY <2>4 DEF OfRole
    <3> HIDE DEF role
    <3>2. Position(n, told, CtlRank) \in 0 .. Cardinality(OfRole(told, role)) - 1
      BY <2>3, <3>1, PlacesTaken
    <3>3. Position(n, told, CtlRank) \in 0 .. Cardinality(OfRole(rows, role)) - 1
      BY <2>1, <3>1, <3>2
    <3>4. PICK m \in OfRole(rows, role) : Position(m, rows, PgxcRank) = Position(n, told, CtlRank)
      BY <2>3, <3>1, <3>3, PlacesTaken
    <3>5. m \in rows /\ Role[m] = role
      BY DEF OfRole
    <3> QED BY <2>2, <3>4, <3>5 DEF role
  <2>7. {e[1] : e \in Merged(told, rows)} \subseteq told
    BY <2>2
  <2>8. told \subseteq {e[1] : e \in Merged(told, rows)}
    <3>1. ASSUME NEW n \in told PROVE n \in {e[1] : e \in Merged(told, rows)}
      <4>1. PICK m \in rows : <<n, m>> \in Merged(told, rows)
        BY <2>6
      <4>2. <<n, m>>[1] = n
        OBVIOUS
      <4> QED BY <4>1, <4>2
    <3> QED BY <3>1
  <2>9. \A e \in Merged(told, rows) : Role[e[1]] = Role[e[2]]
    BY <2>2
  <2> QED BY <2>5, <2>7, <2>8, <2>9 DEF NodesOnce
<1> QED BY <1>1, <1>2

\* What an init has seen of the cluster so far, and what it makes of it.
Viewed(ctx) ==
  /\ ctx.at \in Unasked \ {"psql"} => ctx.told = {}
  /\ IF ctx.rows = {}
     THEN \E s \in SUBSET Nodes : ctx.nodes = Own(s) /\ (ctx.told # {} => ctx.told = s)
     ELSE ctx.nodes = Merged(ctx.told, ctx.rows)

LEMMA GotoViewed ==
  ASSUME Typed, NEW i \in Inits, Viewed(init[i]), NEW step \in Steps, Goto(i, step),
         step \in Unasked \ {"psql"} => init[i].at \in Unasked \ {"psql"}
  PROVE  Viewed(init'[i])
<1>1. PICK ctx \in Locals :
        init' = [init EXCEPT ![i] = ctx] /\ SameView(ctx, init[i]) /\ ctx.at = step
  BY GotoView
<1>2. Viewed(ctx)
  BY <1>1 DEF SameView, Viewed
<1> QED BY <1>1, <1>2 DEF Typed, TypeOK

LEMMA AgainViewed ==
  ASSUME Typed, NEW i \in Inits, Viewed(init[i]), Again(i)
  PROVE  Viewed(init'[i])
<1>1. PICK ctx \in Locals :
        init' = [init EXCEPT ![i] = ctx] /\ SameView(ctx, init[i]) /\ ctx.at = init[i].at
  BY AgainView
<1>2. Viewed(ctx)
  BY <1>1 DEF SameView, Viewed
<1> QED BY <1>1, <1>2 DEF Typed, TypeOK

LEMMA StepViewed ==
  ASSUME Typed, NEW i \in Inits, Viewed(init[i]), InitStep(i) \/ Kill(i)
  PROVE  Viewed(init'[i])
<1>0. init[i] \in Locals /\ init \in [Inits -> Locals] /\ Sane(i, init[i], request[i], opened)
  BY DEF Typed, TypeOK, Locals, AllSane
<1>1. CASE AskStatus(i) /\ TakeStatus(i, Status(i))
  <2>1. Status(i) \in SUBSET Nodes /\ init[i].rows = {}
    BY <1>0, <1>1 DEF AskStatus, At, Status, Typed, TypeOK, Sane, Unasked
  <2> DEFINE nodes == Status(i)
             ctx == [init[i] EXCEPT
                       !.at = IF nodes \intersect Coordinators = {} THEN "open" ELSE "psql",
                       !.try = 1, !.told = nodes, !.nodes = Own(nodes)]
  <2>2. init' = [init EXCEPT ![i] = ctx]
    BY <1>0, <1>1 DEF TakeStatus, Locals
  <2> HIDE DEF nodes
  <2>3. ctx.at \in {"open", "psql"} /\ ctx.rows = {} /\ ctx.told = nodes /\ ctx.nodes = Own(nodes)
    BY <1>0, <2>1 DEF Locals
  <2>4. nodes \in SUBSET Nodes
    BY <2>1 DEF nodes
  <2>5. init'[i] = ctx
    BY <1>0, <2>2
  <2> HIDE DEF ctx
  <2> QED BY <2>3, <2>4, <2>5 DEF Viewed, Unasked
<1>2. CASE AskPrimary(i) /\ ~Unverified(i)
  <2> DEFINE rows == pgxc[Primary(init[i].told)]
             ctx == [init[i] EXCEPT !.at = "open", !.rows = rows,
                                    !.nodes = Merged(init[i].told, rows)]
  <2>1. init' = [init EXCEPT ![i] = ctx] /\ rows # {}
    BY <1>0, <1>2 DEF AskPrimary, Locals
  <2> HIDE DEF rows
  <2>2. ctx.at = "open" /\ ctx.rows = rows /\ ctx.told = init[i].told
        /\ ctx.nodes = Merged(init[i].told, rows)
    BY <1>0 DEF Locals
  <2>3. init'[i] = ctx
    BY <1>0, <2>1
  <2> HIDE DEF ctx
  <2> QED BY <2>1, <2>2, <2>3 DEF Viewed, Unasked
<1>3. CASE AskLocal(i) /\ ~NextPort(i)
  <2> DEFINE rows == Rows(init[i].try)
             ctx == [init[i] EXCEPT !.at = "open", !.nodes = Own(rows)]
  <2>1. /\ init[i].at = "local" /\ init[i].try \in 1..3 /\ init[i].rows = {}
        /\ init[i].told = {}
    BY <1>0, <1>3 DEF AskLocal, At, Sane, Unasked, Viewed
  <2>2. rows \in SUBSET Nodes
    BY <2>1, RowsTyped DEF Typed
  <2>3. init' = [init EXCEPT ![i] = ctx]
    BY <1>0, <1>3 DEF AskLocal, Locals
  <2> HIDE DEF rows
  <2>4. ctx.at = "open" /\ ctx.rows = {} /\ ctx.told = {} /\ ctx.nodes = Own(rows)
    BY <1>0, <2>1 DEF Locals
  <2>5. init'[i] = ctx
    BY <1>0, <2>3
  <2> HIDE DEF ctx
  <2> QED BY <2>2, <2>4, <2>5 DEF Viewed, Unasked
<1>4. CASE Kill(i) \/ Open(i) \/ Write(i) \/ PrimaryFails(i) \/ (AskPrimary(i) /\ Unverified(i))
  <2>1. \E step \in {"killed", "write", "done", "open", "error"} : Goto(i, step)
    BY <1>4 DEF Kill, Open, Write, PrimaryFails, Unverified
  <2> QED BY <2>1, GotoViewed DEF Steps, Unasked
<1>5. CASE Begin(i) \/ Help(i) \/ HelpFails(i) \/ (AskStatus(i) /\ ~TakeStatus(i, Status(i)))
           \/ AskStatusInVain(i) \/ StatusFails(i) \/ LocalFails(i) \/ (AskLocal(i) /\ NextPort(i))
  <2>1. init[i].at \in Unasked \ {"psql"}
    BY <1>5 DEF Begin, Help, HelpFails, AskStatus, AskStatusInVain, StatusFails, LocalFails,
                AskLocal, At, Unasked
  <2>2. Again(i) \/ \E step \in {"local", "error", "help", "status", "probe"} : Goto(i, step)
    BY <1>5 DEF Begin, Help, HelpFails, AskStatus, AskStatusInVain, StatusFails, LocalFails,
                AskLocal, StatusRefused, CtlUnable, NextPort
  <2> QED BY <2>1, <2>2, GotoViewed, AgainViewed DEF Steps
<1> QED BY <1>1, <1>2, <1>3, <1>4, <1>5 DEF InitStep

AllViewed == \A i \in Inits : Viewed(init[i])

LEMMA NextViewed ==
  ASSUME Typed, AllViewed, [Next]_clusterVars
  PROVE  AllViewed'
<1>1. ASSUME NEW i \in Inits, InitStep(i) \/ Kill(i), NEW j \in Inits
      PROVE  Viewed(init'[j])
  <2>1. j # i => init'[j] = init[j]
    BY <1>1, StepView DEF Typed, TypeOK
  <2> QED BY <1>1, <2>1, StepViewed DEF AllViewed
<1>2. CASE UNCHANGED init
  BY <1>2 DEF AllViewed, Viewed
<1> QED BY <1>1, <1>2, NextCases DEF AllViewed, Viewed

\* An init writes each node that opentenbase_ctl has named, once and under its own role, and
\* no two of them with the port of one row of pgxc_node, whatever the names in the two
\* sources are, and whatever fails or changes meanwhile (_merge_ctl_and_sql_topology).
THEOREM EveryNodeOnce == Spec => []EachNodeOnce
<1>1. Init => AllViewed
  <2>1. {} \in SUBSET Nodes /\ Own({}) = {}
    BY DEF Own
  <2> SUFFICES ASSUME Init, NEW i \in Inits PROVE Viewed(init[i])
    BY DEF AllViewed
  <2>2. init[i].told = {} /\ init[i].rows = {} /\ init[i].nodes = {}
    BY DEF Init
  <2> QED BY <2>1, <2>2 DEF Viewed
<1>2. Typed /\ AllViewed => EachNodeOnce
  <2> SUFFICES ASSUME Typed, AllViewed, NEW i \in Inits
               PROVE  /\ NodesOnce(init[i].nodes)
                      /\ init[i].told # {} => {e[1] : e \in init[i].nodes} = init[i].told
    BY DEF EachNodeOnce
  <2>1. init[i].told \in SUBSET Nodes /\ init[i].rows \in SUBSET Nodes
    BY DEF Typed, TypeOK
  <2>2. CASE init[i].rows = {}
    <3>1. PICK s \in SUBSET Nodes :
            init[i].nodes = Own(s) /\ (init[i].told # {} => init[i].told = s)
      BY <2>2 DEF AllViewed, Viewed
    <3>2. NodesOnce(Own(s)) /\ {e[1] : e \in Own(s)} = s
      BY OwnOnce
    <3> QED BY <3>1, <3>2
  <2>3. CASE init[i].rows # {}
    <3>1. init[i].nodes = Merged(init[i].told, init[i].rows)
      BY <2>3 DEF AllViewed, Viewed
    <3>2. /\ NodesOnce(Merged(init[i].told, init[i].rows))
          /\ {e[1] : e \in Merged(init[i].told, init[i].rows)} = init[i].told
      BY <2>1, MergedOnce
    <3> QED BY <3>1, <3>2
  <2> QED BY <2>2, <2>3
<1> QED BY <1>1, <1>2, InitTyped, NextTyped, NextViewed, PTL DEF Spec

\* So does a command that loads what an init wrote, unless two inits wrote one file at once:
\* its configuration is one of the beginning, or has each node once.
LoadedOnce ==
  ~collided =>
    \A r \in Readers : reader[r].at = "loaded" =>
      \/ \E first \in FirstFiles : reader[r].config = first[reader[r].place]
      \/ reader[r].config \in Configs /\ NodesOnce(reader[r].config.nodes)

THEOREM LoadedNodesOnce == Spec => []LoadedOnce
<1>1. TypeOK /\ Typed /\ EachNodeOnce /\ LoadedIsWhole => LoadedOnce
  <2> SUFFICES ASSUME Typed, EachNodeOnce, LoadedIsWhole, ~collided, NEW r \in Readers,
                      reader[r].at = "loaded",
                      NEW i \in opened, reader[r].config = Config(i)
               PROVE  reader[r].config \in Configs /\ NodesOnce(reader[r].config.nodes)
    BY DEF LoadedOnce, LoadedIsWhole
  <2>1. i \in Inits /\ init[i].at # "start"
    BY DEF Typed, TypeOK, AllSane, Sane, Opened
  <2>2. Config(i) \in Configs /\ Config(i).nodes = init[i].nodes
    BY <2>1, ConfigTyped DEF Config
  <2> QED BY <2>1, <2>2 DEF EachNodeOnce
<1>2. Spec => []Typed
  BY InitTyped, NextTyped, PTL DEF Spec
<1> QED BY <1>1, <1>2, TypeCorrect, EveryNodeOnce, LoadedWhole, PTL

----------------------------------------------------------------------------
(* Every init comes to its end.  Fairness is beyond the provers, but not   *)
(* what it rests on: each step of an init leaves it fewer to take, however *)
(* often opentenbase_ctl and psql fail, and nobody else gives it more.     *)

Tries == Len(Described)

\* The steps that an init at place `at`, with its try-th source, may have to take yet.
StepsLeft(at, try) ==
  CASE at = "start" -> 7 + 2 * Tries [] at = "help" -> 6 + 2 * Tries
    [] at = "probe" -> 6 + 2 * Tries - try [] at = "status" -> 6 + Tries - try
    [] at = "local" -> 6 - try [] at = "psql" -> 3 [] at = "open" -> 2 [] at = "write" -> 1
    [] at \in Finished -> 0

Left(i) == StepsLeft(init[i].at, init[i].try)

LeftUntilEnded ==
  \A i \in Inits :
    /\ Left(i) \in 0 .. 7 + 2 * Tries
    /\ Left(i) = 0 <=> init[i].at \in Finished

StepsCount ==
  \A i \in Inits :
    /\ Left(i)' <= Left(i)
    /\ InitStep(i) \/ Kill(i) => Left(i)' < Left(i)

\* The places from which an init goes to another.
Ways ==
  {<<"start", "local">>, <<"start", "error">>, <<"start", "help">>, <<"help", "status">>,
   <<"help", "probe">>, <<"probe", "local">>, <<"probe", "error">>, <<"probe", "status">>,
   <<"status", "local">>, <<"status", "error">>, <<"status", "psql">>, <<"status", "open">>,
   <<"psql", "open">>, <<"psql", "error">>, <<"local", "open">>, <<"local", "error">>,
   <<"open", "write">>, <<"write", "done">>}
  \union ((Steps \ (Finished \union {"start"})) \X {"killed"})

GoesOn(old, new) ==
  \/ /\ new.at = old.at /\ new.try = old.try + 1
     /\ \/ old.at \in {"probe", "status"} /\ old.try < Tries
        \/ old.at = "local" /\ old.try < 3
  \/ /\ <<old.at, new.at>> \in Ways
     /\ new.at \in {"probe", "status", "local"} => new.try = 1

LEMMA GotoGoesOn ==
  ASSUME Typed, NEW i \in Inits, NEW step, Goto(i, step), <<init[i].at, step>> \in Ways
  PROVE  GoesOn(init[i], init'[i])
BY GotoPlace DEF GoesOn

LEMMA AgainGoesOn ==
  ASSUME Typed, NEW i \in Inits, Again(i),
         \/ init[i].at \in {"probe", "status"} /\ init[i].try < Tries
         \/ init[i].at = "local" /\ init[i].try < 3
  PROVE  GoesOn(init[i], init'[i])
BY AgainPlace DEF GoesOn

LEMMA StepGoesOn ==
  ASSUME Typed, NEW i \in Inits, InitStep(i) \/ Kill(i)
  PROVE  GoesOn(init[i], init'[i])
<1>0. init[i] \in Locals /\ init \in [Inits -> Locals]
  BY DEF Typed, TypeOK, Locals
<1>1. CASE Begin(i) \/ Help(i) \/ HelpFails(i)
  <2>1. \E step \in Steps : Goto(i, step) /\ <<init[i].at, step>> \in Ways
    BY <1>1 DEF Begin, Help, HelpFails, CtlUnable, At, Steps, Ways
  <2> QED BY <2>1, GotoGoesOn
<1>2. CASE AskStatus(i)
  <2>1. init[i].at \in {"probe", "status"}
    BY <1>2 DEF AskStatus, At
  <2>2. CASE init[i].at = "status" /\ TakeStatus(i, Status(i))
    <3> DEFINE nodes == Status(i)
               ctx == [init[i] EXCEPT
                         !.at = IF nodes \intersect Coordinators = {} THEN "open" ELSE "psql",
                         !.try = 1, !.told = nodes, !.nodes = Own(nodes)]
    <3>1. init' = [init EXCEPT ![i] = ctx]
      BY <1>0, <2>2 DEF TakeStatus, Locals
    <3> HIDE DEF nodes
    <3>2. ctx.at \in {"open", "psql"}
      BY <1>0 DEF Locals
    <3>3. init'[i] = ctx
      BY <1>0, <3>1
    <3> HIDE DEF ctx
    <3> QED BY <2>2, <3>2, <3>3 DEF GoesOn, Ways
  <2>3. CASE CtlUnable(i) \/ (init[i].at = "probe" /\ Goto(i, "status"))
    <3>1. \E step \in Steps : Goto(i, step) /\ <<init[i].at, step>> \in Ways
      BY <2>1, <2>3 DEF CtlUnable, Steps, Ways
    <3> QED BY <3>1, GotoGoesOn
  <2> QED BY <1>2, <2>2, <2>3 DEF AskStatus, At
<1>3. CASE AskStatusInVain(i) \/ StatusFails(i)
  <2>1. init[i].at \in {"probe", "status"} /\ StatusRefused(i)
    BY <1>3 DEF AskStatusInVain, StatusFails, At
  <2>2. CASE init[i].try < Len(Described) /\ Again(i)
    BY <2>1, <2>2, AgainGoesOn DEF Tries
  <2>3. CASE CtlUnable(i)
    <3>1. \E step \in Steps : Goto(i, step) /\ <<init[i].at, step>> \in Ways
      BY <2>1, <2>3 DEF CtlUnable, Steps, Ways
    <3> QED BY <3>1, GotoGoesOn
  <2> QED BY <2>1, <2>2, <2>3 DEF StatusRefused
<1>4. CASE PrimaryFails(i) \/ (AskPrimary(i) /\ Unverified(i))
  <2>1. \E step \in Steps : Goto(i, step) /\ <<init[i].at, step>> \in Ways
    BY <1>4 DEF PrimaryFails, AskPrimary, Unverified, At, Steps, Ways
  <2> QED BY <2>1, GotoGoesOn
<1>5. CASE (AskPrimary(i) /\ ~Unverified(i)) \/ (AskLocal(i) /\ ~NextPort(i))
  <2>1. init[i].at \in {"psql", "local"} /\ init'[i].at = "open"
    BY <1>0, <1>5 DEF AskPrimary, AskLocal, At, Locals
  <2> QED BY <2>1 DEF GoesOn, Ways
<1>6. CASE LocalFails(i) \/ (AskLocal(i) /\ NextPort(i))
  <2>1. init[i].at = "local" /\ NextPort(i)
    BY <1>6 DEF LocalFails, AskLocal, At
  <2>2. CASE init[i].try < 3 /\ Again(i)
    BY <2>1, <2>2, AgainGoesOn
  <2>3. CASE Goto(i, "error")
    BY <2>1, <2>3, GotoGoesOn DEF Ways
  <2> QED BY <2>1, <2>2, <2>3 DEF NextPort
<1>7. CASE Open(i) \/ Write(i) \/ Kill(i)
  <2>1. \E step \in Steps : Goto(i, step) /\ <<init[i].at, step>> \in Ways
    <3>1. init[i].at \in Steps
      BY <1>0 DEF Locals
    <3> QED BY <1>7, <3>1 DEF Open, Write, Kill, At, Steps, Ways
  <2> QED BY <2>1, GotoGoesOn
<1> QED BY <1>1, <1>2, <1>3, <1>4, <1>5, <1>6, <1>7 DEF InitStep

LEMMA LeftAt ==
  /\ \A try : /\ StepsLeft("start", try) = 7 + 2 * Tries
              /\ StepsLeft("help", try) = 6 + 2 * Tries
              /\ StepsLeft("probe", try) = 6 + 2 * Tries - try
              /\ StepsLeft("status", try) = 6 + Tries - try
              /\ StepsLeft("local", try) = 6 - try
              /\ StepsLeft("psql", try) = 3 /\ StepsLeft("open", try) = 2
              /\ StepsLeft("write", try) = 1
  /\ \A try : \A at \in Finished : StepsLeft(at, try) = 0
BY DEF StepsLeft, Finished

LEMMA LeftCounted ==
  ASSUME Typed, NEW i \in Inits
  PROVE  Left(i) \in 0 .. 7 + 2 * Tries /\ (Left(i) = 0 <=> init[i].at \in Finished)
<1>1. Tries \in Nat /\ init[i].at \in Steps
  BY DescribedNodes DEF Tries, Typed, TypeOK
<1>2. /\ init[i].at \in {"probe", "status"} => init[i].try \in 1 .. Tries
      /\ init[i].at = "local" => init[i].try \in 1 .. 3
  BY DEF Tries, Typed, AllSane, Sane
<1>3. CASE init[i].at \in {"probe", "status", "local"}
  BY <1>1, <1>2, <1>3, LeftAt DEF Left, Finished
<1>4. CASE init[i].at \in Finished
  BY <1>1, <1>4, LeftAt DEF Left
<1>5. CASE init[i].at \in {"start", "help", "psql", "open", "write"}
  BY <1>1, <1>5, LeftAt DEF Left, Finished
<1> QED BY <1>1, <1>3, <1>4, <1>5 DEF Steps, Finished

LEMMA LeftShrinks ==
  ASSUME Typed, NEW i \in Inits, InitStep(i) \/ Kill(i)
  PROVE  Left(i)' < Left(i) /\ Left(i)' <= Left(i)
<1>1. Tries \in Nat /\ Tries >= 1 /\ init[i].at \in Steps /\ init[i].try \in Nat
  BY DescribedNodes DEF Tries, Typed, TypeOK
<1>2. /\ init[i].at \in {"probe", "status"} => init[i].try \in 1 .. Tries
      /\ init[i].at = "local" => init[i].try \in 1 .. 3
  BY DEF Tries, Typed, AllSane, Sane
<1>3. Left(i) = StepsLeft(init[i].at, init[i].try) /\ Left(i)' = StepsLeft(init'[i].at, init'[i].try)
  BY DEF Left, StepsLeft, Tries
<1>4. CASE /\ init'[i].at = init[i].at /\ init'[i].try = init[i].try + 1
           /\ \/ init[i].at \in {"probe", "status"} /\ init[i].try < Tries
              \/ init[i].at = "local" /\ init[i].try < 3
  BY <1>1, <1>2, <1>3, <1>4, LeftAt
<1>5. CASE /\ <<init[i].at, init'[i].at>> \in Ways
           /\ init'[i].at \in {"probe", "status", "local"} => init'[i].try = 1
  BY <1>1, <1>2, <1>3, <1>5, LeftAt DEF Ways, Finished, Steps
<1> QED BY <1>4, <1>5, StepGoesOn DEF GoesOn

\* Whatever fails or changes and however many inits run, an init takes at most seven steps
\* and two for each config file of opentenbase_ctl, and nobody makes it take more.
THEOREM InitsComeToEnd == Spec => [][StepsCount]_clusterVars /\ []LeftUntilEnded
<1>1. Typed => LeftUntilEnded
  BY LeftCounted DEF LeftUntilEnded
<1>2. Typed /\ [Next]_clusterVars => [StepsCount]_clusterVars
  <2> SUFFICES ASSUME Typed, [Next]_clusterVars, NEW i \in Inits
               PROVE  Left(i)' <= Left(i) /\ (InitStep(i) \/ Kill(i) => Left(i)' < Left(i))
    BY DEF StepsCount
  <2>0. Left(i) \in Nat
    BY LeftCounted, DescribedNodes DEF Tries
  <2>1. CASE InitStep(i) \/ Kill(i)
    BY <2>1, LeftShrinks
  <2>2. CASE ~(InitStep(i) \/ Kill(i))
    <3>1. init'[i] = init[i]
      BY <2>2, NextCases, StepView DEF Typed, TypeOK
    <3>2. Left(i)' = StepsLeft(init'[i].at, init'[i].try)
      BY DEF Left, StepsLeft, Tries
    <3>3. Left(i)' = Left(i)
      BY <3>1, <3>2 DEF Left
    <3> QED BY <2>0, <2>2, <3>3
  <2> QED BY <2>1, <2>2
<1> QED BY <1>1, <1>2, InitTyped, NextTyped, PTL DEF Spec

=============================================================================
