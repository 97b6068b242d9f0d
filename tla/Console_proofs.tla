--------------------------- MODULE Console_proofs ---------------------------
(***************************************************************************)
(* Theorems about Console, for any number of shells, plugins, folders and  *)
(* lines.                                                                  *)
(***************************************************************************)
EXTENDS Console, WellFoundedInduction, TLAPS

Contexts == [at : Places, line : Lines \union {None}, ok : BOOLEAN, dry : BOOLEAN,
             agreed : BOOLEAN, plugin : Ids \union {None}, catalog : Catalogs,
             source : Sources, previewed : Sources]

\* A shell that is at work has a line and, from the catalog's write on, a plugin.
AtWork(s) ==
  /\ shell[s].at \notin {"prompt", "left"} => shell[s].line \in Lines
  /\ shell[s].at \in {"open", "write", "uncache", "load", "act"} => shell[s].plugin \in Ids

Busy == \A s \in Shells : AtWork(s)

Typed == TypeOK /\ Busy

LEMMA NoEntriesTyped == NoEntries \in Catalogs
BY DEF NoEntries, Catalogs

\* A line is a command and its argument: a folder or an id.
LEMMA LineKinds ==
  ASSUME NEW line \in Lines
  PROVE  /\ line[1] \in Verbs
         /\ line[2] \in Folders \/ line[2] \in Ids
         /\ line[1] = "add" => line[2] \in Folders
         /\ line[1] \notin {"add", "deploy"} => line[2] \in Ids
BY ConsoleAssumption DEF ConsoleAssumption, Verbs, Confirmed

LEMMA InitTyped == Init => Typed
BY NoEntriesTyped, ConsoleAssumption
DEF ConsoleAssumption, Init, Typed, TypeOK, Busy, AtWork, Places, Sources

\* A step of s replaces its context by one of the right type.
LEMMA OneContext ==
  ASSUME Typed, NEW s \in Shells, NEW ctx \in Contexts, shell' = [shell EXCEPT ![s] = ctx],
         ctx.at \notin {"prompt", "left"} => ctx.line \in Lines,
         ctx.at \in {"open", "write", "uncache", "load", "act"} => ctx.plugin \in Ids
  PROVE  shell' \in [Shells -> Contexts] /\ Busy'
<1>1. shell' \in [Shells -> Contexts]
  BY DEF Typed, TypeOK, Contexts
<1>2. ASSUME NEW t \in Shells PROVE AtWork(t)'
  BY <1>2 DEF Typed, TypeOK, Busy, AtWork, Contexts
<1> QED BY <1>1, <1>2 DEF Busy

LEMMA EndsTyped ==
  ASSUME Typed, NEW s \in Shells, shell[s].line \in Lines, NEW ok \in BOOLEAN, Ends(s, ok)
  PROVE  shell' \in [Shells -> Contexts] /\ Busy'
<1> DEFINE ctx == [shell[s] EXCEPT
                     !.at = IF shell[s].dry /\ ok THEN "confirm" ELSE "prompt", !.ok = ok,
                     !.catalog = NoEntries,
                     !.previewed = IF shell[s].dry /\ ok THEN shell[s].source
                                   ELSE shell[s].previewed]
<1>1. shell[s] \in Contexts
  BY DEF Typed, TypeOK, Contexts
<1>2. ctx \in Contexts
  BY <1>1, NoEntriesTyped DEF Contexts, Places
<1>3. shell' = [shell EXCEPT ![s] = ctx]
  BY <1>1 DEF Ends, Contexts, Typed, TypeOK
<1>4. ctx.line \in Lines /\ ctx.at \notin {"open", "write", "uncache", "load", "act"}
  BY <1>1 DEF Contexts
<1> HIDE DEF ctx
<1> QED BY <1>2, <1>3, <1>4, OneContext

LEMMA GotoTyped ==
  ASSUME Typed, NEW s \in Shells, NEW place \in Places, Goto(s, place),
         place \notin {"prompt", "left"} => shell[s].line \in Lines,
         place \in {"open", "write", "uncache", "load", "act"} => shell[s].plugin \in Ids
  PROVE  shell' \in [Shells -> Contexts] /\ Busy'
<1> DEFINE ctx == [shell[s] EXCEPT !.at = place]
<1>1. shell[s] \in Contexts
  BY DEF Typed, TypeOK, Contexts
<1>2. ctx \in Contexts
  BY <1>1 DEF Contexts
<1>3. shell' = [shell EXCEPT ![s] = ctx]
  BY <1>1 DEF Goto, Contexts, Typed, TypeOK
<1>4. ctx.line = shell[s].line /\ ctx.plugin = shell[s].plugin /\ ctx.at = place
  BY <1>1 DEF Contexts
<1> HIDE DEF ctx
<1> QED BY <1>2, <1>3, <1>4, OneContext

\* A command that has read the catalog and goes on to write it.
LEMMA OpensTyped ==
  ASSUME Typed, NEW s \in Shells, shell[s].line \in Lines, NEW p \in Ids, NEW new \in Catalogs,
         shell' = [shell EXCEPT ![s].at = "open", ![s].plugin = p, ![s].catalog = new]
  PROVE  shell' \in [Shells -> Contexts] /\ Busy'
<1> DEFINE ctx == [shell[s] EXCEPT !.at = "open", !.plugin = p, !.catalog = new]
<1>1. shell[s] \in Contexts
  BY DEF Typed, TypeOK, Contexts
<1>2. ctx \in Contexts
  BY <1>1 DEF Contexts, Places
<1>3. shell' = [shell EXCEPT ![s] = ctx]
  BY <1>1 DEF Contexts, Typed, TypeOK
<1>4. ctx.line \in Lines /\ ctx.plugin \in Ids
  BY <1>1 DEF Contexts
<1> HIDE DEF ctx
<1> QED BY <1>2, <1>3, <1>4, OneContext

LEMMA AddTyped ==
  ASSUME Typed, NEW s \in Shells, shell[s].line \in Lines, NEW f \in Folders, AddUserPlugin(s, f)
  PROVE  shell' \in [Shells -> Contexts] /\ Busy'
<1>1. CASE Ends(s, FALSE)
  BY <1>1, EndsTyped
<1>2. CASE ~Ends(s, FALSE)
  <2> DEFINE p == manifest[f]
  <2>1. /\ p \notin {None, Broken} /\ catalog \notin Unreadable
        /\ shell' = [shell EXCEPT ![s].at = "open", ![s].plugin = p, ![s].catalog = Entered(p, f)]
    BY <1>2 DEF AddUserPlugin
  <2>2. p \in Ids /\ catalog \in Catalogs
    BY <2>1 DEF Typed, TypeOK, Manifests
  <2>3. Entered(p, f) \in Catalogs
    BY <2>2 DEF Entered, Catalogs
  <2> QED BY <2>1, <2>2, <2>3, OpensTyped
<1> QED BY <1>1, <1>2

LEMMA LoadsNextTyped ==
  ASSUME Typed, NEW s \in Shells, shell[s].line \in Lines, NEW p \in Ids,
         shell' = [shell EXCEPT ![s].at = "load", ![s].plugin = p]
  PROVE  shell' \in [Shells -> Contexts] /\ Busy'
<1> DEFINE ctx == [shell[s] EXCEPT !.at = "load", !.plugin = p]
<1>1. shell[s] \in Contexts
  BY DEF Typed, TypeOK, Contexts
<1>2. ctx \in Contexts
  BY <1>1 DEF Contexts, Places
<1>3. shell' = [shell EXCEPT ![s] = ctx]
  BY <1>1 DEF Contexts, Typed, TypeOK
<1>4. ctx.line \in Lines /\ ctx.plugin \in Ids
  BY <1>1 DEF Contexts
<1> HIDE DEF ctx
<1> QED BY <1>2, <1>3, <1>4, OneContext

\* Whatever the command, the first step of its dispatch.
LEMMA RunTyped ==
  ASSUME Typed, NEW s \in Shells, Run(s)
  PROVE  shell' \in [Shells -> Contexts] /\ Busy'
<1>1. shell[s].line \in Lines
  BY DEF Run, At, Typed, Busy, AtWork
<1>2. Verb(s) \in Verbs /\ (Arg(s) \in Folders \/ Arg(s) \in Ids)
  BY <1>1, LineKinds DEF Verb, Arg
<1>3. CASE Verb(s) = "add"
  <2>1. Arg(s) \in Folders /\ AddUserPlugin(s, Arg(s))
    BY <1>1, <1>3, LineKinds DEF Run, Verb, Arg
  <2> QED BY <1>1, <2>1, AddTyped
<1>4. CASE Verb(s) = "remove"
  <2>1. Arg(s) \in Ids /\ RunRemove(s)
    BY <1>1, <1>4, LineKinds DEF Run, Verb, Arg
  <2>2. CASE Ends(s, FALSE)
    BY <1>1, <2>2, EndsTyped
  <2>3. CASE ~Ends(s, FALSE)
    <3>1. /\ catalog \notin Unreadable
          /\ shell' = [shell EXCEPT ![s].at = "open", ![s].plugin = Arg(s),
                                    ![s].catalog = [catalog EXCEPT ![Arg(s)] = None]]
      BY <2>1, <2>3 DEF RunRemove
    <3>2. [catalog EXCEPT ![Arg(s)] = None] \in Catalogs
      BY <2>1, <3>1 DEF Typed, TypeOK, Catalogs
    <3> QED BY <1>1, <2>1, <3>1, <3>2, OpensTyped
  <2> QED BY <2>2, <2>3
<1>5. CASE Verb(s) = "deploy"
  <2>1. RunDeploy(s)
    BY <1>5 DEF Run
  <2>2. CASE Arg(s) \in Folders
    BY <1>1, <2>1, <2>2, AddTyped DEF RunDeploy
  <2>3. CASE Arg(s) \notin Folders /\ ~Found(Arg(s)) /\ Arg(s) \in DOMAIN Here
    <3>1. Here[Arg(s)] \in Folders /\ AddUserPlugin(s, Here[Arg(s)])
      BY <2>1, <2>3, ConsoleAssumption DEF RunDeploy, ConsoleAssumption
    <3> QED BY <1>1, <3>1, AddTyped
  <2>4. CASE Arg(s) \notin Folders /\ ~(~Found(Arg(s)) /\ Arg(s) \in DOMAIN Here)
    <3>1. Arg(s) \in Ids /\ shell' = [shell EXCEPT ![s].at = "load", ![s].plugin = Arg(s)]
      BY <1>2, <2>1, <2>4 DEF RunDeploy
    <3> QED BY <1>1, <3>1, LoadsNextTyped
  <2> QED BY <2>2, <2>3, <2>4
<1>6. CASE Verb(s) \notin {"add", "remove", "deploy"}
  <2>1. Arg(s) \in Ids
    BY <1>1, <1>6, LineKinds DEF Verb, Arg
  <2>2. shell' = [shell EXCEPT ![s].at = "load", ![s].plugin = Arg(s)]
    BY <1>6 DEF Run
  <2> QED BY <1>1, <2>1, <2>2, LoadsNextTyped
<1> QED BY <1>3, <1>4, <1>5, <1>6

\* Ids are sorted, so there is a first one.
LEMMA SmallestNat ==
  ASSUME NEW T \in SUBSET Nat, T # {}
  PROVE  \E i \in T : \A j \in T : i <= j
<1>1. PICK i \in T : \A j \in T : <<j, i>> \notin OpToRel(<, Nat)
  BY NatLessThanWellFounded, WFMin
<1>2. \A j \in T : ~(j < i)
  BY <1>1 DEF OpToRel
<1> QED BY <1>2

\* What load_one finds has one of the known origins.
LEMMA SourceTyped ==
  ASSUME Typed, NEW p \in Ids, Found(p)
  PROVE  Source(p) \in Sources
<1>1. catalog \in Catalogs
  BY DEF Typed, TypeOK, Found, Loads
<1>2. ASSUME Declaring(p) # {}
      PROVE  \E i \in Declaring(p) : \A j \in Declaring(p) : i <= j
  <2>1. Declaring(p) \subseteq Nat
    BY ConsoleAssumption DEF ConsoleAssumption, Declaring, Listed
  <2> QED BY <1>2, <2>1, SmallestNat
<1>3. ASSUME Declaring(p) # {}
      PROVE  catalog[CHOOSE i \in Declaring(p) : \A j \in Declaring(p) : i <= j] \in Folders
  <2> DEFINE first == CHOOSE i \in Declaring(p) : \A j \in Declaring(p) : i <= j
  <2>1. first \in Declaring(p)
    BY <1>2, <1>3
  <2>2. first \in Ids /\ catalog[first] # None
    BY <2>1 DEF Declaring, Listed
  <2> QED BY <1>1, <2>2 DEF Catalogs
<1> QED BY <1>3 DEF Source, Sources

LEMMA StepTyped ==
  ASSUME Typed, NEW s \in Shells, Step(s)
  PROVE  Typed'
<1>1. CASE \E line \in Lines : Type(s, line)
  <2>1. PICK line \in Lines : Type(s, line)
    BY <1>1
  <2> DEFINE ctx == [at |-> "run", line |-> line, ok |-> FALSE,
                     dry |-> NeedsConfirmation(line), agreed |-> FALSE, plugin |-> None,
                     catalog |-> NoEntries, source |-> None, previewed |-> None]
  <2>2. ctx \in Contexts
    BY NoEntriesTyped DEF Contexts, Places, Sources, NeedsConfirmation
  <2>3. shell' = [shell EXCEPT ![s] = ctx]
    BY <2>1 DEF Type
  <2>4. ctx.line \in Lines /\ ctx.at \notin {"open", "write", "uncache", "load", "act"}
    OBVIOUS
  <2> HIDE DEF ctx
  <2>5. shell' \in [Shells -> Contexts] /\ Busy'
    BY <2>2, <2>3, <2>4, OneContext
  <2> QED BY <2>1, <2>5 DEF Type, Typed, TypeOK, Contexts
<1>2. CASE Run(s)
  BY <1>2, RunTyped DEF Run, bounds, Typed, TypeOK, Contexts
<1>3. CASE OpenCatalog(s)
  <2>1. shell' \in [Shells -> Contexts] /\ Busy'
    BY <1>3, GotoTyped DEF OpenCatalog, At, Typed, Busy, AtWork, Places
  <2> QED BY <1>3, <2>1 DEF OpenCatalog, Disturb, bounds, Typed, TypeOK, Contexts, Unreadable
<1>4. CASE WriteCatalog(s)
  <2>1. shell[s].line \in Lines /\ shell[s].plugin \in Ids /\ shell[s].catalog \in Catalogs
    BY <1>4 DEF WriteCatalog, At, Typed, Busy, AtWork, TypeOK
  <2>2. Ends(s, TRUE) \/ Goto(s, "uncache") \/ Goto(s, "load")
    BY <1>4 DEF WriteCatalog
  <2>3. shell' \in [Shells -> Contexts] /\ Busy'
    BY <2>1, <2>2, EndsTyped, GotoTyped DEF Places
  <2> QED BY <1>4, <2>1, <2>3
      DEF WriteCatalog, Disturb, bounds, Typed, TypeOK, Contexts, Unreadable
<1>5. CASE RemovePackageCache(s)
  <2>1. shell[s].line \in Lines /\ Ends(s, TRUE)
    BY <1>5 DEF RemovePackageCache, At, Typed, Busy, AtWork
  <2>2. shell' \in [Shells -> Contexts] /\ Busy'
    BY <2>1, EndsTyped
  <2> QED BY <1>5, <2>2 DEF RemovePackageCache, Disturb, bounds, Typed, TypeOK, Contexts
<1>6. CASE LoadOne(s)
  <2>1. shell[s].line \in Lines /\ shell[s].plugin \in Ids /\ shell[s] \in Contexts
    BY <1>6 DEF LoadOne, At, Typed, Busy, AtWork, TypeOK, Contexts
  <2>2. CASE Ends(s, FALSE)
    BY <1>6, <2>1, <2>2, EndsTyped DEF LoadOne, bounds, Typed, TypeOK, Contexts
  <2>3. CASE ~Ends(s, FALSE)
    <3> DEFINE ctx == [shell[s] EXCEPT !.at = "act", !.source = Source(shell[s].plugin)]
    <3>1. /\ Source(shell[s].plugin) \in Sources
          /\ shell' = [shell EXCEPT ![s].at = "act", ![s].source = Source(shell[s].plugin)]
      BY <1>6, <2>1, <2>3, SourceTyped DEF LoadOne
    <3>2. ctx \in Contexts /\ ctx.line \in Lines /\ ctx.plugin \in Ids
      BY <2>1, <3>1 DEF Contexts, Places
    <3>3. shell' = [shell EXCEPT ![s] = ctx]
      BY <2>1, <3>1 DEF Contexts, Typed, TypeOK
    <3> HIDE DEF ctx
    <3>4. shell' \in [Shells -> Contexts] /\ Busy'
      BY <3>2, <3>3, OneContext
    <3> QED BY <1>6, <3>4 DEF LoadOne, bounds, Typed, TypeOK, Contexts
  <2> QED BY <2>2, <2>3
<1>7. CASE Act(s)
  <2>1. shell[s].line \in Lines /\ shell[s].plugin \in Ids
    BY <1>7 DEF Act, At, Typed, Busy, AtWork
  <2>2. shell' \in [Shells -> Contexts] /\ Busy'
    BY <1>7, <2>1, EndsTyped DEF Act
  <2>3. packages' \subseteq Ids /\ quiet' \subseteq Shells
    BY <1>7, <2>1 DEF Act, Disturb, Typed, TypeOK
  <2> QED BY <1>7, <2>2, <2>3 DEF Act, bounds, Typed, TypeOK, Contexts
<1>8. CASE Answer(s)
  <2>1. shell[s].line \in Lines /\ shell[s] \in Contexts
    BY <1>8 DEF Answer, At, Typed, Busy, AtWork, TypeOK, Contexts
  <2>2. ASSUME shell' = [shell EXCEPT ![s].at = "run", ![s].agreed = TRUE, ![s].dry = FALSE]
        PROVE  shell' \in [Shells -> Contexts] /\ Busy'
    <3> DEFINE ctx == [shell[s] EXCEPT !.at = "run", !.agreed = TRUE, !.dry = FALSE]
    <3>1. /\ ctx \in Contexts /\ ctx.line \in Lines
          /\ ctx.at \notin {"open", "write", "uncache", "load", "act"}
      BY <2>1 DEF Contexts, Places
    <3>2. shell' = [shell EXCEPT ![s] = ctx]
      BY <2>1, <2>2 DEF Contexts, Typed, TypeOK
    <3> HIDE DEF ctx
    <3> QED BY <3>1, <3>2, OneContext
  <2>3. ASSUME shell' = [shell EXCEPT ![s].at = "prompt", ![s].ok = FALSE]
        PROVE  shell' \in [Shells -> Contexts] /\ Busy'
    <3> DEFINE ctx == [shell[s] EXCEPT !.at = "prompt", !.ok = FALSE]
    <3>1. /\ ctx \in Contexts /\ ctx.line \in Lines
          /\ ctx.at \notin {"open", "write", "uncache", "load", "act"}
      BY <2>1 DEF Contexts, Places
    <3>2. shell' = [shell EXCEPT ![s] = ctx]
      BY <2>1, <2>3 DEF Contexts, Typed, TypeOK
    <3> HIDE DEF ctx
    <3> QED BY <3>1, <3>2, OneContext
  <2>4. shell' \in [Shells -> Contexts] /\ Busy'
    BY <1>8, <2>2, <2>3 DEF Answer
  <2> QED BY <1>8, <2>4 DEF Answer, bounds, Typed, TypeOK, Contexts
<1>9. CASE Leave(s)
  <2>1. shell' \in [Shells -> Contexts] /\ Busy'
    BY <1>9, GotoTyped DEF Leave, Places
  <2> QED BY <1>9, <2>1 DEF Leave, bounds, Typed, TypeOK, Contexts
<1> QED BY <1>1, <1>2, <1>3, <1>4, <1>5, <1>6, <1>7, <1>8, <1>9 DEF Step

LEMMA NextTyped == Typed /\ [Next]_vars => Typed'
<1> SUFFICES ASSUME Typed, [Next]_vars PROVE Typed'
  OBVIOUS
<1>1. ASSUME NEW s \in Shells, Step(s) PROVE Typed'
  BY <1>1, StepTyped
<1>2. ASSUME NEW s \in Shells, Killed(s) PROVE Typed'
  <2>1. shell' \in [Shells -> Contexts] /\ Busy'
    BY <1>2, GotoTyped DEF Killed, Places
  <2> QED BY <1>2, <2>1 DEF Killed, Disturb, Typed, TypeOK, Contexts, Unreadable
<1>3. ASSUME NEW f \in Folders, NEW content \in Ids \union {None, Broken}, Edit(f, content)
      PROVE  Typed'
  BY <1>3 DEF Edit, Typed, TypeOK, Manifests, Busy, AtWork
<1>4. CASE UNCHANGED vars
  BY <1>4 DEF vars, Typed, TypeOK, Busy, AtWork
<1> QED BY <1>1, <1>2, <1>3, <1>4 DEF Next

\* The variables of Console keep their types, however many shells, plugins, folders and
\* lines there are (run_shell, Catalog).
THEOREM TypeCorrect == Spec => []TypeOK
<1>1. Typed => TypeOK
  BY DEF Typed
<1> QED BY InitTyped, NextTyped, <1>1, PTL DEF Spec

\* s goes anywhere but to the catalog's write.
LEMMA ElsewhereKeeps ==
  ASSUME Typed, Quarantined, NEW s \in Shells, catalog' = catalog,
         shell'[s].at \notin {"open", "write"},
         \A t \in Shells \ {s} : shell'[t] = shell[t]
  PROVE  Quarantined' /\ catalog' = catalog
BY DEF Quarantined, At, Unreadable

\* With an unreadable catalog an addition or a removal ends where it reads it.
LEMMA RunKeeps ==
  ASSUME Typed, Quarantined, NEW s \in Shells, Run(s)
  PROVE  Quarantined' /\ catalog' = catalog
<1>1. catalog \in Unreadable
  BY DEF Quarantined
<1>2. ASSUME NEW f, AddUserPlugin(s, f) PROVE Ends(s, FALSE)
  BY <1>1, <1>2 DEF AddUserPlugin
<1>3. ASSUME RunRemove(s) PROVE Ends(s, FALSE)
  BY <1>1, <1>3 DEF RunRemove
<1>4. \/ Ends(s, FALSE)
      \/ shell' = [shell EXCEPT ![s].at = "load", ![s].plugin = Arg(s)]
  BY <1>2, <1>3 DEF Run, RunDeploy
<1>5. /\ shell'[s].at \notin {"open", "write"}
      /\ \A t \in Shells \ {s} : shell'[t] = shell[t]
  <2>1. shell \in [Shells -> Contexts] /\ shell[s] \in Contexts
    BY DEF Typed, TypeOK, Contexts
  <2> QED BY <1>4, <2>1 DEF Ends, Contexts
<1> QED BY <1>5, ElsewhereKeeps DEF Run

LEMMA StepKeeps ==
  ASSUME Typed, Quarantined, NEW s \in Shells, Step(s)
  PROVE  Quarantined' /\ catalog' = catalog
<1>1. shell \in [Shells -> Contexts] /\ shell[s] \in Contexts
  BY DEF Typed, TypeOK, Contexts
<1>2. ~At(s, "open") /\ ~At(s, "write")
  BY DEF Quarantined
<1>3. CASE Run(s)
  BY <1>3, RunKeeps
<1>4. CASE \E line \in Lines : Type(s, line)
  BY <1>1, <1>4, ElsewhereKeeps DEF Type
<1>5. CASE OpenCatalog(s) \/ WriteCatalog(s)
  BY <1>2, <1>5 DEF OpenCatalog, WriteCatalog
<1>6. CASE RemovePackageCache(s)
  BY <1>1, <1>6, ElsewhereKeeps DEF RemovePackageCache, Ends, Contexts
<1>7. CASE LoadOne(s)
  <2>1. ~Found(shell[s].plugin)
    BY DEF Quarantined, Found, Loads
  <2> QED BY <1>1, <1>7, <2>1, ElsewhereKeeps DEF LoadOne, Ends, Contexts
<1>8. CASE Act(s)
  BY <1>1, <1>8, ElsewhereKeeps DEF Act, Ends, Contexts
<1>9. CASE Answer(s)
  BY <1>1, <1>9, ElsewhereKeeps DEF Answer, Contexts
<1>10. CASE Leave(s)
  BY <1>1, <1>10, ElsewhereKeeps DEF Leave, Goto, Contexts
<1> QED BY <1>3, <1>4, <1>5, <1>6, <1>7, <1>8, <1>9, <1>10 DEF Step

\* A catalog that cannot be read and that nobody is writing stays as it is, whatever any
\* number of shells is told to do (_read_user_catalog raises).
THEOREM UnreadableUntouched == Spec => UnreadableStays
<1>1. ASSUME Typed, [Next]_vars, Quarantined PROVE Quarantined' /\ catalog' = catalog
  <2>1. ASSUME NEW s \in Shells, Step(s) PROVE Quarantined' /\ catalog' = catalog
    BY <1>1, <2>1, StepKeeps
  <2>2. ASSUME NEW s \in Shells, Killed(s) PROVE Quarantined' /\ catalog' = catalog
    <3>1. shell'[s].at = "left" /\ \A t \in Shells \ {s} : shell'[t] = shell[t]
      BY <1>1, <2>2 DEF Killed, Goto, Typed, TypeOK
    <3>2. catalog' = catalog
      BY <1>1, <2>2 DEF Killed, Quarantined
    <3> QED BY <1>1, <3>1, <3>2, ElsewhereKeeps
  <2>3. CASE (\E f \in Folders, content \in Ids \union {None, Broken} : Edit(f, content))
             \/ UNCHANGED vars
    BY <1>1, <2>3 DEF Edit, vars, Quarantined, At
  <2> QED BY <1>1, <2>1, <2>2, <2>3 DEF Next
<1>2. Typed /\ [Next]_vars => [Quarantined => Quarantined' /\ catalog' = catalog]_vars
  BY <1>1
<1> QED BY InitTyped, NextTyped, <1>2, PTL DEF Spec, UnreadableStays

----------------------------------------------------------------------------
(* Additions and removals, as long as no manifest is changed.              *)

\* Every entry is under the id that its folder's manifest declares, none under the id of
\* a built-in plugin.
Sound(c) == \A i \in Ids : c[i] # None => manifest[c[i]] = i /\ i \notin Builtins

Faithful ==
  edits = 0 =>
    /\ catalog \in Catalogs => Sound(catalog)
    /\ \A s \in Shells : Sound(shell[s].catalog)

\* Which commands are where.
Placed(s) ==
  /\ At(s, "load") \/ At(s, "act") => Verb(s) \notin {"add", "remove"}
  /\ At(s, "uncache") => Verb(s) = "remove"

\* How far s has come with an entry that it adds or removes and nobody else disturbs.
AddsEntry(s) == Arg(s) \in Folders /\ Verb(s) # "remove"
InCatalog(s) ==
  /\ shell[s].plugin \in Ids /\ Arg(s) \in Folders
  /\ catalog \in Catalogs /\ catalog[shell[s].plugin] = Arg(s)
NotInCatalog(s) ==
  /\ Arg(s) \in Ids \ Builtins
  /\ catalog \in Catalogs /\ catalog[Arg(s)] = None

Progress(s) ==
  /\ At(s, "write") => catalog = Truncated
  /\ (At(s, "open") \/ At(s, "write")) /\ Verb(s) = "remove" =>
       /\ shell[s].plugin = Arg(s) /\ Arg(s) \notin Builtins
       /\ shell[s].catalog[Arg(s)] = None
  /\ (At(s, "open") \/ At(s, "write")) /\ AddsEntry(s) =>
       shell[s].catalog[shell[s].plugin] = Arg(s)
  /\ At(s, "uncache") => NotInCatalog(s) /\ shell[s].plugin = Arg(s)
  /\ At(s, "load") /\ AddsEntry(s) => InCatalog(s)
  /\ At(s, "act") /\ AddsEntry(s) => shell[s].source = Arg(s)
  /\ At(s, "prompt") /\ shell[s].ok /\ Verb(s) = "add" => InCatalog(s)
  /\ At(s, "prompt") /\ shell[s].ok /\ Verb(s) = "remove" =>
       NotInCatalog(s) /\ Arg(s) \notin packages

Tracked(s) == Placed(s) /\ (s \in quiet /\ edits = 0 => Progress(s))

EntryInv == Typed /\ Faithful /\ \A s \in Shells : Tracked(s)

\* If every entry is sound, the catalog loads and p is found under its own id.
LEMMA SoundFinds ==
  ASSUME Typed, catalog \in Catalogs, Sound(catalog), NEW p \in Ids
  PROVE  /\ Loads
         /\ Declaring(p) = IF catalog[p] # None THEN {p} ELSE {}
         /\ p \notin Builtins => Source(p) = IF catalog[p] # None THEN catalog[p]
                                             ELSE IF p \in packages THEN Package ELSE None
<1>1. \A i \in Listed : manifest[catalog[i]] = i
  BY DEF Listed, Sound
<1>2. Loads
  <2>1. Broken \notin Ids /\ catalog \notin Unreadable
    BY ConsoleAssumption DEF ConsoleAssumption
  <2> QED BY <1>1, <2>1 DEF Loads, Listed
<1>3. Declaring(p) = IF catalog[p] # None THEN {p} ELSE {}
  <2>1. p \in Listed <=> catalog[p] # None
    BY ConsoleAssumption DEF ConsoleAssumption, Listed, Sound
  <2> QED BY <1>1, <2>1 DEF Declaring, Listed
<1>4. ASSUME catalog[p] # None
      PROVE  (CHOOSE i \in Declaring(p) : \A j \in Declaring(p) : i <= j) = p
  <2>1. p \in Nat
    BY ConsoleAssumption DEF ConsoleAssumption
  <2>2. \E i \in Declaring(p) : \A j \in Declaring(p) : i <= j
    BY <1>3, <1>4, <2>1
  <2> QED BY <1>3, <1>4, <2>2
<1>5. ASSUME p \notin Builtins, catalog[p] # None PROVE Source(p) = catalog[p]
  BY <1>3, <1>4, <1>5 DEF Source
<1>6. ASSUME p \notin Builtins, catalog[p] = None
      PROVE  Source(p) = IF p \in packages THEN Package ELSE None
  BY <1>3, <1>6 DEF Source
<1> QED BY <1>2, <1>3, <1>5, <1>6

LEMMA InitEntries == Init => EntryInv
BY InitTyped, ConsoleAssumption
DEF Init, EntryInv, Faithful, Sound, NoEntries, Tracked, Placed, Progress, At

\* A step of s leaves alone what the others rely on, or they are no longer quiet.
LEMMA OneEntryStep ==
  ASSUME EntryInv, NEW s \in Shells, Typed',
         \A t \in Shells \ {s} : shell'[t] = shell[t],
         manifest' = manifest, edits' = edits,
         \/ quiet' \subseteq {s}
         \/ catalog' = catalog /\ packages' = packages /\ quiet' \subseteq quiet \union {s},
         catalog' \in {catalog, shell[s].catalog} \union Unreadable,
         edits = 0 => Sound(shell'[s].catalog),
         Tracked(s)'
  PROVE  EntryInv'
<1>1. Faithful'
  <2> SUFFICES ASSUME edits = 0
               PROVE  /\ catalog' \in Catalogs => Sound(catalog)'
                      /\ \A t \in Shells : Sound(shell[t].catalog)'
    BY DEF Faithful
  <2>1. ASSUME catalog' \in Catalogs PROVE Sound(catalog')
    BY <2>1, ConsoleAssumption DEF EntryInv, Faithful, ConsoleAssumption
  <2>2. ASSUME NEW t \in Shells PROVE Sound(shell'[t].catalog)
    BY <2>2 DEF EntryInv, Faithful
  <2> QED BY <2>1, <2>2 DEF Sound
<1>2. ASSUME NEW t \in Shells \ {s} PROVE Tracked(t)'
  <2>1. shell'[t] = shell[t] /\ Tracked(t)
    BY <1>2 DEF EntryInv
  <2>2. Placed(t)'
    BY <2>1 DEF Tracked, Placed, At, Verb
  <2>3. ASSUME t \in quiet', edits' = 0 PROVE Progress(t)'
    <3>1. catalog' = catalog /\ packages' = packages /\ t \in quiet
      BY <1>2, <2>3
    <3>2. Progress(t)
      BY <2>1, <2>3, <3>1 DEF Tracked
    <3> QED BY <2>1, <3>1, <3>2
        DEF Progress, At, Verb, Arg, AddsEntry, InCatalog, NotInCatalog
  <2> QED BY <2>2, <2>3 DEF Tracked
<1> QED BY <1>1, <1>2 DEF EntryInv

\* s is neither about an entry nor at a prompt that reports one.
LEMMA Idle ==
  ASSUME NEW s \in Shells,
         \/ shell'[s].at \in {"run", "confirm", "left"}
         \/ shell'[s].at = "prompt" /\ ~shell'[s].ok
  PROVE  Tracked(s)'
BY DEF Tracked, Placed, Progress, At

\* What Ends leaves of the context of s.
LEMMA EndsContext ==
  ASSUME Typed, NEW s \in Shells, NEW ok \in BOOLEAN, Ends(s, ok)
  PROVE  /\ shell'[s].at \in {"prompt", "confirm"} /\ shell'[s].ok = ok
         /\ shell'[s].at = "confirm" => ok
         /\ shell'[s].line = shell[s].line /\ shell'[s].plugin = shell[s].plugin
         /\ shell'[s].catalog = NoEntries
         /\ \A t \in Shells \ {s} : shell'[t] = shell[t]
<1>1. shell \in [Shells -> Contexts] /\ shell[s] \in Contexts
  BY DEF Typed, TypeOK, Contexts
<1> QED BY <1>1 DEF Ends, Contexts

LEMMA NoEntriesSound == Sound(NoEntries)
BY DEF Sound, NoEntries

LEMMA RunEntry ==
  ASSUME EntryInv, NEW s \in Shells, Run(s)
  PROVE  /\ edits = 0 => Sound(shell'[s].catalog)
         /\ Tracked(s)'
         /\ \A t \in Shells \ {s} : shell'[t] = shell[t]
<1>1. /\ shell \in [Shells -> Contexts] /\ shell[s] \in Contexts
      /\ shell[s].line \in Lines
      /\ edits = 0 => Sound(shell[s].catalog)
  BY DEF EntryInv, Typed, TypeOK, Busy, AtWork, Run, At, Contexts, Faithful
<1>2. Verb(s) \in Verbs /\ (Arg(s) \in Folders \/ Arg(s) \in Ids)
  BY <1>1, LineKinds DEF Verb, Arg
<1>3. CASE Ends(s, FALSE)
  BY <1>3, EndsContext, NoEntriesSound, Idle DEF EntryInv
<1>4. ASSUME NEW f \in Folders, AddUserPlugin(s, f), Verb(s) # "remove", ~Ends(s, FALSE),
             Arg(s) \in Folders => f = Arg(s)
      PROVE  /\ edits = 0 => Sound(shell'[s].catalog)
             /\ Tracked(s)'
             /\ \A t \in Shells \ {s} : shell'[t] = shell[t]
  <2> DEFINE p == manifest[f]
  <2>1. /\ p \notin {None, Broken} \union Builtins /\ catalog \notin Unreadable
        /\ shell' = [shell EXCEPT ![s].at = "open", ![s].plugin = p, ![s].catalog = Entered(p, f)]
    BY <1>4 DEF AddUserPlugin
  <2>2. p \in Ids /\ catalog \in Catalogs
    BY <2>1 DEF EntryInv, Typed, TypeOK, Manifests
  <2>3. /\ shell'[s].at = "open" /\ shell'[s].plugin = p /\ shell'[s].catalog = Entered(p, f)
        /\ shell'[s].line = shell[s].line
        /\ \A t \in Shells \ {s} : shell'[t] = shell[t]
    BY <1>1, <2>1 DEF Contexts
  <2>4. edits = 0 => Sound(Entered(p, f))
    BY <2>1, <2>2 DEF EntryInv, Faithful, Sound, Entered, Catalogs
  <2>5. Entered(p, f)[p] = f
    BY <2>2 DEF Entered, Catalogs
  <2>6. Tracked(s)'
    BY <1>4, <2>3, <2>5 DEF Tracked, Placed, Progress, At, Verb, Arg, AddsEntry
  <2> QED BY <2>3, <2>4, <2>6
<1>5. ASSUME shell' = [shell EXCEPT ![s].at = "load", ![s].plugin = Arg(s)],
             Verb(s) \notin {"add", "remove"}, Arg(s) \in Ids
      PROVE  /\ edits = 0 => Sound(shell'[s].catalog)
             /\ Tracked(s)'
             /\ \A t \in Shells \ {s} : shell'[t] = shell[t]
  <2>1. /\ shell'[s].at = "load" /\ shell'[s].line = shell[s].line
        /\ shell'[s].catalog = shell[s].catalog
        /\ \A t \in Shells \ {s} : shell'[t] = shell[t]
    BY <1>1, <1>5 DEF Contexts
  <2>2. Arg(s) \notin Folders
    BY <1>5, ConsoleAssumption DEF ConsoleAssumption
  <2>3. Tracked(s)'
    BY <1>5, <2>1, <2>2 DEF Tracked, Placed, Progress, At, Verb, Arg, AddsEntry
  <2> QED BY <1>1, <2>1, <2>3
<1>6. CASE Verb(s) = "add"
  <2>1. Arg(s) \in Folders /\ AddUserPlugin(s, Arg(s))
    BY <1>1, <1>6, LineKinds DEF Run, Verb, Arg
  <2> QED BY <1>3, <1>4, <1>6, <2>1
<1>7. CASE Verb(s) = "remove" /\ ~Ends(s, FALSE)
  <2>1. Arg(s) \in Ids /\ RunRemove(s)
    BY <1>1, <1>7, LineKinds DEF Run, Verb, Arg
  <2> DEFINE new == [catalog EXCEPT ![Arg(s)] = None]
  <2>2. /\ catalog \notin Unreadable /\ catalog[Arg(s)] # None
        /\ shell' = [shell EXCEPT ![s].at = "open", ![s].plugin = Arg(s), ![s].catalog = new]
    BY <1>7, <2>1 DEF RunRemove
  <2>3. catalog \in Catalogs
    BY <2>2 DEF EntryInv, Typed, TypeOK
  <2>4. /\ shell'[s].at = "open" /\ shell'[s].plugin = Arg(s) /\ shell'[s].catalog = new
        /\ shell'[s].line = shell[s].line
        /\ \A t \in Shells \ {s} : shell'[t] = shell[t]
    BY <1>1, <2>2 DEF Contexts
  <2>5. new[Arg(s)] = None
    BY <2>1, <2>3 DEF Catalogs
  <2>6. edits = 0 => Sound(new) /\ Arg(s) \notin Builtins
    BY <2>1, <2>2, <2>3 DEF EntryInv, Faithful, Sound, Catalogs
  <2> HIDE DEF new
  <2>7. Tracked(s)'
    <3>1. quiet' = quiet /\ edits' = edits
      BY DEF Run, bounds
    <3> QED BY <1>7, <2>4, <2>5, <2>6, <3>1
        DEF Tracked, Placed, Progress, At, Verb, Arg, AddsEntry
  <2> QED BY <2>4, <2>6, <2>7
<1>8. CASE Verb(s) = "deploy"
  <2>1. RunDeploy(s)
    BY <1>8 DEF Run
  <2>2. CASE Arg(s) \in Folders
    BY <1>3, <1>4, <1>8, <2>1, <2>2 DEF RunDeploy
  <2>3. CASE Arg(s) \notin Folders /\ ~Found(Arg(s)) /\ Arg(s) \in DOMAIN Here
    <3>1. Here[Arg(s)] \in Folders /\ AddUserPlugin(s, Here[Arg(s)])
      BY <2>1, <2>3, ConsoleAssumption DEF RunDeploy, ConsoleAssumption
    <3> QED BY <1>3, <1>4, <1>8, <2>3, <3>1
  <2>4. CASE Arg(s) \notin Folders /\ ~(~Found(Arg(s)) /\ Arg(s) \in DOMAIN Here)
    <3>1. Arg(s) \in Ids /\ shell' = [shell EXCEPT ![s].at = "load", ![s].plugin = Arg(s)]
      BY <1>2, <2>1, <2>4 DEF RunDeploy
    <3> QED BY <1>5, <1>8, <3>1
  <2> QED BY <2>2, <2>3, <2>4
<1>9. CASE Verb(s) \notin {"add", "remove", "deploy"}
  <2>1. Arg(s) \in Ids
    BY <1>1, <1>9, LineKinds DEF Verb, Arg
  <2>2. shell' = [shell EXCEPT ![s].at = "load", ![s].plugin = Arg(s)]
    BY <1>9 DEF Run
  <2> QED BY <1>5, <1>9, <2>1, <2>2
<1> QED BY <1>3, <1>6, <1>7, <1>8, <1>9

LEMMA WriteEntry ==
  ASSUME EntryInv, NEW s \in Shells, WriteCatalog(s)
  PROVE  /\ edits = 0 => Sound(shell'[s].catalog)
         /\ Tracked(s)'
         /\ \A t \in Shells \ {s} : shell'[t] = shell[t]
<1>1. /\ shell \in [Shells -> Contexts] /\ shell[s] \in Contexts
      /\ shell[s].line \in Lines /\ shell[s].plugin \in Ids /\ shell[s].catalog \in Catalogs
      /\ edits = 0 => Sound(shell[s].catalog)
  BY DEF EntryInv, Typed, TypeOK, Busy, AtWork, WriteCatalog, At, Contexts, Faithful
<1>2. /\ Verb(s) = "add" => Arg(s) \in Folders
      /\ Verb(s) = "remove" => Arg(s) \in Ids
  BY <1>1, LineKinds DEF Verb, Arg
<1>3. /\ At(s, "write") /\ edits' = edits
      /\ s \in quiet' => s \in quiet
  BY DEF WriteCatalog, bounds, Disturb
<1>4. ASSUME s \in quiet', edits' = 0
      PROVE  /\ catalog' = shell[s].catalog
             /\ Verb(s) = "remove" =>
                  /\ shell[s].plugin = Arg(s) /\ Arg(s) \notin Builtins
                  /\ catalog'[Arg(s)] = None
             /\ AddsEntry(s) => catalog'[shell[s].plugin] = Arg(s)
  <2>1. Progress(s)
    BY <1>3, <1>4 DEF EntryInv, Tracked
  <2>2. catalog' = shell[s].catalog
    BY <1>3, <2>1 DEF Progress, WriteCatalog
  <2> QED BY <1>3, <2>1, <2>2 DEF Progress
<1>5. CASE Verb(s) = "add"
  <2>1. Ends(s, TRUE)
    BY <1>5 DEF WriteCatalog
  <2>2. /\ shell'[s].at \in {"prompt", "confirm"} /\ shell'[s].line = shell[s].line
        /\ shell'[s].plugin = shell[s].plugin /\ shell'[s].catalog = NoEntries
        /\ \A t \in Shells \ {s} : shell'[t] = shell[t]
    BY <2>1, EndsContext DEF EntryInv
  <2>3. Tracked(s)'
    BY <1>1, <1>2, <1>4, <1>5, <2>2
    DEF Tracked, Placed, Progress, At, Verb, Arg, AddsEntry, InCatalog
  <2> QED BY <2>2, <2>3, NoEntriesSound
<1>6. CASE Verb(s) = "remove"
  <2>1. Goto(s, "uncache")
    BY <1>6 DEF WriteCatalog
  <2>2. /\ shell'[s].at = "uncache" /\ shell'[s].line = shell[s].line
        /\ shell'[s].plugin = shell[s].plugin /\ shell'[s].catalog = shell[s].catalog
        /\ \A t \in Shells \ {s} : shell'[t] = shell[t]
    BY <1>1, <2>1 DEF Goto, Contexts
  <2>3. Tracked(s)'
    BY <1>1, <1>2, <1>4, <1>6, <2>2
    DEF Tracked, Placed, Progress, At, Verb, Arg, NotInCatalog
  <2> QED BY <1>1, <2>2, <2>3
<1>7. CASE Verb(s) \notin {"add", "remove"}
  <2>1. Goto(s, "load")
    BY <1>7 DEF WriteCatalog
  <2>2. /\ shell'[s].at = "load" /\ shell'[s].line = shell[s].line
        /\ shell'[s].plugin = shell[s].plugin /\ shell'[s].catalog = shell[s].catalog
        /\ \A t \in Shells \ {s} : shell'[t] = shell[t]
    BY <1>1, <2>1 DEF Goto, Contexts
  <2>3. Tracked(s)'
    BY <1>1, <1>4, <1>7, <2>2
    DEF Tracked, Placed, Progress, At, Verb, Arg, AddsEntry, InCatalog
  <2> QED BY <1>1, <2>2, <2>3
<1> QED BY <1>5, <1>6, <1>7

LEMMA LoadEntry ==
  ASSUME EntryInv, NEW s \in Shells, LoadOne(s)
  PROVE  /\ edits = 0 => Sound(shell'[s].catalog)
         /\ Tracked(s)'
         /\ \A t \in Shells \ {s} : shell'[t] = shell[t]
<1>1. /\ shell \in [Shells -> Contexts] /\ shell[s] \in Contexts
      /\ shell[s].plugin \in Ids
      /\ edits = 0 => Sound(shell[s].catalog)
      /\ Verb(s) \notin {"add", "remove"}
  BY DEF EntryInv, Typed, TypeOK, Busy, AtWork, LoadOne, At, Contexts, Faithful, Tracked, Placed
<1>2. CASE Ends(s, FALSE)
  BY <1>2, EndsContext, NoEntriesSound, Idle DEF EntryInv
<1>3. CASE ~Ends(s, FALSE)
  <2> DEFINE p == shell[s].plugin
  <2>1. shell' = [shell EXCEPT ![s].at = "act", ![s].source = Source(p)]
    BY <1>3 DEF LoadOne
  <2>2. /\ shell'[s].at = "act" /\ shell'[s].source = Source(p)
        /\ shell'[s].line = shell[s].line /\ shell'[s].catalog = shell[s].catalog
        /\ \A t \in Shells \ {s} : shell'[t] = shell[t]
    BY <1>1, <2>1 DEF Contexts
  <2>3. ASSUME s \in quiet', edits' = 0, AddsEntry(s) PROVE Source(p) = Arg(s)
    <3>1. s \in quiet /\ edits = 0 /\ At(s, "load")
      BY <2>3 DEF LoadOne, bounds
    <3>2. InCatalog(s)
      BY <2>3, <3>1 DEF EntryInv, Tracked, Progress
    <3>3. catalog \in Catalogs /\ catalog[p] = Arg(s) /\ Arg(s) # None
      BY <2>3, <3>2, ConsoleAssumption DEF InCatalog, AddsEntry, ConsoleAssumption
    <3>4. Sound(catalog)
      BY <3>1, <3>3 DEF EntryInv, Faithful
    <3>5. p \notin Builtins
      BY <1>1, <3>3, <3>4 DEF Sound
    <3> QED BY <1>1, <3>3, <3>4, <3>5, SoundFinds DEF EntryInv
  <2>4. Tracked(s)'
    BY <1>1, <2>2, <2>3 DEF Tracked, Placed, Progress, At, Verb, Arg, AddsEntry
  <2> QED BY <1>1, <2>2, <2>4
<1> QED BY <1>2, <1>3

LEMMA StepEntries ==
  ASSUME EntryInv, NEW s \in Shells, Step(s)
  PROVE  EntryInv'
<1>1. /\ Typed /\ Typed' /\ shell \in [Shells -> Contexts] /\ shell[s] \in Contexts
      /\ edits = 0 => Sound(shell[s].catalog)
  BY StepTyped DEF EntryInv, Typed, TypeOK, Contexts, Faithful
<1>2. CASE \E line \in Lines : Type(s, line)
  <2>1. /\ shell'[s].at = "run" /\ shell'[s].catalog = NoEntries
        /\ \A t \in Shells \ {s} : shell'[t] = shell[t]
    BY <1>1, <1>2 DEF Type
  <2>2. Tracked(s)'
    BY <2>1, Idle
  <2> QED BY <1>1, <1>2, <2>1, <2>2, NoEntriesSound, OneEntryStep DEF Type
<1>3. CASE Run(s)
  BY <1>1, <1>3, RunEntry, OneEntryStep DEF Run, bounds
<1>4. CASE OpenCatalog(s)
  <2>1. /\ shell'[s].at = "write" /\ shell'[s].line = shell[s].line
        /\ shell'[s].plugin = shell[s].plugin /\ shell'[s].catalog = shell[s].catalog
        /\ \A t \in Shells \ {s} : shell'[t] = shell[t]
    BY <1>1, <1>4 DEF OpenCatalog, Goto, Contexts
  <2>2. /\ At(s, "open") /\ s \in quiet' => s \in quiet
        /\ catalog' = Truncated /\ quiet' \subseteq {s} /\ edits' = edits
        /\ manifest' = manifest
    BY <1>4 DEF OpenCatalog, Disturb, bounds
  <2>3. Tracked(s)'
    <3>1. Tracked(s)
      BY DEF EntryInv
    <3> QED BY <1>4, <2>1, <2>2, <3>1
        DEF Tracked, Placed, Progress, At, Verb, Arg, AddsEntry, OpenCatalog, Disturb
  <2> QED BY <1>1, <2>1, <2>2, <2>3, OneEntryStep DEF Unreadable
<1>5. CASE WriteCatalog(s)
  <2>1. catalog' \in {catalog, shell[s].catalog} \union Unreadable
    BY <1>5 DEF WriteCatalog, Unreadable
  <2>2. quiet' \subseteq {s} /\ edits' = edits /\ manifest' = manifest
    BY <1>5 DEF WriteCatalog, Disturb, bounds
  <2> QED BY <1>1, <1>5, <2>1, <2>2, WriteEntry, OneEntryStep
<1>6. CASE RemovePackageCache(s)
  <2>1. /\ At(s, "uncache") /\ Ends(s, TRUE) /\ packages' = packages \ {shell[s].plugin}
        /\ quiet' \subseteq {s} /\ (s \in quiet' => s \in quiet)
        /\ edits' = edits /\ manifest' = manifest /\ catalog' = catalog
    BY <1>6 DEF RemovePackageCache, Disturb, bounds
  <2>2. /\ shell'[s].at \in {"prompt", "confirm"} /\ shell'[s].line = shell[s].line
        /\ shell'[s].plugin = shell[s].plugin /\ shell'[s].catalog = NoEntries
        /\ \A t \in Shells \ {s} : shell'[t] = shell[t]
    BY <1>1, <2>1, EndsContext
  <2>3. Verb(s) = "remove"
    BY <2>1 DEF EntryInv, Tracked, Placed
  <2>4. ASSUME s \in quiet', edits' = 0
        PROVE  NotInCatalog(s) /\ shell[s].plugin = Arg(s)
    BY <2>1, <2>4 DEF EntryInv, Tracked, Progress
  <2>5. Tracked(s)'
    BY <2>1, <2>2, <2>3, <2>4
    DEF Tracked, Placed, Progress, At, Verb, Arg, NotInCatalog
  <2> QED BY <1>1, <2>1, <2>2, <2>5, NoEntriesSound, OneEntryStep
<1>7. CASE LoadOne(s)
  BY <1>1, <1>7, LoadEntry, OneEntryStep DEF LoadOne, bounds
<1>8. CASE Act(s)
  <2>1. PICK ok \in BOOLEAN : Ends(s, ok)
    BY <1>8 DEF Act
  <2>2. /\ shell'[s].at \in {"prompt", "confirm"} /\ shell'[s].line = shell[s].line
        /\ shell'[s].catalog = NoEntries
        /\ \A t \in Shells \ {s} : shell'[t] = shell[t]
    BY <1>1, <2>1, EndsContext
  <2>3. Verb(s) \notin {"add", "remove"}
    BY <1>8 DEF Act, EntryInv, Tracked, Placed
  <2>4. Tracked(s)'
    BY <2>2, <2>3 DEF Tracked, Placed, Progress, At, Verb
  <2>5. /\ edits' = edits /\ manifest' = manifest /\ catalog' = catalog
        /\ \/ quiet' \subseteq {s}
           \/ packages' = packages /\ quiet' \subseteq quiet \union {s}
    BY <1>8 DEF Act, Disturb, bounds
  <2> QED BY <1>1, <2>2, <2>4, <2>5, NoEntriesSound, OneEntryStep
<1>9. CASE Answer(s)
  <2>1. /\ shell'[s].at = "run" \/ (shell'[s].at = "prompt" /\ ~shell'[s].ok)
        /\ shell'[s].catalog = shell[s].catalog
        /\ \A t \in Shells \ {s} : shell'[t] = shell[t]
    BY <1>1, <1>9 DEF Answer, Contexts
  <2>2. Tracked(s)'
    BY <2>1, Idle
  <2> QED BY <1>1, <1>9, <2>1, <2>2, OneEntryStep DEF Answer, bounds
<1>10. CASE Leave(s)
  <2>1. /\ shell'[s].at = "left" /\ shell'[s].catalog = shell[s].catalog
        /\ \A t \in Shells \ {s} : shell'[t] = shell[t]
    BY <1>1, <1>10 DEF Leave, Goto, Contexts
  <2>2. Tracked(s)'
    BY <2>1, Idle
  <2> QED BY <1>1, <1>10, <2>1, <2>2, OneEntryStep DEF Leave, bounds
<1> QED BY <1>2, <1>3, <1>4, <1>5, <1>6, <1>7, <1>8, <1>9, <1>10 DEF Step

LEMMA NextEntries == EntryInv /\ [Next]_vars => EntryInv'
<1> SUFFICES ASSUME EntryInv, [Next]_vars PROVE EntryInv'
  OBVIOUS
<1>1. ASSUME NEW s \in Shells, Step(s) PROVE EntryInv'
  BY <1>1, StepEntries
<1>2. ASSUME NEW s \in Shells, Killed(s) PROVE EntryInv'
  <2>1. Typed' /\ shell \in [Shells -> Contexts] /\ shell[s] \in Contexts
    BY <1>2, NextTyped DEF EntryInv, Typed, TypeOK, Contexts, Next
  <2>2. /\ shell'[s].at = "left" /\ shell'[s].catalog = shell[s].catalog
        /\ \A t \in Shells \ {s} : shell'[t] = shell[t]
    BY <1>2, <2>1 DEF Killed, Goto, Contexts
  <2>3. Tracked(s)'
    BY <2>2, Idle
  <2>4. catalog' \in {catalog, shell[s].catalog} \union Unreadable
    BY <1>2 DEF Killed, Unreadable
  <2> QED BY <1>2, <2>1, <2>2, <2>3, <2>4, OneEntryStep DEF Killed, Disturb, EntryInv, Faithful
<1>3. ASSUME NEW f \in Folders, NEW content \in Ids \union {None, Broken}, Edit(f, content)
      PROVE  EntryInv'
  <2>1. Typed'
    BY <1>3, NextTyped DEF EntryInv, Next
  <2>2. edits' # 0 /\ quiet' = {} /\ shell' = shell
    BY <1>3 DEF Edit, EntryInv, Typed, TypeOK
  <2> QED BY <2>1, <2>2 DEF EntryInv, Faithful, Tracked, Placed, At, Verb
<1>4. CASE UNCHANGED vars
  <2>1. Typed'
    BY <1>4, NextTyped DEF EntryInv
  <2> QED BY <1>4, <2>1
      DEF vars, EntryInv, Faithful, Sound, Tracked, Placed, Progress, At, Verb, Arg,
          AddsEntry, InCatalog, NotInCatalog
<1> QED BY <1>1, <1>2, <1>3, <1>4 DEF Next

\* `deploy <path>` deploys the plugin in that folder, whatever other entries there are, if
\* no manifest was changed and nobody interferes (ensure_plugin_registered, load_one).
THEOREM NamedFolderDeployed == Spec => []DeploysNamedFolder
<1>1. EntryInv => DeploysNamedFolder
  BY DEF EntryInv, Tracked, Progress, AddsEntry, DeploysNamedFolder
<1> QED BY InitEntries, NextEntries, <1>1, PTL DEF Spec

\* What `add` reports as added is found, in the folder that was named (cmd_add).
THEOREM AdditionsFound == Spec => []AddedIsFound
<1>1. ASSUME EntryInv, NEW s \in Shells, Ended(s, "add"), edits = 0
      PROVE  Found(shell[s].plugin) /\ Source(shell[s].plugin) = Arg(s)
  <2> DEFINE p == shell[s].plugin
  <2>1. InCatalog(s)
    BY <1>1 DEF EntryInv, Tracked, Progress, Ended
  <2>2. p \in Ids /\ catalog \in Catalogs /\ Sound(catalog) /\ catalog[p] = Arg(s)
    BY <1>1, <2>1 DEF InCatalog, EntryInv, Faithful
  <2>3. Arg(s) # None
    BY <2>1, ConsoleAssumption DEF InCatalog, ConsoleAssumption
  <2>4. p \notin Builtins
    BY <2>2, <2>3 DEF Sound
  <2> QED BY <1>1, <2>2, <2>3, <2>4, SoundFinds DEF Found, EntryInv
<1>2. EntryInv => AddedIsFound
  BY <1>1 DEF AddedIsFound
<1> QED BY InitEntries, NextEntries, <1>2, PTL DEF Spec

\* What `remove` reports as removed is not found any more (cmd_remove).
THEOREM RemovalsGone == Spec => []RemovedIsGone
<1>1. ASSUME EntryInv, NEW s \in Shells, Ended(s, "remove"), edits = 0
      PROVE  ~Found(Arg(s))
  <2>1. NotInCatalog(s) /\ Arg(s) \notin packages
    BY <1>1 DEF EntryInv, Tracked, Progress, Ended
  <2>2. catalog \in Catalogs /\ Sound(catalog) /\ catalog[Arg(s)] = None
    BY <1>1, <2>1 DEF NotInCatalog, EntryInv, Faithful
  <2>3. Arg(s) \in Ids \ Builtins
    BY <2>1 DEF NotInCatalog
  <2> QED BY <1>1, <2>1, <2>2, <2>3, SoundFinds DEF Found, EntryInv
<1>2. EntryInv => RemovedIsGone
  BY <1>1 DEF RemovedIsGone
<1> QED BY InitEntries, NextEntries, <1>2, PTL DEF Spec

----------------------------------------------------------------------------
(* The preview and the run that follows it.                                *)

\* Source, Loads and Found, of any catalog c, manifests m and packages k.
ListedIn(c, m) == {i \in Ids : c[i] # None /\ m[c[i]] # None}
LoadsIn(c, m) == c \notin Unreadable /\ \A i \in ListedIn(c, m) : m[c[i]] # Broken
DeclaringIn(c, m, p) == {i \in ListedIn(c, m) : m[c[i]] = p}

SourceIn(c, m, k, p) ==
  CASE p \in Builtins -> Builtin
    [] p \notin Builtins /\ DeclaringIn(c, m, p) # {} ->
         c[CHOOSE i \in DeclaringIn(c, m, p) : \A j \in DeclaringIn(c, m, p) : i <= j]
    [] OTHER -> IF p \in k THEN Package ELSE None

FoundIn(c, m, k, p) == LoadsIn(c, m) /\ SourceIn(c, m, k, p) # None

\* Where the plugin of s would be loaded from, if the catalog were c.
Origin(c, s) == SourceIn(c, manifest, packages, shell[s].plugin)

Absent(c, s) ==
  /\ edits = 0 /\ Arg(s) \in DOMAIN Here
  /\ Arg(s) \in Ids \ (Builtins \union packages) /\ c[Arg(s)] = None

\* A second run of the line of s comes to the same plugin: its argument is the id, or
\* the folder that is entered has been entered already.
Settled(c, s) ==
  \/ shell[s].plugin = Arg(s)
  \/ /\ Verb(s) = "deploy" /\ Target(s) \in Folders
     /\ shell[s].plugin \in Ids \ Builtins /\ manifest[Target(s)] = shell[s].plugin
     /\ c \in Catalogs /\ c[shell[s].plugin] = Target(s)
     /\ Arg(s) \notin Folders => Absent(c, s)

Foreseen(s) ==
  Settled(catalog, s) /\ FoundIn(catalog, manifest, packages, shell[s].plugin)

FirstRun(s) ==
  /\ At(s, "open") \/ At(s, "write") => Settled(shell[s].catalog, s)
  /\ At(s, "write") => catalog = Truncated
  /\ At(s, "load") => Settled(catalog, s)
  /\ At(s, "act") => Foreseen(s) /\ shell[s].source = Origin(catalog, s)
  /\ At(s, "confirm") => Foreseen(s) /\ shell[s].previewed = Origin(catalog, s)

SecondRun(s) ==
  /\ At(s, "run") => Foreseen(s) /\ shell[s].previewed = Origin(catalog, s)
  /\ At(s, "open") => /\ shell[s].catalog = catalog
                      /\ shell[s].previewed = Origin(catalog, s)
  /\ At(s, "write") => /\ catalog = Truncated
                       /\ shell[s].previewed = Origin(shell[s].catalog, s)
  /\ At(s, "load") => shell[s].previewed = Origin(catalog, s)
  /\ At(s, "act") => shell[s].source = shell[s].previewed

Working(s) == ~At(s, "prompt") /\ ~At(s, "left")

\* A command that asks first has been previewed well and agreed to before its second run.
Asked(s) ==
  /\ Working(s) /\ shell[s].dry => Verb(s) \in Confirmed
  /\ At(s, "act") => shell[s].source # None
  /\ At(s, "confirm") => shell[s].dry /\ shell[s].previewed # None
  /\ Working(s) /\ Verb(s) \in Confirmed /\ ~shell[s].dry =>
       shell[s].agreed /\ shell[s].previewed # None

Undoubted(s) == edits = 0 \/ Arg(s) \notin DOMAIN Here

Repeats(s) ==
  (s \in quiet /\ Undoubted(s) /\ Working(s) /\ Verb(s) \in Confirmed) =>
    IF shell[s].dry THEN FirstRun(s) ELSE SecondRun(s)

PreviewInv == EntryInv /\ \A s \in Shells : Asked(s) /\ Repeats(s)

\* How the operators of the module expand.
LEMMA SourceAs ==
  ASSUME NEW p
  PROVE  /\ Source(p) = SourceIn(catalog, manifest, packages, p)
         /\ Found(p) <=> FoundIn(catalog, manifest, packages, p)
<1>1. Listed = ListedIn(catalog, manifest)
  BY DEF Listed, ListedIn
<1>2. Declaring(p) = DeclaringIn(catalog, manifest, p)
  BY <1>1 DEF Declaring, DeclaringIn
<1>3. Loads <=> LoadsIn(catalog, manifest)
  BY <1>1 DEF Loads, LoadsIn
<1>4. Source(p) = SourceIn(catalog, manifest, packages, p)
  BY <1>2 DEF Source, SourceIn
<1> QED BY <1>3, <1>4 DEF Found, FoundIn

\* If every entry is sound, an id is found if it is built in, entered or deployed.
LEMMA SoundFindsIff ==
  ASSUME Typed, catalog \in Catalogs, Sound(catalog), NEW p \in Ids
  PROVE  Found(p) <=> p \in Builtins \/ catalog[p] # None \/ p \in packages
<1>1. Builtin # None /\ Package # None
  BY ConsoleAssumption DEF ConsoleAssumption
<1>2. CASE p \in Builtins
  BY <1>1, <1>2, SoundFinds DEF Found, Source
<1>3. CASE p \notin Builtins
  BY <1>1, <1>3, SoundFinds DEF Found
<1> QED BY <1>2, <1>3

LEMMA InitPreview == Init => PreviewInv
BY InitEntries DEF Init, PreviewInv, Asked, Repeats, Working, At

LEMMA OnePreviewStep ==
  ASSUME PreviewInv, NEW s \in Shells, EntryInv',
         \A t \in Shells \ {s} : shell'[t] = shell[t],
         manifest' = manifest, edits' = edits,
         \/ quiet' \subseteq {s}
         \/ catalog' = catalog /\ packages' = packages /\ quiet' \subseteq quiet \union {s},
         Asked(s)', Repeats(s)'
  PROVE  PreviewInv'
<1>1. ASSUME NEW t \in Shells \ {s} PROVE Asked(t)' /\ Repeats(t)'
  <2>1. shell'[t] = shell[t] /\ Asked(t) /\ Repeats(t)
    BY <1>1 DEF PreviewInv
  <2>2. Asked(t)'
    BY <2>1 DEF Asked, Working, At, Verb
  <2>3. ASSUME t \in quiet' PROVE Repeats(t)'
    <3>1. catalog' = catalog /\ packages' = packages /\ t \in quiet
      BY <1>1, <2>3
    <3>2. /\ Working(t)' <=> Working(t)
          /\ Undoubted(t)' <=> Undoubted(t)
          /\ Verb(t)' = Verb(t) /\ Arg(t)' = Arg(t) /\ Target(t)' = Target(t)
      BY <2>1 DEF Working, Undoubted, Target, At, Verb, Arg
    <3>3. /\ Settled(catalog, t)' <=> Settled(catalog, t)
          /\ Settled(shell[t].catalog, t)' <=> Settled(shell[t].catalog, t)
      BY <2>1, <3>1, <3>2 DEF Settled, Absent
    <3>4. /\ Foreseen(t)' <=> Foreseen(t)
          /\ Origin(catalog, t)' = Origin(catalog, t)
          /\ Origin(shell[t].catalog, t)' = Origin(shell[t].catalog, t)
      BY <2>1, <3>1, <3>3 DEF Foreseen, Origin
    <3>5. FirstRun(t) => FirstRun(t)'
      BY <2>1, <3>1, <3>3, <3>4 DEF FirstRun, At
    <3>6. SecondRun(t) => SecondRun(t)'
      BY <2>1, <3>1, <3>4 DEF SecondRun, At
    <3> QED BY <2>1, <3>1, <3>2, <3>5, <3>6 DEF Repeats
  <2> QED BY <2>2, <2>3 DEF Repeats
<1> QED BY <1>1 DEF PreviewInv

LEMMA IdlePreview ==
  ASSUME NEW s \in Shells, shell'[s].at \in {"prompt", "left"}
  PROVE  Asked(s)' /\ Repeats(s)'
BY DEF Asked, Repeats, Working, At

LEMMA EndsPreview ==
  ASSUME Typed, NEW s \in Shells, NEW ok \in BOOLEAN, Ends(s, ok)
  PROVE  /\ shell'[s].at = IF shell[s].dry /\ ok THEN "confirm" ELSE "prompt"
         /\ shell'[s].dry = shell[s].dry /\ shell'[s].source = shell[s].source
         /\ shell[s].dry /\ ok => shell'[s].previewed = shell[s].source
<1>1. shell \in [Shells -> Contexts] /\ shell[s] \in Contexts
  BY DEF Typed, TypeOK, Contexts
<1> QED BY <1>1 DEF Ends, Contexts

\* deploy enters the folder that its argument stands for.
LEMMA DeployAddsPreview ==
  ASSUME PreviewInv, NEW s \in Shells, Run(s), Verb(s) = "deploy", ~Ends(s, FALSE),
         NEW f \in Folders, f = Target(s), AddUserPlugin(s, f),
         Arg(s) \notin Folders => ~Found(Arg(s)) /\ Arg(s) \in DOMAIN Here
  PROVE  Asked(s)' /\ Repeats(s)'
<1> DEFINE p == manifest[f]
<1>1. /\ Typed /\ shell \in [Shells -> Contexts] /\ shell[s] \in Contexts
      /\ Asked(s) /\ Repeats(s) /\ At(s, "run")
      /\ edits' = edits /\ quiet' = quiet /\ manifest' = manifest /\ packages' = packages
      /\ catalog' = catalog
  BY DEF PreviewInv, EntryInv, Typed, TypeOK, Contexts, Run, bounds
<1>2. /\ p \notin {None, Broken} \union Builtins /\ catalog \notin Unreadable
      /\ shell' = [shell EXCEPT ![s].at = "open", ![s].plugin = p, ![s].catalog = Entered(p, f)]
  BY DEF AddUserPlugin
<1>3. p \in Ids \ Builtins /\ catalog \in Catalogs
  BY <1>1, <1>2 DEF Typed, TypeOK, Manifests
<1>4. /\ shell'[s].at = "open" /\ shell'[s].plugin = p /\ shell'[s].catalog = Entered(p, f)
      /\ shell'[s].line = shell[s].line /\ shell'[s].dry = shell[s].dry
      /\ shell'[s].agreed = shell[s].agreed /\ shell'[s].previewed = shell[s].previewed
  BY <1>1, <1>2 DEF Contexts
<1>5. Entered(p, f) \in Catalogs /\ Entered(p, f)[p] = f
      /\ \A q \in Ids \ {p} : Entered(p, f)[q] = catalog[q]
  BY <1>3 DEF Entered, Catalogs
<1>6. Asked(s)'
  BY <1>1, <1>4 DEF Asked, Working, At, Verb
<1>7. ASSUME s \in quiet', Undoubted(s)', shell[s].dry PROVE FirstRun(s)'
  <2>1. ASSUME Arg(s) \notin Folders, p # Arg(s) PROVE Absent(shell[s].catalog, s)'
    <3>1. Arg(s) \in DOMAIN Here /\ edits = 0 /\ Arg(s) \in Ids /\ ~Found(Arg(s))
      BY <1>1, <1>4, <1>7, <2>1, ConsoleAssumption DEF Undoubted, Arg, ConsoleAssumption
    <3>2. Sound(catalog)
      BY <1>3, <3>1 DEF PreviewInv, EntryInv, Faithful
    <3>3. Arg(s) \notin Builtins /\ catalog[Arg(s)] = None /\ Arg(s) \notin packages
      BY <1>1, <1>3, <3>1, <3>2, SoundFindsIff
    <3> QED BY <1>1, <1>4, <1>5, <2>1, <3>1, <3>3 DEF Absent, Arg
  <2>2. Settled(shell[s].catalog, s)'
    <3>1. Arg(s)' = Arg(s) /\ Verb(s)' = Verb(s) /\ Target(s)' = Target(s)
      BY <1>4 DEF Arg, Verb, Target
    <3> QED BY <1>1, <1>3, <1>4, <1>5, <2>1, <3>1 DEF Settled
  <2> QED BY <1>4, <2>2 DEF FirstRun, At
<1>8. ASSUME s \in quiet', Undoubted(s)', ~shell[s].dry PROVE SecondRun(s)'
  <2>1. Foreseen(s) /\ shell[s].previewed = Origin(catalog, s)
    BY <1>1, <1>4, <1>8 DEF Repeats, Undoubted, Working, At, Arg, Confirmed, SecondRun
  <2>2. shell[s].plugin \in Ids \union {None}
    BY <1>1 DEF Contexts
  <2>3. shell[s].plugin # Arg(s)
    <3>1. CASE Arg(s) \in Folders
      BY <2>2, <3>1, ConsoleAssumption DEF ConsoleAssumption
    <3>2. CASE Arg(s) \notin Folders
      BY <2>1, <3>2, SourceAs DEF Foreseen
    <3> QED BY <3>1, <3>2
  <2>4. shell[s].plugin = p /\ catalog[p] = f
    BY <2>1, <2>3 DEF Foreseen, Settled
  <2>5. Entered(p, f) = catalog
    BY <1>3, <2>4 DEF Entered, Catalogs
  <2> QED BY <1>1, <1>4, <2>1, <2>4, <2>5 DEF SecondRun, At, Origin
<1> QED BY <1>4, <1>6, <1>7, <1>8 DEF Repeats

\* The commands that only load their plugin.
LEMMA LoadsPreview ==
  ASSUME PreviewInv, NEW s \in Shells, Run(s), Arg(s) \in Ids,
         shell' = [shell EXCEPT ![s].at = "load", ![s].plugin = Arg(s)],
         Verb(s) = "deploy" => Found(Arg(s)) \/ Arg(s) \notin DOMAIN Here
  PROVE  Asked(s)' /\ Repeats(s)'
<1>1. /\ Typed /\ shell \in [Shells -> Contexts] /\ shell[s] \in Contexts
      /\ Asked(s) /\ Repeats(s) /\ At(s, "run")
      /\ edits' = edits /\ quiet' = quiet /\ manifest' = manifest /\ packages' = packages
      /\ catalog' = catalog
  BY DEF PreviewInv, EntryInv, Typed, TypeOK, Contexts, Run, bounds
<1>2. /\ shell'[s].at = "load" /\ shell'[s].plugin = Arg(s)
      /\ shell'[s].line = shell[s].line /\ shell'[s].dry = shell[s].dry
      /\ shell'[s].agreed = shell[s].agreed /\ shell'[s].previewed = shell[s].previewed
  BY <1>1 DEF Contexts
<1>3. Asked(s)'
  BY <1>1, <1>2 DEF Asked, Working, At, Verb
<1>4. FirstRun(s)'
  BY <1>2 DEF FirstRun, At, Settled, Arg
<1>5. ASSUME s \in quiet', Undoubted(s)', Verb(s) \in Confirmed, ~shell[s].dry
      PROVE  SecondRun(s)'
  <2>1. Foreseen(s) /\ shell[s].previewed = Origin(catalog, s)
    BY <1>1, <1>2, <1>5 DEF Repeats, Undoubted, Working, At, Arg, SecondRun
  <2>2. shell[s].plugin = Arg(s)
    <3> SUFFICES ASSUME shell[s].plugin # Arg(s) PROVE FALSE
      OBVIOUS
    <3>1. Verb(s) = "deploy" /\ Absent(catalog, s) /\ catalog \in Catalogs
      BY <2>1, ConsoleAssumption DEF Foreseen, Settled, ConsoleAssumption
    <3>2. Sound(catalog)
      BY <3>1 DEF PreviewInv, EntryInv, Faithful, Absent
    <3>3. ~Found(Arg(s))
      BY <1>1, <3>1, <3>2, SoundFindsIff DEF Absent
    <3> QED BY <3>1, <3>3 DEF Absent
  <2> QED BY <1>1, <1>2, <2>1, <2>2 DEF SecondRun, At, Origin
<1> QED BY <1>2, <1>3, <1>4, <1>5 DEF Repeats, Verb

LEMMA RunPreview ==
  ASSUME PreviewInv, NEW s \in Shells, Run(s)
  PROVE  Asked(s)' /\ Repeats(s)'
<1>1. /\ Typed /\ shell \in [Shells -> Contexts] /\ shell[s] \in Contexts
      /\ shell[s].line \in Lines /\ Asked(s) /\ At(s, "run")
  BY DEF PreviewInv, EntryInv, Typed, TypeOK, Busy, AtWork, Run, At, Contexts
<1>2. /\ Arg(s) \in Folders \/ Arg(s) \in Ids
      /\ Verb(s) \notin {"add", "deploy"} => Arg(s) \in Ids
  BY <1>1, LineKinds DEF Verb, Arg
<1>3. CASE Ends(s, FALSE)
  BY <1>1, <1>3, EndsPreview, IdlePreview
<1>4. CASE Verb(s) \in {"add", "remove"} /\ ~Ends(s, FALSE)
  <2>1. PICK p, new : shell' = [shell EXCEPT ![s].at = "open", ![s].plugin = p, ![s].catalog = new]
    BY <1>4 DEF Run, AddUserPlugin, RunRemove
  <2>2. /\ shell'[s].at = "open" /\ shell'[s].line = shell[s].line
        /\ shell'[s].dry = shell[s].dry
    BY <1>1, <2>1 DEF Contexts
  <2> QED BY <1>1, <1>4, <2>2 DEF Asked, Repeats, Working, At, Verb, Confirmed
<1>5. CASE Verb(s) = "deploy" /\ ~Ends(s, FALSE)
  <2>1. RunDeploy(s)
    BY <1>5 DEF Run
  <2>2. CASE Arg(s) \in Folders
    <3>1. AddUserPlugin(s, Arg(s)) /\ Arg(s) = Target(s)
      BY <2>1, <2>2 DEF RunDeploy, Target
    <3> QED BY <1>5, <2>2, <3>1, DeployAddsPreview
  <2>3. CASE Arg(s) \notin Folders /\ ~Found(Arg(s)) /\ Arg(s) \in DOMAIN Here
    <3>1. /\ Here[Arg(s)] \in Folders /\ AddUserPlugin(s, Here[Arg(s)])
          /\ Here[Arg(s)] = Target(s)
      BY <2>1, <2>3, ConsoleAssumption DEF RunDeploy, ConsoleAssumption, Target
    <3> QED BY <1>5, <2>3, <3>1, DeployAddsPreview
  <2>4. CASE Arg(s) \notin Folders /\ ~(~Found(Arg(s)) /\ Arg(s) \in DOMAIN Here)
    <3>1. Arg(s) \in Ids /\ shell' = [shell EXCEPT ![s].at = "load", ![s].plugin = Arg(s)]
      BY <1>2, <2>1, <2>4 DEF RunDeploy
    <3> QED BY <2>4, <3>1, LoadsPreview
  <2> QED BY <2>2, <2>3, <2>4
<1>6. CASE Verb(s) \notin {"add", "remove", "deploy"}
  <2>1. shell' = [shell EXCEPT ![s].at = "load", ![s].plugin = Arg(s)]
    BY <1>6 DEF Run
  <2> QED BY <1>2, <1>6, <2>1, LoadsPreview
<1> QED BY <1>3, <1>4, <1>5, <1>6

LEMMA WritePreview ==
  ASSUME PreviewInv, NEW s \in Shells, WriteCatalog(s)
  PROVE  Asked(s)' /\ Repeats(s)'
<1>1. /\ Typed /\ shell \in [Shells -> Contexts] /\ shell[s] \in Contexts
      /\ Asked(s) /\ Repeats(s) /\ At(s, "write") /\ (s \in quiet' => s \in quiet)
      /\ edits' = edits /\ manifest' = manifest /\ packages' = packages
  BY DEF PreviewInv, EntryInv, Typed, TypeOK, Contexts, WriteCatalog, Disturb, bounds
<1>2. CASE Verb(s) = "add"
  <2>1. Ends(s, TRUE)
    BY <1>2 DEF WriteCatalog
  <2>2. ~shell[s].dry
    BY <1>1, <1>2 DEF Asked, Working, At, Confirmed
  <2> QED BY <1>1, <2>1, <2>2, EndsPreview, IdlePreview
<1>3. CASE Verb(s) = "remove"
  <2>1. Goto(s, "uncache")
    BY <1>3 DEF WriteCatalog
  <2>2. shell'[s].at = "uncache" /\ shell'[s].line = shell[s].line /\ shell'[s].dry = shell[s].dry
    BY <1>1, <2>1 DEF Goto, Contexts
  <2> QED BY <1>1, <1>3, <2>2 DEF Asked, Repeats, Working, At, Verb, Confirmed
<1>4. CASE Verb(s) \notin {"add", "remove"}
  <2>1. Goto(s, "load")
    BY <1>4 DEF WriteCatalog
  <2>2. /\ shell'[s].at = "load" /\ shell'[s].line = shell[s].line
        /\ shell'[s].dry = shell[s].dry /\ shell'[s].plugin = shell[s].plugin
        /\ shell'[s].agreed = shell[s].agreed /\ shell'[s].previewed = shell[s].previewed
    BY <1>1, <2>1 DEF Goto, Contexts
  <2>3. Asked(s)'
    BY <1>1, <2>2 DEF Asked, Working, At, Verb
  <2>4. ASSUME s \in quiet', Undoubted(s)', Verb(s) \in Confirmed
        PROVE  IF shell[s].dry THEN FirstRun(s)' ELSE SecondRun(s)'
    <3>1. IF shell[s].dry THEN FirstRun(s) ELSE SecondRun(s)
      BY <1>1, <2>2, <2>4 DEF Repeats, Undoubted, Working, At, Arg
    <3>2. catalog = Truncated
      BY <1>1, <3>1 DEF FirstRun, SecondRun
    <3>3. catalog' = shell[s].catalog
      BY <3>2 DEF WriteCatalog
    <3>4. CASE shell[s].dry
      <4>1. Settled(shell[s].catalog, s)
        BY <1>1, <3>1, <3>4 DEF FirstRun
      <4>2. Settled(catalog, s)'
        BY <1>1, <2>2, <3>3, <4>1 DEF Settled, Absent, Target, Arg, Verb
      <4> QED BY <2>2, <3>4, <4>2 DEF FirstRun, At
    <3>5. CASE ~shell[s].dry
      BY <1>1, <2>2, <3>1, <3>3, <3>5 DEF SecondRun, At, Origin
    <3> QED BY <3>4, <3>5
  <2> QED BY <2>2, <2>3, <2>4 DEF Repeats, Verb
<1> QED BY <1>2, <1>3, <1>4

LEMMA LoadPreview ==
  ASSUME PreviewInv, NEW s \in Shells, LoadOne(s)
  PROVE  Asked(s)' /\ Repeats(s)'
<1>1. /\ Typed /\ shell \in [Shells -> Contexts] /\ shell[s] \in Contexts
      /\ Asked(s) /\ Repeats(s) /\ At(s, "load") /\ edits' = edits /\ quiet' = quiet
      /\ catalog' = catalog /\ manifest' = manifest /\ packages' = packages
  BY DEF PreviewInv, EntryInv, Typed, TypeOK, Contexts, LoadOne, bounds
<1>2. CASE Ends(s, FALSE)
  BY <1>1, <1>2, EndsPreview, IdlePreview
<1>3. CASE ~Ends(s, FALSE)
  <2>1. /\ Found(shell[s].plugin)
        /\ shell' = [shell EXCEPT ![s].at = "act", ![s].source = Source(shell[s].plugin)]
    BY <1>3 DEF LoadOne
  <2>2. /\ shell'[s].at = "act" /\ shell'[s].source = Source(shell[s].plugin)
        /\ shell'[s].line = shell[s].line /\ shell'[s].plugin = shell[s].plugin
        /\ shell'[s].dry = shell[s].dry /\ shell'[s].agreed = shell[s].agreed
        /\ shell'[s].previewed = shell[s].previewed
    BY <1>1, <2>1 DEF Contexts
  <2>3. /\ FoundIn(catalog, manifest, packages, shell[s].plugin)
        /\ shell'[s].source = Origin(catalog, s) /\ shell'[s].source # None
    BY <2>1, <2>2, SourceAs DEF Origin, FoundIn
  <2>4. Asked(s)'
    BY <1>1, <2>2, <2>3 DEF Asked, Working, At, Verb
  <2>5. ASSUME s \in quiet', Undoubted(s)', Verb(s) \in Confirmed
        PROVE  IF shell[s].dry THEN FirstRun(s)' ELSE SecondRun(s)'
    <3>1. IF shell[s].dry THEN FirstRun(s) ELSE SecondRun(s)
      BY <1>1, <2>2, <2>5 DEF Repeats, Undoubted, Working, At, Arg
    <3>2. CASE shell[s].dry
      <4>1. Settled(catalog, s)
        BY <1>1, <3>1, <3>2 DEF FirstRun
      <4>2. Settled(catalog, s)'
        BY <1>1, <2>2, <4>1 DEF Settled, Absent, Target, Arg, Verb
      <4> QED BY <1>1, <2>2, <2>3, <3>2, <4>2 DEF FirstRun, Foreseen, At, Origin
    <3>3. CASE ~shell[s].dry
      BY <1>1, <2>2, <2>3, <3>1, <3>3 DEF SecondRun, At
    <3> QED BY <3>2, <3>3
  <2> QED BY <2>2, <2>4, <2>5 DEF Repeats, Verb
<1> QED BY <1>2, <1>3

LEMMA ActPreview ==
  ASSUME PreviewInv, NEW s \in Shells, Act(s)
  PROVE  Asked(s)' /\ Repeats(s)'
<1>1. /\ Typed /\ shell \in [Shells -> Contexts] /\ shell[s] \in Contexts
      /\ Asked(s) /\ Repeats(s) /\ At(s, "act") /\ edits' = edits
      /\ catalog' = catalog /\ manifest' = manifest
      /\ shell[s].dry => packages' = packages /\ quiet' = quiet
  BY DEF PreviewInv, EntryInv, Typed, TypeOK, Contexts, Act, bounds
<1>2. PICK ok \in BOOLEAN : Ends(s, ok)
  BY DEF Act
<1>3. CASE ~(shell[s].dry /\ ok)
  BY <1>1, <1>2, <1>3, EndsPreview, IdlePreview
<1>4. CASE shell[s].dry /\ ok
  <2>1. /\ shell'[s].at = "confirm" /\ shell'[s].dry /\ shell'[s].previewed = shell[s].source
        /\ shell'[s].line = shell[s].line /\ shell'[s].plugin = shell[s].plugin
    BY <1>1, <1>2, <1>4, EndsPreview, EndsContext
  <2>2. Asked(s)'
    BY <1>1, <1>4, <2>1 DEF Asked, Working, At, Verb
  <2>3. ASSUME s \in quiet', Undoubted(s)', Verb(s) \in Confirmed PROVE FirstRun(s)'
    <3>1. Foreseen(s) /\ shell[s].source = Origin(catalog, s)
      BY <1>1, <1>4, <2>1, <2>3 DEF Repeats, Undoubted, Working, At, Arg, FirstRun
    <3>2. Foreseen(s)'
      BY <1>1, <1>4, <2>1, <3>1 DEF Foreseen, Settled, Absent, Target, Arg, Verb
    <3> QED BY <1>1, <1>4, <2>1, <3>1, <3>2 DEF FirstRun, At, Origin
  <2> QED BY <2>1, <2>2, <2>3 DEF Repeats, Verb
<1> QED BY <1>3, <1>4

LEMMA AnswerPreview ==
  ASSUME PreviewInv, NEW s \in Shells, Answer(s)
  PROVE  Asked(s)' /\ Repeats(s)'
<1>1. /\ Typed /\ shell \in [Shells -> Contexts] /\ shell[s] \in Contexts
      /\ Asked(s) /\ Repeats(s) /\ At(s, "confirm") /\ edits' = edits /\ quiet' = quiet
      /\ catalog' = catalog /\ manifest' = manifest /\ packages' = packages
  BY DEF PreviewInv, EntryInv, Typed, TypeOK, Contexts, Answer, bounds
<1>2. CASE shell' = [shell EXCEPT ![s].at = "prompt", ![s].ok = FALSE]
  <2>1. shell'[s].at = "prompt"
    BY <1>1, <1>2 DEF Contexts
  <2> QED BY <2>1, IdlePreview
<1>3. CASE shell' = [shell EXCEPT ![s].at = "run", ![s].agreed = TRUE, ![s].dry = FALSE]
  <2>1. /\ shell'[s].at = "run" /\ shell'[s].agreed /\ ~shell'[s].dry
        /\ shell'[s].line = shell[s].line /\ shell'[s].plugin = shell[s].plugin
        /\ shell'[s].previewed = shell[s].previewed
    BY <1>1, <1>3 DEF Contexts
  <2>2. Asked(s)'
    BY <1>1, <2>1 DEF Asked, Working, At, Verb
  <2>3. ASSUME s \in quiet', Undoubted(s)', Verb(s) \in Confirmed PROVE SecondRun(s)'
    <3>1. Foreseen(s) /\ shell[s].previewed = Origin(catalog, s)
      BY <1>1, <2>1, <2>3 DEF Repeats, Asked, Undoubted, Working, At, Arg, FirstRun
    <3>2. Foreseen(s)'
      BY <1>1, <2>1, <3>1 DEF Foreseen, Settled, Absent, Target, Arg, Verb
    <3> QED BY <1>1, <2>1, <3>1, <3>2 DEF SecondRun, At, Origin
  <2> QED BY <2>1, <2>2, <2>3 DEF Repeats, Verb
<1> QED BY <1>2, <1>3 DEF Answer

LEMMA StepPreview ==
  ASSUME PreviewInv, NEW s \in Shells, Step(s)
  PROVE  PreviewInv'
<1>1. /\ EntryInv /\ EntryInv' /\ Typed
      /\ shell \in [Shells -> Contexts] /\ shell[s] \in Contexts /\ Asked(s) /\ Repeats(s)
  BY StepEntries DEF PreviewInv, EntryInv, Typed, TypeOK, Contexts
<1>2. CASE \E line \in Lines : Type(s, line)
  <2>1. PICK line \in Lines : Type(s, line)
    BY <1>2
  <2>2. /\ shell'[s].at = "run" /\ shell'[s].line = line
        /\ shell'[s].dry = NeedsConfirmation(line)
        /\ \A t \in Shells \ {s} : shell'[t] = shell[t]
    BY <1>1, <2>1 DEF Type
  <2>3. Asked(s)' /\ Repeats(s)'
    BY <2>2 DEF Asked, Repeats, FirstRun, Working, At, Verb, NeedsConfirmation
  <2> QED BY <1>1, <2>1, <2>2, <2>3, OnePreviewStep DEF Type
<1>3. CASE Run(s)
  BY <1>1, <1>3, RunPreview, RunEntry, OnePreviewStep DEF Run, bounds
<1>4. CASE OpenCatalog(s)
  <2>1. /\ shell'[s].at = "write" /\ shell'[s].line = shell[s].line
        /\ shell'[s].plugin = shell[s].plugin /\ shell'[s].catalog = shell[s].catalog
        /\ shell'[s].dry = shell[s].dry /\ shell'[s].agreed = shell[s].agreed
        /\ shell'[s].previewed = shell[s].previewed
        /\ \A t \in Shells \ {s} : shell'[t] = shell[t]
    BY <1>1, <1>4 DEF OpenCatalog, Goto, Contexts
  <2>2. /\ At(s, "open") /\ (s \in quiet' => s \in quiet) /\ catalog' = Truncated
        /\ quiet' \subseteq {s}
        /\ edits' = edits /\ manifest' = manifest /\ packages' = packages
    BY <1>4 DEF OpenCatalog, Disturb, bounds
  <2>3. Asked(s)'
    BY <1>1, <2>1, <2>2 DEF Asked, Working, At, Verb
  <2>4. ASSUME s \in quiet', Undoubted(s)', Verb(s) \in Confirmed
        PROVE  IF shell[s].dry THEN FirstRun(s)' ELSE SecondRun(s)'
    <3>1. IF shell[s].dry THEN FirstRun(s) ELSE SecondRun(s)
      BY <1>1, <2>1, <2>2, <2>4 DEF Repeats, Undoubted, Working, At, Arg
    <3>2. CASE shell[s].dry
      <4>1. Settled(shell[s].catalog, s)
        BY <2>2, <3>1, <3>2 DEF FirstRun
      <4>2. Settled(shell[s].catalog, s)'
        BY <2>1, <2>2, <4>1 DEF Settled, Absent, Target, Arg, Verb
      <4> QED BY <2>1, <2>2, <3>2, <4>2 DEF FirstRun, At
    <3>3. CASE ~shell[s].dry
      BY <2>1, <2>2, <3>1, <3>3 DEF SecondRun, At, Origin
    <3> QED BY <3>2, <3>3
  <2>5. Repeats(s)'
    BY <2>1, <2>4 DEF Repeats, Verb
  <2> QED BY <1>1, <2>1, <2>2, <2>3, <2>5, OnePreviewStep
<1>5. CASE WriteCatalog(s)
  BY <1>1, <1>5, WritePreview, WriteEntry, OnePreviewStep DEF WriteCatalog, Disturb, bounds
<1>6. CASE RemovePackageCache(s)
  <2>1. Verb(s) = "remove" /\ Working(s) /\ Ends(s, TRUE)
    BY <1>1, <1>6 DEF EntryInv, Tracked, Placed, RemovePackageCache, Working, At
  <2>2. ~shell[s].dry
    BY <1>1, <2>1 DEF Asked, Confirmed
  <2>3. Asked(s)' /\ Repeats(s)'
    BY <1>1, <2>1, <2>2, EndsPreview, IdlePreview
  <2>4. \A t \in Shells \ {s} : shell'[t] = shell[t]
    BY <1>1, <2>1, EndsContext
  <2> QED BY <1>1, <1>6, <2>3, <2>4, OnePreviewStep DEF RemovePackageCache, Disturb, bounds
<1>7. CASE LoadOne(s)
  BY <1>1, <1>7, LoadPreview, LoadEntry, OnePreviewStep DEF LoadOne, bounds
<1>8. CASE Act(s)
  <2>1. \A t \in Shells \ {s} : shell'[t] = shell[t]
    BY <1>1, <1>8, EndsContext DEF Act
  <2>2. /\ edits' = edits /\ manifest' = manifest
        /\ \/ quiet' \subseteq {s}
           \/ catalog' = catalog /\ packages' = packages /\ quiet' \subseteq quiet \union {s}
    BY <1>8 DEF Act, Disturb, bounds
  <2> QED BY <1>1, <1>8, <2>1, <2>2, ActPreview, OnePreviewStep
<1>9. CASE Answer(s)
  <2>1. \A t \in Shells \ {s} : shell'[t] = shell[t]
    BY <1>1, <1>9 DEF Answer
  <2> QED BY <1>1, <1>9, <2>1, AnswerPreview, OnePreviewStep DEF Answer, bounds
<1>10. CASE Leave(s)
  <2>1. shell'[s].at = "left" /\ \A t \in Shells \ {s} : shell'[t] = shell[t]
    BY <1>1, <1>10 DEF Leave, Goto, Contexts
  <2> QED BY <1>1, <1>10, <2>1, IdlePreview, OnePreviewStep DEF Leave, bounds
<1> QED BY <1>2, <1>3, <1>4, <1>5, <1>6, <1>7, <1>8, <1>9, <1>10 DEF Step

LEMMA NextPreview == PreviewInv /\ [Next]_vars => PreviewInv'
<1> SUFFICES ASSUME PreviewInv, [Next]_vars PROVE PreviewInv'
  OBVIOUS
<1>1. EntryInv' /\ Typed
  BY NextEntries DEF PreviewInv, EntryInv
<1>2. ASSUME NEW s \in Shells, Step(s) PROVE PreviewInv'
  BY <1>2, StepPreview
<1>3. ASSUME NEW s \in Shells, Killed(s) PROVE PreviewInv'
  <2>1. shell'[s].at = "left" /\ \A t \in Shells \ {s} : shell'[t] = shell[t]
    BY <1>1, <1>3 DEF Killed, Goto, Typed, TypeOK
  <2> QED BY <1>1, <1>3, <2>1, IdlePreview, OnePreviewStep DEF Killed, Disturb
<1>4. ASSUME NEW f \in Folders, NEW content \in Ids \union {None, Broken}, Edit(f, content)
      PROVE  PreviewInv'
  <2>1. quiet' = {} /\ shell' = shell
    BY <1>4 DEF Edit
  <2> QED BY <1>1, <2>1 DEF PreviewInv, Asked, Repeats, Working, At, Verb
<1>5. CASE UNCHANGED vars
  <2>1. ASSUME NEW s \in Shells PROVE Asked(s)' /\ Repeats(s)'
    <3>1. Asked(s) /\ Repeats(s)
      BY <2>1 DEF PreviewInv
    <3> QED BY <1>5, <3>1
        DEF vars, Asked, Repeats, FirstRun, SecondRun, Foreseen, Settled, Absent, Target,
            Origin, Undoubted, Working, At, Verb, Arg
  <2> QED BY <1>1, <2>1 DEF PreviewInv
<1> QED BY <1>2, <1>3, <1>4, <1>5 DEF Next

\* What a shell does after its preview and the yes is about the plugin files the preview
\* was about, if nobody else interfered (run_shell): deploying a path, whose preview has
\* itself changed the catalog, included.
THEOREM PreviewsKept == Spec => []ActsAsPreviewed
<1>1. ASSUME PreviewInv, NEW s \in Shells, At(s, "act"), Verb(s) \in Confirmed, ~shell[s].dry
      PROVE  /\ shell[s].agreed /\ shell[s].previewed # None
             /\ (s \in quiet /\ Undoubted(s)) => shell[s].source = shell[s].previewed
  <2>1. Asked(s) /\ Repeats(s) /\ Working(s)
    BY <1>1 DEF PreviewInv, Working, At
  <2>2. shell[s].agreed /\ shell[s].previewed # None
    BY <1>1, <2>1 DEF Asked
  <2>3. ASSUME s \in quiet, Undoubted(s) PROVE shell[s].source = shell[s].previewed
    BY <1>1, <2>1, <2>3 DEF Repeats, SecondRun
  <2> QED BY <2>2, <2>3
<1>2. PreviewInv => ActsAsPreviewed
  BY <1>1 DEF ActsAsPreviewed, Undoubted
<1> QED BY InitPreview, NextPreview, <1>2, PTL DEF Spec

----------------------------------------------------------------------------
(* The shells implement module UserCatalog.                                *)

\* Only commands that change the catalog write it; a preview comes before the yes.
Dutiful(s) ==
  /\ At(s, "open") \/ At(s, "write") => Verb(s) \in TheCatalog!ChangingVerbs
  /\ At(s, "open") /\ Verb(s) # "remove" => Target(s) \in Folders
  /\ Working(s) /\ shell[s].dry => ~shell[s].agreed

CatalogInv == PreviewInv /\ \A s \in Shells : Dutiful(s)

\* The other shells stay where they are.
Alone(s) == \A t \in Shells \ {s} : shell'[t] = shell[t]

\* The line of s stays as it is typed, agreed to and loaded.
Same(s) ==
  /\ shell'[s].line = shell[s].line /\ shell'[s].agreed = shell[s].agreed
  /\ shell'[s].source = shell[s].source /\ shell'[s].dry = shell[s].dry

LEMMA EndsSame ==
  ASSUME Typed, NEW s \in Shells, NEW ok \in BOOLEAN, Ends(s, ok)
  PROVE  /\ Alone(s) /\ Same(s) /\ shell'[s].ok = ok
         /\ shell'[s].at = IF shell[s].dry /\ ok THEN "confirm" ELSE "prompt"
<1>1. shell \in [Shells -> Contexts] /\ shell[s] \in Contexts
  BY DEF Typed, TypeOK, Contexts
<1> QED BY <1>1 DEF Ends, Contexts, Alone, Same

LEMMA GotoSame ==
  ASSUME Typed, NEW s \in Shells, NEW place, Goto(s, place)
  PROVE  /\ Alone(s) /\ Same(s) /\ shell'[s].at = place
         /\ shell'[s].ok = shell[s].ok /\ shell'[s].catalog = shell[s].catalog
         /\ shell'[s].plugin = shell[s].plugin
<1>1. shell \in [Shells -> Contexts] /\ shell[s] \in Contexts
  BY DEF Typed, TypeOK, Contexts
<1> QED BY <1>1 DEF Goto, Contexts, Alone, Same

LEMMA AddSame ==
  ASSUME Typed, NEW s \in Shells, NEW f \in Folders, f = Target(s), AddUserPlugin(s, f),
         Verb(s) # "remove", catalog' = catalog
  PROVE  /\ Alone(s) /\ Same(s)
         /\ \/ shell'[s].at = "open" /\ Fresh(s)'
            \/ Ends(s, FALSE)
<1>1. shell \in [Shells -> Contexts] /\ shell[s] \in Contexts
  BY DEF Typed, TypeOK, Contexts
<1>2. CASE Ends(s, FALSE)
  BY <1>2, EndsSame
<1>3. CASE ~Ends(s, FALSE)
  <2>1. /\ catalog \notin Unreadable
        /\ shell' = [shell EXCEPT ![s].at = "open", ![s].plugin = manifest[f],
                                  ![s].catalog = Entered(manifest[f], f)]
    BY <1>3 DEF AddUserPlugin
  <2>2. /\ Alone(s) /\ Same(s) /\ shell'[s].at = "open"
        /\ shell'[s].plugin = manifest[f] /\ shell'[s].catalog = Entered(manifest[f], f)
    BY <1>1, <2>1 DEF Contexts, Alone, Same
  <2>3. Verb(s)' = Verb(s) /\ Target(s)' = f
    BY <2>2 DEF Same, Verb, Arg, Target
  <2>4. catalog \in Catalogs
    BY <2>1 DEF Typed, TypeOK
  <2>5. shell'[s].catalog = [catalog EXCEPT ![shell'[s].plugin] = f]
    BY <2>2 DEF Entered
  <2>6. Fresh(s)'
    BY <2>3, <2>4, <2>5 DEF Fresh
  <2> QED BY <2>2, <2>6
<1> QED BY <1>2, <1>3

\* The first step of a command: it fails, is about to write or goes on to load.
LEMMA RunSame ==
  ASSUME Typed, NEW s \in Shells, Run(s)
  PROVE  /\ Alone(s) /\ Same(s) /\ catalog' = catalog
         /\ \/ Ends(s, FALSE)
            \/ /\ shell'[s].at = "open" /\ Fresh(s)' /\ Verb(s) \in TheCatalog!ChangingVerbs
               /\ Verb(s) # "remove" => Target(s) \in Folders
            \/ shell'[s].at = "load" /\ Verb(s) \notin TheCatalog!BareVerbs
<1>1. shell \in [Shells -> Contexts] /\ shell[s] \in Contexts
  BY DEF Typed, TypeOK, Contexts
<1>2. shell[s].line \in Lines /\ catalog' = catalog
  BY DEF Run, At, Typed, Busy, AtWork
<1>3. Verb(s) \in Verbs /\ (Arg(s) \in Folders \/ Arg(s) \in Ids)
  BY <1>2, LineKinds DEF Verb, Arg
<1>4. ASSUME NEW p, shell' = [shell EXCEPT ![s].at = "load", ![s].plugin = p]
      PROVE  Alone(s) /\ Same(s) /\ shell'[s].at = "load"
  BY <1>1, <1>4 DEF Contexts, Alone, Same
<1>5. CASE Verb(s) = "add"
  <2>1. Arg(s) \in Folders /\ AddUserPlugin(s, Arg(s))
    BY <1>2, <1>5, LineKinds DEF Run, Verb, Arg
  <2>2. Arg(s) = Target(s)
    BY <2>1 DEF Target
  <2> QED BY <1>2, <1>5, <2>1, <2>2, AddSame DEF TheCatalog!ChangingVerbs, TheCatalog!AddingVerbs
<1>6. CASE Verb(s) = "remove"
  <2>1. Arg(s) \in Ids /\ RunRemove(s)
    BY <1>2, <1>6, LineKinds DEF Run, Verb, Arg
  <2>2. CASE Ends(s, FALSE)
    BY <1>2, <2>2, EndsSame
  <2>3. CASE ~Ends(s, FALSE)
    <3>1. /\ catalog \notin Unreadable /\ catalog[Arg(s)] # None
          /\ shell' = [shell EXCEPT ![s].at = "open", ![s].plugin = Arg(s),
                                    ![s].catalog = [catalog EXCEPT ![Arg(s)] = None]]
      BY <2>1, <2>3 DEF RunRemove
    <3>2. /\ Alone(s) /\ Same(s) /\ shell'[s].at = "open"
          /\ shell'[s].catalog = [catalog EXCEPT ![Arg(s)] = None]
      BY <1>1, <3>1 DEF Contexts, Alone, Same
    <3>3. Verb(s)' = Verb(s) /\ Arg(s)' = Arg(s)
      BY <3>2 DEF Same, Verb, Arg
    <3>4. catalog \in Catalogs
      BY <3>1 DEF Typed, TypeOK
    <3>5. Fresh(s)'
      BY <1>2, <1>6, <3>1, <3>2, <3>3, <3>4 DEF Fresh
    <3> QED BY <1>2, <1>6, <3>2, <3>5 DEF TheCatalog!ChangingVerbs
  <2> QED BY <2>2, <2>3
<1>7. CASE Verb(s) = "deploy"
  <2>0. Verb(s) \in TheCatalog!ChangingVerbs /\ Verb(s) \notin TheCatalog!BareVerbs
    BY <1>7 DEF TheCatalog!ChangingVerbs, TheCatalog!AddingVerbs, TheCatalog!BareVerbs
  <2>1. RunDeploy(s)
    BY <1>7 DEF Run
  <2>2. CASE Arg(s) \in Folders
    <3>1. AddUserPlugin(s, Arg(s)) /\ Arg(s) = Target(s)
      BY <2>1, <2>2 DEF RunDeploy, Target
    <3> QED BY <1>2, <1>7, <2>0, <2>2, <3>1, AddSame
  <2>3. CASE Arg(s) \notin Folders /\ ~Found(Arg(s)) /\ Arg(s) \in DOMAIN Here
    <3>1. Here[Arg(s)] \in Folders /\ AddUserPlugin(s, Here[Arg(s)]) /\ Here[Arg(s)] = Target(s)
      BY <2>1, <2>3, ConsoleAssumption DEF RunDeploy, ConsoleAssumption, Target
    <3> QED BY <1>2, <1>7, <2>0, <3>1, AddSame
  <2>4. CASE Arg(s) \notin Folders /\ ~(~Found(Arg(s)) /\ Arg(s) \in DOMAIN Here)
    <3>1. shell' = [shell EXCEPT ![s].at = "load", ![s].plugin = Arg(s)]
      BY <2>1, <2>4 DEF RunDeploy
    <3> QED BY <1>2, <1>4, <2>0, <3>1
  <2> QED BY <2>2, <2>3, <2>4
<1>8. CASE Verb(s) \notin {"add", "remove", "deploy"}
  <2>1. shell' = [shell EXCEPT ![s].at = "load", ![s].plugin = Arg(s)]
    BY <1>8 DEF Run
  <2> QED BY <1>2, <1>4, <1>8, <2>1 DEF TheCatalog!BareVerbs
<1> QED BY <1>5, <1>6, <1>7, <1>8

----------------------------------------------------------------------------
LEMMA DutifulElsewhere ==
  ASSUME NEW s \in Shells, Alone(s), \A t \in Shells : Dutiful(t), Dutiful(s)'
  PROVE  \A t \in Shells : Dutiful(t)'
<1>1. ASSUME NEW t \in Shells \ {s} PROVE Dutiful(t)'
  <2>1. shell'[t] = shell[t] /\ Dutiful(t)
    BY <1>1 DEF Alone
  <2> QED BY <2>1 DEF Dutiful, At, Verb, Arg, Target, Working, TheCatalog!ChangingVerbs,
               TheCatalog!AddingVerbs
<1> QED BY <1>1

LEMMA DutifulStays ==
  ASSUME NEW s \in Shells, Dutiful(s), Same(s), shell'[s].at \notin {"open", "write"}, Working(s)
  PROVE  Dutiful(s)'
BY DEF Dutiful, Same, At, Working

\* A shell at the prompt's question, or further, has a line that has one.
LEMMA StepDutiful ==
  ASSUME CatalogInv, NEW s \in Shells, Step(s) \/ Killed(s)
  PROVE  Alone(s) /\ Dutiful(s)'
<1>0. /\ Typed /\ Dutiful(s) /\ Placed(s) /\ Asked(s)
      /\ shell \in [Shells -> Contexts] /\ shell[s] \in Contexts
  BY DEF CatalogInv, PreviewInv, EntryInv, Tracked, Typed, TypeOK, Contexts
<1>1. ASSUME NEW ok \in BOOLEAN, Ends(s, ok), Working(s) PROVE Alone(s) /\ Dutiful(s)'
  <2>1. Alone(s) /\ Same(s) /\ shell'[s].at \notin {"open", "write"}
    BY <1>0, <1>1, EndsSame
  <2> QED BY <1>0, <1>1, <2>1, DutifulStays
<1>2. CASE \E line \in Lines : Type(s, line)
  <2>1. PICK line \in Lines : Type(s, line)
    BY <1>2
  <2>2. Alone(s) /\ shell'[s].at = "run" /\ shell'[s].agreed = FALSE
    BY <1>0, <2>1 DEF Type, Alone
  <2> QED BY <2>2 DEF Dutiful, At
<1>3. CASE Run(s)
  <2>1. Alone(s) /\ Same(s) /\ Working(s)
    BY <1>0, <1>3, RunSame DEF Run, Working, At
  <2>2. CASE Ends(s, FALSE)
    BY <1>1, <2>1, <2>2
  <2>3. CASE /\ shell'[s].at = "open" /\ Verb(s) \in TheCatalog!ChangingVerbs
             /\ Verb(s) # "remove" => Target(s) \in Folders
    BY <1>0, <2>1, <2>3 DEF Dutiful, Same, At, Verb, Working, Target, Arg,
                            TheCatalog!ChangingVerbs, TheCatalog!AddingVerbs
  <2>4. CASE shell'[s].at = "load"
    BY <1>0, <2>1, <2>4, DutifulStays
  <2> QED BY <1>0, <1>3, <2>1, <2>2, <2>3, <2>4, RunSame
<1>4. CASE OpenCatalog(s)
  <2>1. Alone(s) /\ Same(s) /\ shell'[s].at = "write" /\ At(s, "open")
    BY <1>0, <1>4, GotoSame DEF OpenCatalog
  <2> QED BY <1>0, <2>1 DEF Dutiful, Same, At, Verb, Working, Target, Arg,
                            TheCatalog!ChangingVerbs, TheCatalog!AddingVerbs
<1>5. CASE WriteCatalog(s)
  <2>1. Working(s)
    BY <1>5 DEF WriteCatalog, Working, At
  <2>2. CASE Ends(s, TRUE)
    BY <1>1, <2>1, <2>2
  <2>3. CASE Goto(s, "uncache") \/ Goto(s, "load")
    BY <1>0, <2>1, <2>3, GotoSame, DutifulStays
  <2> QED BY <1>5, <2>2, <2>3 DEF WriteCatalog
<1>6. CASE RemovePackageCache(s)
  BY <1>1, <1>6 DEF RemovePackageCache, Working, At
<1>7. CASE LoadOne(s)
  <2>1. Working(s)
    BY <1>7 DEF LoadOne, Working, At
  <2>2. CASE Ends(s, FALSE)
    BY <1>1, <2>1, <2>2
  <2>3. CASE ~Ends(s, FALSE)
    <3>1. shell' = [shell EXCEPT ![s].at = "act", ![s].source = Source(shell[s].plugin)]
      BY <1>7, <2>3 DEF LoadOne
    <3>2. /\ Alone(s) /\ shell'[s].at = "act" /\ shell'[s].dry = shell[s].dry
          /\ shell'[s].agreed = shell[s].agreed
      BY <1>0, <3>1 DEF Contexts, Alone
    <3> QED BY <1>0, <2>1, <3>2 DEF Dutiful, At, Working
  <2> QED BY <2>2, <2>3
<1>8. CASE Act(s)
  <2>1. PICK ok \in BOOLEAN : Ends(s, ok)
    BY <1>8 DEF Act
  <2> QED BY <1>1, <1>8, <2>1 DEF Act, Working, At
<1>9. CASE Answer(s)
  <2>1. /\ Alone(s) /\ shell'[s].at \in {"run", "prompt"}
        /\ shell'[s].at = "run" => shell'[s].dry = FALSE
    BY <1>0, <1>9 DEF Answer, Contexts, Alone
  <2> QED BY <2>1 DEF Dutiful, Working, At
<1>10. CASE Leave(s) \/ Killed(s)
  <2>1. Alone(s) /\ shell'[s].at = "left"
    BY <1>0, <1>10, GotoSame DEF Leave, Killed
  <2> QED BY <2>1 DEF Dutiful, Working, At
<1> QED BY <1>2, <1>3, <1>4, <1>5, <1>6, <1>7, <1>8, <1>9, <1>10 DEF Step

LEMMA NextCatalog == CatalogInv /\ [Next]_vars => CatalogInv'
<1> SUFFICES ASSUME CatalogInv, [Next]_vars PROVE CatalogInv'
  OBVIOUS
<1>1. PreviewInv'
  BY NextPreview DEF CatalogInv
<1>2. ASSUME NEW s \in Shells, Step(s) \/ Killed(s) PROVE \A t \in Shells : Dutiful(t)'
  BY <1>2, StepDutiful, DutifulElsewhere DEF CatalogInv
<1>3. CASE (\E f \in Folders, content \in Ids \union {None, Broken} : Edit(f, content))
           \/ UNCHANGED vars
  <2>1. shell' = shell
    BY <1>3 DEF Edit, vars
  <2> QED BY <1>1, <2>1 DEF CatalogInv, Dutiful, At, Verb, Working, Target, Arg,
                            TheCatalog!ChangingVerbs, TheCatalog!AddingVerbs
<1> QED BY <1>1, <1>2, <1>3 DEF CatalogInv, Next

LEMMA InitCatalog == Init => CatalogInv
BY InitPreview DEF Init, CatalogInv, Dutiful, At, Working

----------------------------------------------------------------------------
(* The file and what it stands for.                                        *)

LEMMA WhatEntriesAre ==
  ASSUME Typed
  PROVE  /\ catalog \in Catalogs => EntriesNow = catalog
         /\ Undivided => \A s \in Shells : At(s, "write") => EntriesNow = shell[s].catalog
<1>1. catalog \in Catalogs => EntriesNow = catalog
  BY DEF EntriesNow
<1>2. ASSUME Undivided, NEW s \in Shells, At(s, "write") PROVE EntriesNow = shell[s].catalog
  <2>1. catalog = Truncated /\ \A r \in Shells \ {s} : ~At(r, "write")
    BY <1>2 DEF Undivided
  <2>2. catalog \notin Catalogs
    BY <2>1, ConsoleAssumption DEF ConsoleAssumption, Unreadable
  <2>3. (CHOOSE r \in Shells : At(r, "write")) = s
    BY <1>2, <2>1
  <2> QED BY <1>2, <2>2, <2>3 DEF EntriesNow
<1> QED BY <1>1, <1>2

LEMMA WhatEntriesBecome ==
  ASSUME Typed'
  PROVE  /\ catalog' \in Catalogs => EntriesNow' = catalog'
         /\ Undivided' => \A s \in Shells : shell'[s].at = "write" => EntriesNow' = shell'[s].catalog
<1>1. Catalogs' = Catalogs
  BY DEF Catalogs
<1>2. (/\ catalog \in Catalogs => EntriesNow = catalog
       /\ Undivided => \A s \in Shells : At(s, "write") => EntriesNow = shell[s].catalog)'
  BY WhatEntriesAre, PTL
<1> QED BY <1>1, <1>2 DEF At

\* A step away from the file leaves an intact catalog so.
LEMMA Aside ==
  ASSUME Typed, Typed', NEW s \in Shells, Alone(s), catalog' = catalog, ~At(s, "write"),
         shell'[s].at # "write", shell'[s].at = "open" => Fresh(s)', Undivided
  PROVE  Undivided' /\ EntriesNow' = EntriesNow
<1>1. ASSUME NEW t \in Shells PROVE At(t, "write")' <=> At(t, "write")
  BY DEF Alone, At
<1>2. ASSUME NEW t \in Shells, At(t, "write") PROVE shell'[t].catalog = shell[t].catalog
  BY <1>2 DEF Alone, At
<1>3. ASSUME NEW t \in Shells, At(t, "open")' PROVE Fresh(t)'
  <2>1. CASE t = s
    BY <1>3, <2>1 DEF At
  <2>2. CASE t # s
    <3>1. shell'[t] = shell[t] /\ At(t, "open") /\ Fresh(t)
      BY <1>3, <2>2 DEF Alone, At, Undivided
    <3> QED BY <3>1 DEF Fresh, Verb, Arg, Target
  <2> QED BY <2>1, <2>2
<1>4. Undivided'
  <2>1. ASSUME NEW t \in Shells, At(t, "write")'
        PROVE  catalog' = Truncated /\ \A r \in Shells \ {t} : ~At(r, "write")'
    BY <1>1, <2>1 DEF Undivided
  <2>2. catalog' \in Unreadable => \E t \in Shells : At(t, "write")'
    BY <1>1 DEF Undivided, Unreadable
  <2>3. Unreadable' = Unreadable
    BY DEF Unreadable
  <2> QED BY <1>3, <2>1, <2>2, <2>3 DEF Undivided
<1>5. CASE catalog \in Catalogs
  BY <1>4, <1>5, WhatEntriesAre, WhatEntriesBecome
<1>6. CASE catalog \notin Catalogs
  <2>1. PICK t \in Shells : At(t, "write")
    BY <1>6 DEF Undivided, Typed, TypeOK
  <2>2. shell'[t].at = "write"
    BY <1>1, <2>1 DEF At
  <2> QED BY <1>2, <1>4, <2>1, <2>2, WhatEntriesAre, WhatEntriesBecome
<1> QED BY <1>4, <1>5, <1>6

----------------------------------------------------------------------------
(* What the step of a shell is in UserCatalog.                             *)

LinesNow == [t \in Shells |-> shell[t].line]
StatusesNow == [t \in Shells |-> StatusOf(t)]
AgreedNow == [t \in Shells |-> shell[t].agreed]
LoadedNow == [t \in Shells |-> shell[t].source]

LEMMA OthersSame ==
  ASSUME NEW s \in Shells, Alone(s)
  PROVE  /\ StatusesNow' = [StatusesNow EXCEPT ![s] = StatusOf(s)']
         /\ LinesNow' = [LinesNow EXCEPT ![s] = shell'[s].line]
         /\ AgreedNow' = [AgreedNow EXCEPT ![s] = shell'[s].agreed]
         /\ LoadedNow' = [LoadedNow EXCEPT ![s] = shell'[s].source]
<1>1. \A t \in Shells \ {s} : shell'[t] = shell[t]
  BY DEF Alone
<1>2. \A t \in Shells \ {s} : StatusOf(t)' = StatusOf(t)
  BY <1>1 DEF StatusOf, At
<1>3. StatusesNow' = [StatusesNow EXCEPT ![s] = StatusOf(s)']
  BY <1>2 DEF StatusesNow
<1>4. LinesNow' = [LinesNow EXCEPT ![s] = shell'[s].line]
  BY <1>1 DEF LinesNow
<1>5. AgreedNow' = [AgreedNow EXCEPT ![s] = shell'[s].agreed]
  BY <1>1 DEF AgreedNow
<1>6. LoadedNow' = [LoadedNow EXCEPT ![s] = shell'[s].source]
  BY <1>1 DEF LoadedNow
<1> QED BY <1>3, <1>4, <1>5, <1>6

LEMMA SameLine ==
  ASSUME NEW s \in Shells, Alone(s), Same(s)
  PROVE  UNCHANGED <<LinesNow, AgreedNow, LoadedNow>>
<1>1. \A t \in Shells : /\ shell'[t].line = shell[t].line /\ shell'[t].agreed = shell[t].agreed
                        /\ shell'[t].source = shell[t].source
  BY DEF Alone, Same
<1> QED BY <1>1 DEF LinesNow, AgreedNow, LoadedNow

LEMMA PassesOn ==
  ASSUME NEW s \in Shells, Alone(s), NEW from, NEW to, StatusOf(s) \in from, StatusOf(s)' = to
  PROVE  TheCatalog!Passes(s, from, to)
<1>1. StatusesNow' = [StatusesNow EXCEPT ![s] = to] /\ StatusesNow[s] = StatusOf(s)
  BY OthersSame DEF StatusesNow
<1> QED BY <1>1 DEF TheCatalog!Passes, StatusesNow

\* How far a line has come, by the place of its shell.
LEMMA StatusAt ==
  ASSUME NEW s \in Shells
  PROVE  /\ shell[s].at \in {"run", "open"} => StatusOf(s) = "asked"
         /\ shell[s].at \in {"write", "uncache", "load", "act"} => StatusOf(s) = "done"
         /\ At(s, "confirm") => StatusOf(s) = "shown"
         /\ At(s, "left") => StatusOf(s) = "gone"
         /\ At(s, "prompt") => StatusOf(s) \in {"idle", "ok", "failed"}
         /\ At(s, "prompt") /\ shell[s].line \in Lines =>
              StatusOf(s) = IF shell[s].ok THEN "ok" ELSE "failed"
<1>1. None \notin Lines
  BY ConsoleAssumption DEF ConsoleAssumption
<1> QED BY <1>1 DEF StatusOf, At

LEMMA StatusThen ==
  ASSUME NEW s \in Shells
  PROVE  /\ shell'[s].at \in {"run", "open"} => StatusOf(s)' = "asked"
         /\ shell'[s].at \in {"write", "uncache", "load", "act"} => StatusOf(s)' = "done"
         /\ shell'[s].at = "confirm" => StatusOf(s)' = "shown"
         /\ shell'[s].at = "left" => StatusOf(s)' = "gone"
         /\ shell'[s].at = "prompt" /\ shell'[s].line \in Lines =>
              StatusOf(s)' = IF shell'[s].ok THEN "ok" ELSE "failed"
<1>1. None \notin Lines
  BY ConsoleAssumption DEF ConsoleAssumption
<1> QED BY <1>1 DEF StatusOf, At

LEMMA VerbsSame ==
  ASSUME NEW s \in Shells
  PROVE  TheCatalog!VerbOf(s) = Verb(s) /\ TheCatalog!ArgOf(s) = Arg(s)
BY DEF TheCatalog!VerbOf, TheCatalog!ArgOf, Verb, Arg

\* Two intact states with the same entries.
LEMMA StaysIf ==
  ASSUME Undivided => Undivided' /\ EntriesNow' = EntriesNow
  PROVE  TheCatalog!Stays
BY DEF TheCatalog!Stays

\* A failure, once the line has come so far.
LEMMA FailsThen ==
  ASSUME NEW s \in Shells, Alone(s), Same(s), shell[s].line \in Lines,
         shell'[s].at = "prompt", shell'[s].ok = FALSE, TheCatalog!Stays,
         \/ shell[s].at \in {"run", "open", "confirm"}
         \/ shell[s].at \in {"load", "act"} /\ Verb(s) \notin TheCatalog!BareVerbs
  PROVE  TheCatalog!Fail(s)
<1>1. StatusOf(s)' = "failed"
  BY StatusThen DEF Same
<1>2. /\ StatusOf(s) \in {"asked", "shown", "done"}
      /\ StatusOf(s) = "done" => Verb(s) \notin TheCatalog!BareVerbs
  BY StatusAt DEF At
<1>3. TheCatalog!Passes(s, {"asked", "shown", "done"}, "failed")
  BY <1>1, <1>2, PassesOn
<1>4. UNCHANGED <<LinesNow, AgreedNow, LoadedNow>>
  BY SameLine
<1>5. StatusesNow[s] = StatusOf(s)
  BY DEF StatusesNow
<1> QED BY <1>2, <1>3, <1>4, <1>5, VerbsSame
    DEF TheCatalog!Fail, LinesNow, AgreedNow, LoadedNow, StatusesNow

LEMMA SucceedsThen ==
  ASSUME NEW s \in Shells, Alone(s), Same(s), shell[s].line \in Lines,
         shell'[s].at = "prompt", shell'[s].ok = TRUE, TheCatalog!Stays,
         shell[s].at \in {"write", "uncache", "load", "act"},
         Verb(s) \notin TheCatalog!BareVerbs => shell[s].source # None,
         Verb(s) \in TheCatalog!PreviewedVerbs => shell[s].agreed
  PROVE  TheCatalog!Succeed(s)
<1>1. StatusOf(s)' = "ok" /\ StatusOf(s) = "done"
  BY StatusThen, StatusAt DEF Same
<1>2. TheCatalog!Passes(s, {"done"}, "ok")
  BY <1>1, PassesOn
<1>3. UNCHANGED <<LinesNow, AgreedNow, LoadedNow>>
  BY SameLine
<1>4. LoadedNow[s] = shell[s].source /\ AgreedNow[s] = shell[s].agreed
  BY DEF LoadedNow, AgreedNow
<1> QED BY <1>2, <1>3, <1>4, VerbsSame DEF TheCatalog!Succeed, LinesNow, AgreedNow, LoadedNow

\* A step that the lines do not show.
LEMMA UnseenThen ==
  ASSUME NEW s \in Shells, Alone(s), Same(s), StatusOf(s)' = StatusOf(s),
         Undivided => Undivided' /\ EntriesNow' = EntriesNow
  PROVE  TheCatalog!Drift \/ UNCHANGED TheCatalog!catalogVars
<1>1. UNCHANGED <<LinesNow, AgreedNow, LoadedNow>>
  BY SameLine
<1>2. StatusesNow' = StatusesNow
  BY OthersSame DEF StatusesNow
<1>3. CASE ~Undivided
  BY <1>1, <1>2, <1>3 DEF TheCatalog!Drift, LinesNow, AgreedNow, LoadedNow, StatusesNow
<1>4. CASE Undivided
  BY <1>1, <1>2, <1>4 DEF TheCatalog!catalogVars, LinesNow, AgreedNow, LoadedNow, StatusesNow
<1> QED BY <1>3, <1>4

----------------------------------------------------------------------------
(* Each step of a shell is one of UserCatalog, or none.                    *)

LEMMA TypeAsks ==
  ASSUME Typed, Typed', NEW s \in Shells, NEW line \in Lines, Type(s, line)
  PROVE  TheCatalog!Ask(s)
<1>0. shell \in [Shells -> Contexts] /\ shell[s] \in Contexts
  BY DEF Typed, TypeOK, Contexts
<1>1. /\ Alone(s) /\ At(s, "prompt") /\ catalog' = catalog
      /\ shell'[s].at = "run" /\ shell'[s].line = line /\ shell'[s].agreed = FALSE
      /\ shell'[s].source = None
  BY <1>0 DEF Type, Alone
<1>2. Undivided => Undivided' /\ EntriesNow' = EntriesNow
  BY <1>1, Aside DEF At
<1>3. TheCatalog!Passes(s, {"idle", "ok", "failed"}, "asked")
  BY <1>1, PassesOn, StatusAt, StatusThen
<1>4. /\ LinesNow' = [LinesNow EXCEPT ![s] = line]
      /\ AgreedNow' = [AgreedNow EXCEPT ![s] = FALSE]
      /\ LoadedNow' = [LoadedNow EXCEPT ![s] = None]
  BY <1>1, OthersSame
<1> QED BY <1>2, <1>3, <1>4, StaysIf DEF TheCatalog!Ask, LinesNow, AgreedNow, LoadedNow

LEMMA RunPasses ==
  ASSUME Typed, Typed', NEW s \in Shells, Run(s)
  PROVE  \/ TheCatalog!Fail(s) \/ TheCatalog!Pass(s)
         \/ TheCatalog!Drift \/ UNCHANGED TheCatalog!catalogVars
<1>1. /\ Alone(s) /\ Same(s) /\ catalog' = catalog /\ At(s, "run") /\ shell[s].line \in Lines
  BY RunSame DEF Run, At, Typed, Busy, AtWork
<1>2. CASE Ends(s, FALSE)
  <2>1. shell'[s].at = "prompt" /\ shell'[s].ok = FALSE
    BY <1>2, EndsSame
  <2>2. Undivided => Undivided' /\ EntriesNow' = EntriesNow
    BY <1>1, <2>1, Aside DEF At
  <2> QED BY <1>1, <2>1, <2>2, StaysIf, FailsThen DEF At
<1>3. CASE shell'[s].at = "open" /\ Fresh(s)'
  <2>1. Undivided => Undivided' /\ EntriesNow' = EntriesNow
    BY <1>1, <1>3, Aside DEF At
  <2>2. StatusOf(s)' = StatusOf(s)
    BY <1>1, <1>3, StatusAt, StatusThen DEF At
  <2> QED BY <1>1, <2>1, <2>2, UnseenThen
<1>4. CASE shell'[s].at = "load" /\ Verb(s) \notin TheCatalog!BareVerbs
  <2>1. Undivided => Undivided' /\ EntriesNow' = EntriesNow
    BY <1>1, <1>4, Aside DEF At
  <2>2. TheCatalog!Passes(s, {"asked"}, "done")
    BY <1>1, <1>4, PassesOn, StatusAt, StatusThen DEF At
  <2>3. UNCHANGED <<LinesNow, AgreedNow, LoadedNow>>
    BY <1>1, SameLine
  <2> QED BY <1>4, <2>1, <2>2, <2>3, StaysIf, VerbsSame
          DEF TheCatalog!Pass, LinesNow, AgreedNow, LoadedNow
<1> QED BY <1>2, <1>3, <1>4, RunSame

\* The file is emptied: from here on the entry counts as made or dropped.
LEMMA OpenChanges ==
  ASSUME CatalogInv, Typed', NEW s \in Shells, OpenCatalog(s)
  PROVE  TheCatalog!Enter(s) \/ TheCatalog!Drop(s)
<1>0. Typed /\ \A t \in Shells : Dutiful(t)
  BY DEF CatalogInv, PreviewInv, EntryInv
<1>1. /\ Alone(s) /\ Same(s) /\ At(s, "open") /\ catalog' = Truncated /\ shell'[s].at = "write"
      /\ shell'[s].catalog = shell[s].catalog /\ shell[s].line \in Lines
      /\ shell[s].plugin \in Ids
  BY <1>0, GotoSame DEF OpenCatalog, At, Typed, Busy, AtWork
<1>2. TheCatalog!Passes(s, {"asked"}, "done")
  BY <1>1, PassesOn, StatusAt, StatusThen DEF At
<1>3. UNCHANGED <<LinesNow, AgreedNow, LoadedNow>>
  BY <1>1, SameLine
<1>4. Verb(s) \in TheCatalog!ChangingVerbs
  BY <1>0, <1>1 DEF Dutiful
<1>5. ASSUME Undivided, Undivided'
      PROVE  Fresh(s) /\ EntriesNow = catalog /\ EntriesNow' = shell[s].catalog
  <2>1. Fresh(s) /\ catalog \in Catalogs
    BY <1>1, <1>5 DEF Undivided, Fresh
  <2> QED BY <1>0, <1>1, <1>5, <2>1, WhatEntriesAre, WhatEntriesBecome
<1>6. ASSUME Undivided, ~Undivided' PROVE TheCatalog!Rivalled(s)
  <2>1. catalog \in Catalogs
    BY <1>1, <1>6 DEF Undivided, Fresh
  <2>2. catalog # Truncated
    BY <2>1, ConsoleAssumption DEF ConsoleAssumption, Unreadable
  <2>3. \A t \in Shells : ~At(t, "write")
    BY <1>6, <2>2 DEF Undivided
  <2>4. \A t \in Shells \ {s} : ~At(t, "write")'
    BY <1>1, <2>3 DEF Alone, At
  <2>5. At(s, "write")'
    BY <1>1 DEF At
  <2>6. \E r \in Shells : At(r, "open")'
    BY <1>1, <1>6, <2>4, <2>5 DEF Undivided
  <2>7. PICK r \in Shells : At(r, "open")'
    BY <2>6
  <2>8. r # s /\ At(r, "open")
    BY <1>1, <2>7 DEF Alone, At
  <2>9. Verb(r) \in TheCatalog!ChangingVerbs /\ StatusesNow[r] = "asked"
    BY <1>0, <2>8, StatusAt DEF Dutiful, At, StatusesNow
  <2> QED BY <2>8, <2>9, VerbsSame DEF TheCatalog!Rivalled, StatusesNow
<1>7. CASE Verb(s) = "remove"
  <2>1. ASSUME Undivided, Undivided'
        PROVE  EntriesNow[Arg(s)] # None /\ EntriesNow' = [EntriesNow EXCEPT ![Arg(s)] = None]
    BY <1>5, <1>7, <2>1 DEF Fresh
  <2> QED BY <1>2, <1>3, <1>6, <1>7, <2>1, VerbsSame
          DEF TheCatalog!Drop, LinesNow, AgreedNow, LoadedNow
<1>8. CASE Verb(s) # "remove"
  <2>1. Verb(s) \in TheCatalog!AddingVerbs
    BY <1>4, <1>8 DEF TheCatalog!ChangingVerbs
  <2>2. ASSUME Undivided, Undivided'
        PROVE  \E p \in Ids, f \in Folders :
                 /\ Arg(s) \in Folders => f = Arg(s)
                 /\ EntriesNow' = [EntriesNow EXCEPT ![p] = f]
    <3>1. EntriesNow' = [EntriesNow EXCEPT ![shell[s].plugin] = Target(s)]
      BY <1>5, <1>8, <2>2 DEF Fresh
    <3>2. EntriesNow' \in Catalogs /\ EntriesNow \in Catalogs
      BY <1>0, <1>5, <2>2 DEF Fresh, Typed, TypeOK
    <3>3. Target(s) \in Folders
      BY <1>0, <1>1, <1>8 DEF Dutiful
    <3> QED BY <1>1, <3>1, <3>3 DEF Target
  <2> QED BY <1>2, <1>3, <1>6, <2>1, <2>2, VerbsSame
          DEF TheCatalog!Enter, LinesNow, AgreedNow, LoadedNow
<1> QED BY <1>7, <1>8

\* The write of an addition, which ends the line, and that of another line.
LEMMA WriteKeeps ==
  ASSUME CatalogInv, Typed', NEW s \in Shells, WriteCatalog(s)
  PROVE  TheCatalog!Succeed(s) \/ TheCatalog!Drift \/ UNCHANGED TheCatalog!catalogVars
<1>0. Typed /\ Dutiful(s) /\ Asked(s)
  BY DEF CatalogInv, PreviewInv, EntryInv
<1>1. At(s, "write") /\ shell[s].line \in Lines
  BY <1>0 DEF WriteCatalog, At, Typed, Busy, AtWork
<1>2. /\ Alone(s) /\ Same(s) /\ shell'[s].at \in {"prompt", "uncache", "load"}
      /\ Verb(s) = "add" => shell'[s].at = "prompt" /\ shell'[s].ok = TRUE
      /\ Verb(s) # "add" => shell'[s].at \in {"uncache", "load"}
  <2>1. CASE Verb(s) = "add"
    <3>1. ~shell[s].dry
      BY <1>0, <1>1, <2>1 DEF Asked, Working, At, Confirmed
    <3> QED BY <1>0, <2>1, <3>1, EndsSame DEF WriteCatalog
  <2>2. CASE Verb(s) # "add"
    BY <1>0, <2>2, GotoSame DEF WriteCatalog
  <2> QED BY <2>1, <2>2
<1>3. ASSUME Undivided PROVE Undivided' /\ EntriesNow' = EntriesNow
  <2>1. catalog = Truncated /\ \A r \in Shells \ {s} : ~At(r, "write")
    BY <1>1, <1>3 DEF Undivided
  <2>2. catalog' = shell[s].catalog /\ catalog' \in Catalogs
    BY <1>0, <2>1 DEF WriteCatalog, Typed, TypeOK
  <2>3. \A r \in Shells : ~At(r, "open")
    BY <1>3, <2>1, ConsoleAssumption DEF Undivided, Fresh, ConsoleAssumption, Unreadable
  <2>4. \A r \in Shells : ~At(r, "open")' /\ ~At(r, "write")'
    <3> SUFFICES ASSUME NEW r \in Shells PROVE ~At(r, "open")' /\ ~At(r, "write")'
      OBVIOUS
    <3>1. CASE r = s
      BY <1>2, <3>1 DEF At
    <3>2. CASE r # s
      BY <1>2, <2>1, <2>3, <3>2 DEF Alone, At
    <3> QED BY <3>1, <3>2
  <2>5. catalog' \notin Unreadable'
    BY <2>2, ConsoleAssumption DEF ConsoleAssumption, Unreadable
  <2>6. Undivided'
    BY <2>4, <2>5 DEF Undivided
  <2>7. EntriesNow = shell[s].catalog /\ EntriesNow' = catalog'
    BY <1>0, <1>1, <1>3, <2>2, WhatEntriesAre, WhatEntriesBecome
  <2> QED BY <2>2, <2>6, <2>7
<1>4. CASE Verb(s) = "add"
  <2>1. /\ Verb(s) \in TheCatalog!BareVerbs /\ Verb(s) \notin TheCatalog!PreviewedVerbs
    BY <1>4 DEF TheCatalog!BareVerbs, TheCatalog!PreviewedVerbs
  <2> QED BY <1>1, <1>2, <1>3, <1>4, <2>1, StaysIf, SucceedsThen DEF At
<1>5. CASE Verb(s) # "add"
  <2>1. StatusOf(s)' = StatusOf(s)
    BY <1>1, <1>2, <1>5, StatusAt, StatusThen DEF At
  <2> QED BY <1>2, <1>3, <2>1, UnseenThen
<1> QED BY <1>4, <1>5

LEMMA UncacheSucceeds ==
  ASSUME CatalogInv, Typed', NEW s \in Shells, RemovePackageCache(s)
  PROVE  TheCatalog!Succeed(s)
<1>0. Typed /\ Placed(s) /\ Asked(s)
  BY DEF CatalogInv, PreviewInv, EntryInv, Tracked
<1>1. At(s, "uncache") /\ shell[s].line \in Lines /\ Verb(s) = "remove"
  BY <1>0 DEF RemovePackageCache, At, Typed, Busy, AtWork, Placed
<1>2. ~shell[s].dry
  BY <1>0, <1>1 DEF Asked, Working, At, Confirmed
<1>3. /\ Alone(s) /\ Same(s) /\ shell'[s].at = "prompt" /\ shell'[s].ok = TRUE
      /\ catalog' = catalog
  BY <1>0, <1>2, EndsSame DEF RemovePackageCache
<1>4. Undivided => Undivided' /\ EntriesNow' = EntriesNow
  BY <1>0, <1>1, <1>3, Aside DEF At
<1>5. Verb(s) \in TheCatalog!BareVerbs /\ Verb(s) \notin TheCatalog!PreviewedVerbs
  BY <1>1 DEF TheCatalog!BareVerbs, TheCatalog!PreviewedVerbs
<1> QED BY <1>1, <1>3, <1>4, <1>5, StaysIf, SucceedsThen DEF At

\* Whatever a plugin is loaded from, if it is a folder, is an entry.
LEMMA SourceListed ==
  ASSUME Typed, NEW p \in Ids, Found(p)
  PROVE  Source(p) \in {Builtin, Package} \union ({EntriesNow[q] : q \in Ids} \ {None})
<1>1. catalog \in Catalogs /\ EntriesNow = catalog
  BY WhatEntriesAre DEF Typed, TypeOK, Found, Loads
<1>2. ASSUME Declaring(p) # {}
      PROVE  \E i \in Declaring(p) : \A j \in Declaring(p) : i <= j
  <2>1. Declaring(p) \subseteq Nat
    BY ConsoleAssumption DEF ConsoleAssumption, Declaring, Listed
  <2> QED BY <1>2, <2>1, SmallestNat
<1>3. ASSUME Declaring(p) # {}
      PROVE  catalog[CHOOSE i \in Declaring(p) : \A j \in Declaring(p) : i <= j]
               \in {EntriesNow[q] : q \in Ids} \ {None}
  <2> DEFINE first == CHOOSE i \in Declaring(p) : \A j \in Declaring(p) : i <= j
  <2>1. first \in Declaring(p)
    BY <1>2, <1>3
  <2>2. first \in Ids /\ catalog[first] # None
    BY <2>1 DEF Declaring, Listed
  <2> HIDE DEF first
  <2>3. catalog[first] \in {EntriesNow[q] : q \in Ids} \ {None}
    BY <1>1, <2>2
  <2> QED BY <2>3 DEF first
<1>4. Source(p) # None
  BY DEF Found
<1>5. CASE p \in Builtins
  BY <1>5 DEF Source
<1>6. CASE p \notin Builtins /\ Declaring(p) # {}
  BY <1>3, <1>6 DEF Source
<1>7. CASE p \notin Builtins /\ Declaring(p) = {}
  BY <1>4, <1>7 DEF Source
<1> QED BY <1>5, <1>6, <1>7

LEMMA LoadLoads ==
  ASSUME CatalogInv, Typed', NEW s \in Shells, LoadOne(s)
  PROVE  TheCatalog!Load(s) \/ TheCatalog!Fail(s)
<1>0. /\ Typed /\ Placed(s)
      /\ shell \in [Shells -> Contexts] /\ shell[s] \in Contexts
  BY DEF CatalogInv, PreviewInv, EntryInv, Tracked, Typed, TypeOK, Contexts
<1>1. /\ At(s, "load") /\ shell[s].line \in Lines /\ shell[s].plugin \in Ids
      /\ Verb(s) \notin TheCatalog!BareVerbs /\ catalog' = catalog
  BY <1>0 DEF LoadOne, At, Typed, Busy, AtWork, Placed, TheCatalog!BareVerbs
<1>2. CASE ~Found(shell[s].plugin)
  <2>1. Ends(s, FALSE)
    BY <1>2 DEF LoadOne
  <2>2. Alone(s) /\ Same(s) /\ shell'[s].at = "prompt" /\ shell'[s].ok = FALSE
    BY <1>0, <2>1, EndsSame
  <2>3. Undivided => Undivided' /\ EntriesNow' = EntriesNow
    BY <1>0, <1>1, <2>2, Aside DEF At
  <2> QED BY <1>1, <2>2, <2>3, StaysIf, FailsThen DEF At
<1>3. CASE Found(shell[s].plugin)
  <2> DEFINE x == Source(shell[s].plugin)
  <2>1. shell' = [shell EXCEPT ![s].at = "act", ![s].source = x]
    BY <1>3 DEF LoadOne
  <2> HIDE DEF x
  <2>2. /\ Alone(s) /\ shell'[s].at = "act" /\ shell'[s].source = x
        /\ shell'[s].line = shell[s].line /\ shell'[s].agreed = shell[s].agreed
    BY <1>0, <2>1 DEF Contexts, Alone
  <2>3. Undivided => Undivided' /\ EntriesNow' = EntriesNow
    BY <1>0, <1>1, <2>2, Aside DEF At
  <2>4. x \in {Builtin, Package} \union ({EntriesNow[q] : q \in Ids} \ {None})
    BY <1>0, <1>1, <1>3, SourceListed DEF x
  <2>5. StatusOf(s) = "done" /\ StatusOf(s)' = "done"
    BY <1>1, <2>2, StatusAt, StatusThen DEF At
  <2>6. /\ StatusesNow' = [StatusesNow EXCEPT ![s] = "done"]
        /\ LinesNow' = [LinesNow EXCEPT ![s] = shell[s].line]
        /\ AgreedNow' = [AgreedNow EXCEPT ![s] = shell[s].agreed]
        /\ LoadedNow' = [LoadedNow EXCEPT ![s] = x]
    BY <2>2, <2>5, OthersSame
  <2>7. StatusesNow' = StatusesNow /\ StatusesNow[s] = "done"
    BY <2>5, <2>6 DEF StatusesNow
  <2>8. LinesNow' = LinesNow /\ AgreedNow' = AgreedNow
    BY <2>6 DEF LinesNow, AgreedNow
  <2> QED BY <1>1, <2>3, <2>4, <2>6, <2>7, <2>8, StaysIf, VerbsSame
          DEF TheCatalog!Load, StatusesNow, LinesNow, AgreedNow, LoadedNow
<1> QED BY <1>2, <1>3

LEMMA ActAnswers ==
  ASSUME CatalogInv, Typed', NEW s \in Shells, Act(s)
  PROVE  TheCatalog!Show(s) \/ TheCatalog!Succeed(s) \/ TheCatalog!Fail(s)
<1>0. Typed /\ Placed(s) /\ Asked(s) /\ Dutiful(s)
  BY DEF CatalogInv, PreviewInv, EntryInv, Tracked
<1>1. /\ At(s, "act") /\ shell[s].line \in Lines /\ Working(s)
      /\ Verb(s) \notin TheCatalog!BareVerbs /\ catalog' = catalog /\ shell[s].source # None
  BY <1>0 DEF Act, At, Typed, Busy, AtWork, Placed, TheCatalog!BareVerbs, Asked, Working
<1>2. PICK ok \in BOOLEAN : Ends(s, ok)
  BY DEF Act
<1>3. /\ Alone(s) /\ Same(s) /\ shell'[s].ok = ok
      /\ shell'[s].at = IF shell[s].dry /\ ok THEN "confirm" ELSE "prompt"
  BY <1>0, <1>2, EndsSame
<1>4. Undivided => Undivided' /\ EntriesNow' = EntriesNow
  BY <1>0, <1>1, <1>3, Aside DEF At
<1>5. CASE ~ok
  BY <1>1, <1>3, <1>4, <1>5, StaysIf, FailsThen DEF At
<1>6. CASE ok /\ ~shell[s].dry
  <2>1. Verb(s) \in TheCatalog!PreviewedVerbs => shell[s].agreed
    BY <1>0, <1>1, <1>6 DEF Asked, Confirmed, TheCatalog!PreviewedVerbs
  <2> QED BY <1>1, <1>3, <1>4, <1>6, <2>1, StaysIf, SucceedsThen DEF At
<1>7. CASE ok /\ shell[s].dry
  <2>1. Verb(s) \in TheCatalog!PreviewedVerbs /\ ~shell[s].agreed
    BY <1>0, <1>1, <1>7 DEF Asked, Dutiful, Confirmed, TheCatalog!PreviewedVerbs
  <2>2. TheCatalog!Passes(s, {"done"}, "shown")
    BY <1>1, <1>3, <1>7, PassesOn, StatusAt, StatusThen DEF At
  <2>3. UNCHANGED <<LinesNow, AgreedNow, LoadedNow>>
    BY <1>3, SameLine
  <2>4. LoadedNow[s] = shell[s].source /\ AgreedNow[s] = shell[s].agreed
    BY DEF LoadedNow, AgreedNow
  <2> QED BY <1>1, <1>4, <2>1, <2>2, <2>3, <2>4, StaysIf, VerbsSame
          DEF TheCatalog!Show, LinesNow, AgreedNow, LoadedNow
<1> QED BY <1>5, <1>6, <1>7

LEMMA AnswerAgrees ==
  ASSUME Typed, Typed', NEW s \in Shells, Answer(s)
  PROVE  TheCatalog!Agree(s) \/ TheCatalog!Fail(s)
<1>0. /\ At(s, "confirm") /\ shell[s].line \in Lines /\ catalog' = catalog
      /\ shell \in [Shells -> Contexts] /\ shell[s] \in Contexts
  BY DEF Answer, At, Typed, TypeOK, Busy, AtWork, Contexts
<1>1. CASE shell' = [shell EXCEPT ![s].at = "run", ![s].agreed = TRUE, ![s].dry = FALSE]
  <2>1. /\ Alone(s) /\ shell'[s].at = "run" /\ shell'[s].line = shell[s].line
        /\ shell'[s].agreed = TRUE /\ shell'[s].source = shell[s].source
    BY <1>0, <1>1 DEF Contexts, Alone
  <2>2. Undivided => Undivided' /\ EntriesNow' = EntriesNow
    BY <1>0, <2>1, Aside DEF At
  <2>3. TheCatalog!Passes(s, {"shown"}, "asked")
    BY <1>0, <2>1, PassesOn, StatusAt, StatusThen
  <2>4. /\ LinesNow' = [LinesNow EXCEPT ![s] = shell[s].line]
        /\ AgreedNow' = [AgreedNow EXCEPT ![s] = TRUE]
        /\ LoadedNow' = [LoadedNow EXCEPT ![s] = shell[s].source]
    BY <2>1, OthersSame
  <2>5. LinesNow' = LinesNow /\ LoadedNow' = LoadedNow
    BY <2>4 DEF LinesNow, LoadedNow
  <2> QED BY <2>2, <2>3, <2>4, <2>5, StaysIf DEF TheCatalog!Agree, LinesNow, AgreedNow, LoadedNow
<1>2. CASE shell' = [shell EXCEPT ![s].at = "prompt", ![s].ok = FALSE]
  <2>1. Alone(s) /\ Same(s) /\ shell'[s].at = "prompt" /\ shell'[s].ok = FALSE
    BY <1>0, <1>2 DEF Contexts, Alone, Same
  <2>2. Undivided => Undivided' /\ EntriesNow' = EntriesNow
    BY <1>0, <2>1, Aside DEF At
  <2> QED BY <1>0, <2>1, <2>2, StaysIf, FailsThen DEF At
<1> QED BY <1>1, <1>2 DEF Answer

LEMMA EndLeaves ==
  ASSUME CatalogInv, Typed', NEW s \in Shells, Leave(s) \/ Killed(s)
  PROVE  TheCatalog!Leave(s)
<1>0. Typed /\ Dutiful(s)
  BY DEF CatalogInv, PreviewInv, EntryInv
<1>1. /\ Alone(s) /\ Same(s) /\ shell'[s].at = "left" /\ ~At(s, "left")
      /\ catalog' = catalog \/ At(s, "write")
  BY <1>0, GotoSame DEF Leave, Killed, At
<1>2. StatusOf(s) # "gone" /\ StatusOf(s)' = "gone"
  BY <1>0, <1>1, StatusThen DEF StatusOf, At, Typed, TypeOK, Places
<1>3. /\ StatusesNow' = [StatusesNow EXCEPT ![s] = "gone"] /\ StatusesNow[s] # "gone"
      /\ StatusesNow[s] = StatusOf(s)
  BY <1>1, <1>2, OthersSame DEF StatusesNow
<1>4. UNCHANGED <<LinesNow, AgreedNow, LoadedNow>>
  BY <1>1, SameLine
<1>5. CASE At(s, "write")
  <2>1. StatusOf(s) = "done" /\ Verb(s) \in TheCatalog!ChangingVerbs
    BY <1>0, <1>5, StatusAt DEF Dutiful, At
  <2> QED BY <1>3, <1>4, <2>1, VerbsSame
          DEF TheCatalog!Leave, StatusesNow, LinesNow, AgreedNow, LoadedNow
<1>6. CASE ~At(s, "write")
  <2>1. Undivided => Undivided' /\ EntriesNow' = EntriesNow
    BY <1>0, <1>1, <1>6, Aside
  <2> QED BY <1>3, <1>4, <2>1, StaysIf
          DEF TheCatalog!Leave, StatusesNow, LinesNow, AgreedNow, LoadedNow
<1> QED BY <1>5, <1>6

\* The catalog does not depend on what the manifests are.
LEMMA EditUnseen ==
  ASSUME UNCHANGED <<catalog, shell>>
  PROVE  UNCHANGED TheCatalog!catalogVars
<1>1. \A s \in Shells : /\ StatusOf(s)' = StatusOf(s) /\ Fresh(s)' = Fresh(s)
  BY DEF StatusOf, Fresh, At, Verb, Arg, Target, Catalogs
<1>2. EntriesNow' = EntriesNow
  BY DEF EntriesNow, At, NoEntries, Catalogs
<1>3. Undivided' = Undivided
  BY <1>1 DEF Undivided, At, Unreadable
<1> QED BY <1>1, <1>2, <1>3 DEF TheCatalog!catalogVars

LEMMA CatalogStep ==
  ASSUME CatalogInv, CatalogInv', [Next]_vars
  PROVE  [TheCatalog!CatalogNext]_TheCatalog!catalogVars
<1>0. Typed /\ Typed'
  BY DEF CatalogInv, PreviewInv, EntryInv
<1>1. ASSUME NEW s \in Shells, Step(s)
      PROVE  TheCatalog!CatalogNext \/ UNCHANGED TheCatalog!catalogVars
  <2>1. CASE \E line \in Lines : Type(s, line)
    BY <1>0, <2>1, TypeAsks DEF TheCatalog!CatalogNext
  <2>2. CASE Run(s)
    BY <1>0, <2>2, RunPasses DEF TheCatalog!CatalogNext
  <2>3. CASE OpenCatalog(s)
    BY <1>0, <2>3, OpenChanges DEF TheCatalog!CatalogNext
  <2>4. CASE WriteCatalog(s)
    BY <1>0, <2>4, WriteKeeps DEF TheCatalog!CatalogNext
  <2>5. CASE RemovePackageCache(s)
    BY <1>0, <2>5, UncacheSucceeds DEF TheCatalog!CatalogNext
  <2>6. CASE LoadOne(s)
    BY <1>0, <2>6, LoadLoads DEF TheCatalog!CatalogNext
  <2>7. CASE Act(s)
    BY <1>0, <2>7, ActAnswers DEF TheCatalog!CatalogNext
  <2>8. CASE Answer(s)
    BY <1>0, <2>8, AnswerAgrees DEF TheCatalog!CatalogNext
  <2>9. CASE Leave(s)
    BY <1>0, <2>9, EndLeaves DEF TheCatalog!CatalogNext
  <2> QED BY <1>1, <2>1, <2>2, <2>3, <2>4, <2>5, <2>6, <2>7, <2>8, <2>9 DEF Step
<1>2. ASSUME NEW s \in Shells, Killed(s) PROVE TheCatalog!CatalogNext
  BY <1>0, <1>2, EndLeaves DEF TheCatalog!CatalogNext
<1>3. CASE (\E f \in Folders, content \in Ids \union {None, Broken} : Edit(f, content))
           \/ UNCHANGED vars
  BY <1>3, EditUnseen DEF Edit, vars
<1> QED BY <1>1, <1>2, <1>3 DEF Next

\* Any number of shells keep what module UserCatalog says of the catalog: a line changes
\* its one entry or none, exactly if it says so, and only a line that overlaps another's
\* change, or dies in its own, can spoil what the others find (add_user_plugin,
\* remove_user_plugin, _write_user_catalog, run_shell).
THEOREM CatalogKept == Spec => KeepsCatalog
<1>1. Init => TheCatalog!CatalogInit
  <2> SUFFICES ASSUME Init PROVE TheCatalog!CatalogInit
    OBVIOUS
  <2>1. \A s \in Shells : At(s, "prompt") /\ shell[s].line = None /\ ~shell[s].agreed
                          /\ shell[s].source = None /\ StatusOf(s) = "idle"
    BY DEF Init, At, StatusOf
  <2>2. catalog = NoEntries /\ catalog \in Catalogs /\ catalog \notin Unreadable
    BY NoEntriesTyped, ConsoleAssumption DEF Init, ConsoleAssumption
  <2>3. Undivided
    BY <2>1, <2>2 DEF Undivided, At
  <2>4. EntriesNow = NoEntries
    BY <2>2 DEF EntriesNow
  <2>5. /\ LinesNow = [s \in Shells |-> None] /\ StatusesNow = [s \in Shells |-> "idle"]
        /\ AgreedNow = [s \in Shells |-> FALSE] /\ LoadedNow = [s \in Shells |-> None]
    BY <2>1 DEF Init, LinesNow, StatusesNow, AgreedNow, LoadedNow
  <2> QED BY <2>3, <2>4, <2>5
          DEF TheCatalog!CatalogInit, NoEntries, LinesNow, StatusesNow, AgreedNow, LoadedNow
<1> QED BY <1>1, InitCatalog, NextCatalog, CatalogStep, PTL
        DEF Spec, KeepsCatalog, TheCatalog!CatalogSpec
=============================================================================
