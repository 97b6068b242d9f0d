------------------------------- MODULE MCBuild -------------------------------
(* Two coordinators and two datanodes, two inits and two builds, of which two or three are *)
(* run; status prints the coordinators in another order than that of their names.          *)
EXTENDS Build, TLC

CONSTANTS cn1, cn2, dn1, dn2

MCNodes == {cn1, cn2, dn1, dn2}
MCRole == (cn1 :> "cn") @@ (cn2 :> "cn") @@ (dn1 :> "dn") @@ (dn2 :> "dn")
ByName == (cn1 :> 1) @@ (cn2 :> 2) @@ (dn1 :> 3) @@ (dn2 :> 4)
AsPrinted == (cn1 :> 2) @@ (cn2 :> 1) @@ (dn1 :> 3) @@ (dn2 :> 4)

\* Only the last of the local ports answers; the first config file that is tried is unusable.
MCLocal == <<None, None, cn1>>
MCDescribed == <<{}, MCNodes>>

Auto(ctl, target) == [backend |-> "auto", ctl |-> ctl, target |-> target, server |-> "new"]
MCRequests ==
  {Auto("complete", "home"), Auto("complete", "cwd")}
    \union {Auto(ctl, "home") : ctl \in {"terse", "absent", "misnamed"}}
    \union {[Auto("complete", "home") EXCEPT !.backend = backend] : backend \in {"opentenbase_ctl", "sql"}}

MCManifests ==
  {[type |-> "sql", pg_config |-> "auto"], [type |-> "other", pg_config |-> "auto"],
   [type |-> "c", pg_config |-> "auto"], [type |-> "c", pg_config |-> "old"],
   [type |-> "c", pg_config |-> "gone"]}

Old == [nodes |-> {<<cn1, cn1>>}, server |-> "old"]
MCFiles ==
  {[cwd |-> NoFile, home |-> NoFile], [cwd |-> NoFile, home |-> Old], [cwd |-> Old, home |-> Old]}

Views == {{}, MCNodes, MCNodes \ {cn2}, MCNodes \ {dn1}}

\* The cluster as the two sources may know it.
MCView ==
  /\ listed \in {MCNodes, MCNodes \ {cn1}, {dn1, dn2}, {}}
  /\ pgxc \in [Coordinators -> Views]
  /\ (pgxc[cn1] # {} => pgxc[cn1] = pgxc[cn2])

Run == {i \in Inits : request[i] # None}
Built == {b \in Builders : builder[b].manifest # None}

Plain(manifest) == manifest.type = "c" /\ manifest.pg_config = "auto"

\* One init looks at any cluster, and one build follows it or overtakes it.
OneOfEach ==
  /\ Cardinality(Run) = 1 /\ Cardinality(Built) = 1
  /\ source = 1 /\ library = None

\* On a sound cluster, two inits and a build, or an init and two builds.
Sound == listed = MCNodes /\ \A c \in Coordinators : pgxc[c] = MCNodes

TwoAndOne ==
  /\ Sound
  /\ \A i \in Run : request[i].backend = "auto" /\ request[i].ctl = "complete"
  /\ \/ Cardinality(Run) = 2 /\ Cardinality(Built) = 1 /\ library = None
     \/ Cardinality(Run) = 1 /\ Cardinality(Built) = 2
  /\ \A b \in Built : builder[b].manifest.type = "c"
  /\ \E b \in Built : Plain(builder[b].manifest)
  /\ library # None => library.server = "old" /\ source = 1

MCInit == MCView /\ BuildInit /\ (OneOfEach \/ TwoAndOne) /\ (library = None => outdated = {})

\* One thing at most goes wrong or changes.
MCNext == BuildNext /\ disturbances' + mishaps' <= 1

MCSpec == MCInit /\ [][MCNext]_vars

Alike == Permutations(Inits) \union Permutations(Builders)

=============================================================================
