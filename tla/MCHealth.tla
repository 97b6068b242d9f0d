------------------------------- MODULE MCHealth -------------------------------
(* An instance of HealthCheck: two coordinators and a datanode, a library that  *)
(* may not be built yet, and a rollback script that is linted but not copied.   *)
(* The install SQL is left out: it is there, and good copies of it are, too.    *)
EXTENDS HealthCheck, TLC

CONSTANTS cn1, cn2, dn1

MCNodeRank == (cn1 :> 1) @@ (cn2 :> 2) @@ (dn1 :> 3)
MCFileRank == ("library" :> 1) @@ ("rollback_sql" :> 2)

\* Builds are interchangeable, so the local file is b1; the coordinators have been
\* served alike; scripts are there and have no copies; verify has not been run; the second
\* coordinator has another version, or a prepared transaction, only if nothing else is out
\* of the ordinary.
MCInit ==
  /\ CheckInit
  /\ \A f \in Files : local[f] \in {"b1", Absent} /\ remote[cn1, f] = remote[cn2, f]
  /\ \A n \in Nodes, f \in Scripts : remote[<<n, f>>] = Absent
  /\ \A n \in Nodes : prepared[n] \/ (n \in Coordinators /\ catalog[n] = "1.1") =>
       /\ n = cn2 /\ history["rollback"] = "none"
       /\ setup = [cluster |-> "valid", listed |-> TRUE]
  /\ \A f \in Scripts : local[f] # Absent
  /\ history["verify"] = "none"

\* One call fails or one thing changes, but not both; nobody copies a script.
MCNext ==
  /\ CheckNext
  /\ faults' + ownFaults' + changes' + recorded' <= 1
  /\ \A n \in Nodes, f \in Scripts : remote'[<<n, f>>] = Absent

MCSpec == MCInit /\ [][MCNext]_allVars
=============================================================================
