------------------------------ MODULE MCDeploy ------------------------------
(***************************************************************************)
(* Instances of Distribution: a plugin with an install SQL, a manifest     *)
(* and, found by the scan of source_root, one shared library, on one       *)
(* coordinator and one datanode.                                           *)
(***************************************************************************)
EXTENDS Distribution, TLC

CONSTANTS cn, dn, hostA, hostB

MCCoordinators == {cn}
MCDatanodes == {dn}
SeparateHosts == (cn :> hostA) @@ (dn :> hostB)
OneHost == (cn :> hostA) @@ (dn :> hostA)

MCNodeRank == (cn :> 1) @@ (dn :> 2)
MCFileRank == ("install_sql" :> 1) @@ ("library" :> 2) @@ ("manifest" :> 3)

MCFiles == {"library", "install_sql", "manifest"}
MCSuffix == ("library" :> "so") @@ ("install_sql" :> "sql") @@ ("manifest" :> "other")
MCBase == ("library" :> "p.so") @@ ("install_sql" :> "p--1.0.sql")
            @@ ("manifest" :> "manifest.yml")
MCPackageDir == [f \in MCFiles |-> IF f = "library" THEN "package/src" ELSE "package"]

\* The same plugin without its library.
SqlFiles == {"install_sql", "manifest"}
SqlSuffix == [f \in SqlFiles |-> MCSuffix[f]]
SqlFileRank == [f \in SqlFiles |-> MCFileRank[f]]
SqlBase == [f \in SqlFiles |-> MCBase[f]]
SqlPackageDir == [f \in SqlFiles |-> MCPackageDir[f]]

NothingThere == {Absent}
Stale == {<<"install_sql", "v0">>, Absent}

\* A plugin directory whose manifest is called plugin.yml.
PluginYmlBase == [MCBase EXCEPT !["manifest"] = "plugin.yml"]
PluginYmlSqlBase == [f \in SqlFiles |-> PluginYmlBase[f]]
=============================================================================
