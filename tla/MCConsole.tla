------------------------------ MODULE MCConsole ------------------------------
(* An instance of Console: two shells, two folders that may hold the same   *)
(* plugin, a built-in one or none that loads; a name that is also that of a *)
(* folder.                                                                  *)
EXTENDS Console, TLC

CONSTANTS f, g

MCFolders == {f, g}
MCHere == 2 :> g
MCLines == {<<"add", f>>, <<"add", g>>, <<"remove", 2>>, <<"deploy", f>>, <<"deploy", 2>>,
            <<"register", 2>>, <<"activate", 2>>}
MCFirstManifests ==
  {(f :> 2) @@ (g :> 2), (f :> 1) @@ (g :> 1), (f :> 3) @@ (g :> 1), (f :> Broken) @@ (g :> 2)}
MCSymmetry == Permutations(Shells)
=============================================================================
