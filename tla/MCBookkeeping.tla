--------------------------- MODULE MCBookkeeping ---------------------------
(* Instances of Bookkeeping: two commands, each of which may be any of the  *)
(* requests below, on a plugin with its scripts and both probes and, for    *)
(* some of them, on one that has none.                                      *)
EXTENDS Bookkeeping, TLC

CONSTANTS full, bare

MCPlugins == {full, bare}
MCRollbackSql == (full :> "present") @@ (bare :> "undeclared")
MCRequests == {<<"verify", full>>, <<"verify --removed", full>>, <<"rollback", full>>,
               <<"rollback --dry-run", full>>,
               <<"verify", bare>>, <<"verify --removed", bare>>, <<"rollback", bare>>}
MCSymmetry == Permutations(Commands)
=============================================================================
