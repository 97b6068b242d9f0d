------------------------------ MODULE MCRegister ------------------------------
(***************************************************************************)
(* Two executed register commands and a dry run, on two coordinators.      *)
(***************************************************************************)
EXTENDS Registration, TLC

CONSTANTS first, second, preview

MCMode == (first :> "execute") @@ (second :> "execute") @@ (preview :> "dry-run")
=============================================================================
