--------------------------- MODULE DeployContract ---------------------------
(***************************************************************************)
(* What `plugin_ctl deploy` and `plugin_ctl cluster distribute` promise,   *)
(* without threads, paths or failures.                                     *)
(*                                                                         *)
(* A delivery is one file at one of its two places (where the database     *)
(* loads it, or the package cache) on one node; it is intact when the      *)
(* place holds the file as it is in the plugin.  The command owes the      *)
(* deliveries of the plan it accepted.  While it works, deliveries may     *)
(* become intact or broken, those of the payload first and those of the    *)
(* metadata, if it owes any, afterwards; it may end with FAILED at any     *)
(* time of its choice, but with OK only when everything it owes is intact; *)
(* and before it starts and once it has ended it touches nothing.          *)
(***************************************************************************)
CONSTANTS
  Payload,     \* deliveries to the database's directories
  Metadata     \* deliveries to the package caches

VARIABLES
  stage,       \* "open", "payload", "metadata" or "closed"
  owed,        \* the deliveries of the accepted plan
  intact,      \* the deliveries that are complete and current
  verdict      \* "none", "OK" or "FAILED"

contractVars == <<stage, owed, intact, verdict>>

ContractInit ==
  /\ stage = "open"
  /\ owed = {}
  /\ intact \in SUBSET (Payload \union Metadata)
  /\ verdict = "none"

\* A preview, or a plan that is refused: nothing is owed and nothing is touched.
Decline ==
  /\ stage = "open"
  /\ stage' = "closed"
  /\ verdict' \in {"OK", "FAILED"}
  /\ UNCHANGED <<owed, intact>>

Accept ==
  /\ stage = "open"
  /\ stage' = "payload"
  /\ owed' \in SUBSET (Payload \union Metadata)
  /\ UNCHANGED <<intact, verdict>>

DeliverPayload ==
  /\ stage = "payload"
  /\ intact' \in SUBSET (Payload \union Metadata)
  /\ intact' \intersect Metadata = intact \intersect Metadata
  /\ UNCHANGED <<stage, owed, verdict>>

TurnToMetadata ==
  /\ stage = "payload"
  /\ stage' = "metadata"
  /\ UNCHANGED <<owed, intact, verdict>>

DeliverMetadata ==
  /\ stage = "metadata"
  /\ intact' \in SUBSET (Payload \union Metadata)
  /\ intact' \intersect Payload = intact \intersect Payload
  /\ UNCHANGED <<stage, owed, verdict>>

Close ==
  /\ stage = "metadata" \/ (stage = "payload" /\ owed \intersect Metadata = {})
  /\ stage' = "closed"
  /\ verdict' \in {"OK", "FAILED"}
  /\ verdict' = "OK" => owed \subseteq intact
  /\ UNCHANGED <<owed, intact>>

ContractNext ==
  \/ Decline \/ Accept \/ DeliverPayload \/ TurnToMetadata \/ DeliverMetadata
  \/ Close

ContractSpec == ContractInit /\ [][ContractNext]_contractVars
=============================================================================
