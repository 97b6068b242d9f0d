------------------------- MODULE RegistrationContract -------------------------
(***************************************************************************)
(* What `plugin_ctl register` promises its operators, without connections, *)
(* statements, time-outs and versions.                                     *)
(*                                                                         *)
(* A command may bring the extension to the primary coordinator once, and  *)
(* from there it spreads.  It may do so after it has been given up for     *)
(* lost, but then the answer is a failure; a dry run never does.  A good   *)
(* answer means that the extension was on the primary while the command    *)
(* ran, or, if the command has created it, on every coordinator, each at   *)
(* the time it was asked; and that nothing of the command is still to      *)
(* come.  Somebody else may drop the extension at any time.                *)
(***************************************************************************)
CONSTANTS
  Commands,
  Executed,      \* those that are not dry runs
  Coordinators,
  Primary

VARIABLES
  where,         \* the coordinators that have the extension
  pending,       \* the commands that may still create it
  confirmed,     \* [Commands -> the coordinators it was told to have it]
  status         \* [Commands -> asked, created, lost, ok or failed]

contractVars == <<where, pending, confirmed, status>>

ContractInit ==
  /\ where = {}
  /\ pending = Executed
  /\ confirmed = [c \in Commands |-> {}]
  /\ status = [c \in Commands |-> "asked"]

Becomes(c, from, to) == status[c] \in from /\ status' = [status EXCEPT ![c] = to]

\* Whatever becomes of a command, it does not get a second chance to create.
PendingShrinks(c) == pending' \in {pending, pending \ {c}}

----------------------------------------------------------------------------
(* The extension.                                                          *)

Create(c) ==
  /\ c \in pending /\ Primary \notin where
  /\ where' = where \union {Primary}
  /\ pending' = pending \ {c}
  /\ UNCHANGED <<confirmed, status>>

Spread ==
  /\ Primary \in where
  /\ \E n \in Coordinators : where' = where \union {n}
  /\ UNCHANGED <<pending, confirmed, status>>

\* The server has nothing to do, or fails.
Withdraw(c) ==
  /\ pending' = pending \ {c}
  /\ UNCHANGED <<where, confirmed, status>>

Vanish ==
  /\ where' = {}
  /\ UNCHANGED <<pending, confirmed, status>>

----------------------------------------------------------------------------
(* The command.                                                            *)

\* The extension is there already, or this was a dry run.
Approve(c) ==
  /\ c \in Executed => Primary \in where
  /\ Becomes(c, {"asked"}, "ok")
  /\ pending' = pending \ {c}
  /\ UNCHANGED <<where, confirmed>>

Created(c) ==
  /\ c \in Executed /\ Primary \in where
  /\ Becomes(c, {"asked"}, "created")
  /\ pending' = pending \ {c}
  /\ UNCHANGED <<where, confirmed>>

\* An error, or no answer in time.
Lose(c) ==
  /\ c \in Executed
  /\ Becomes(c, {"asked"}, "lost")
  /\ PendingShrinks(c)
  /\ UNCHANGED <<where, confirmed>>

Confirm(c) ==
  /\ status[c] \in {"created", "lost"}
  /\ \E n \in where : confirmed' = [confirmed EXCEPT ![c] = confirmed[c] \union {n}]
  /\ UNCHANGED <<where, pending, status>>

Report(c) ==
  /\ confirmed[c] = Coordinators /\ Becomes(c, {"created"}, "ok")
  /\ UNCHANGED <<where, pending, confirmed>>

Refuse(c) ==
  /\ Becomes(c, {"asked", "created", "lost"}, "failed")
  /\ PendingShrinks(c)
  /\ UNCHANGED <<where, confirmed>>

ContractNext ==
  \/ Spread \/ Vanish
  \/ \E c \in Commands :
       \/ Create(c) \/ Withdraw(c) \/ Approve(c) \/ Created(c) \/ Lose(c) \/ Confirm(c)
       \/ Report(c) \/ Refuse(c)

ContractSpec == ContractInit /\ [][ContractNext]_contractVars

\* Nothing of a command that was answered well is still to come.
AnsweredForGood == \A c \in Commands : status[c] \in {"created", "ok"} => c \notin pending
=============================================================================
