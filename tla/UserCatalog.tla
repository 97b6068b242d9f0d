---------------------------- MODULE UserCatalog ----------------------------
(***************************************************************************)
(* What the user catalog promises to those who work on it with commands,   *)
(* without the file, its reading and writing, and the manifests.           *)
(*                                                                         *)
(* A line that adds, deploys by path or removes a plugin changes one entry *)
(* of the catalog, all at once, between the moment it is typed and its     *)
(* answer; no other line changes any.  An addition or removal answers well *)
(* exactly if it has been carried out.  A plugin that is loaded from a     *)
(* folder has an entry with that folder at that moment.  A line that asks  *)
(* first is carried out at most twice, for its preview and after the yes.  *)
(*                                                                         *)
(* This holds of a catalog that is intact.  Only a line that is carried    *)
(* out while another is still to be, or one that dies while it changes the *)
(* catalog, may spoil it.  A spoilt catalog may come to be intact again,   *)
(* with whatever entries.                                                  *)
(***************************************************************************)
CONSTANTS
  Shells,
  Ids,
  Folders,
  Elsewhere,   \* where a plugin may come from if not from a folder
  Lines,       \* <<verb, argument>> pairs
  None

VARIABLES
  entries,     \* [Ids -> Folders or None]
  line,        \* [Shells -> the line last typed, or None]
  status,      \* [Shells -> how far that line has come]
  agreed,      \* [Shells -> has the user said yes to its preview?]
  loaded,      \* [Shells -> where its plugin comes from]
  intact

catalogVars == <<entries, line, status, agreed, loaded, intact>>

AddingVerbs == {"add", "deploy"}
ChangingVerbs == AddingVerbs \union {"remove"}
BareVerbs == {"add", "remove"}     \* these only change the catalog
PreviewedVerbs == {"deploy", "register", "rollback"}

VerbOf(s) == line[s][1]
ArgOf(s) == line[s][2]

CatalogInit ==
  /\ entries = [p \in Ids |-> None]
  /\ line = [s \in Shells |-> None]
  /\ status = [s \in Shells |-> "idle"]
  /\ agreed = [s \in Shells |-> FALSE]
  /\ loaded = [s \in Shells |-> None]
  /\ intact = TRUE

Passes(s, from, to) == status[s] \in from /\ status' = [status EXCEPT ![s] = to]

\* What an intact catalog holds is changed by nothing else.
Stays == intact => intact' /\ entries' = entries

----------------------------------------------------------------------------
Ask(s) ==
  /\ Passes(s, {"idle", "ok", "failed"}, "asked")
  /\ \E l \in Lines : line' = [line EXCEPT ![s] = l]
  /\ agreed' = [agreed EXCEPT ![s] = FALSE]
  /\ loaded' = [loaded EXCEPT ![s] = None]
  /\ Stays

\* Another line may be just as far.
Rivalled(s) == \E r \in Shells \ {s} : status[r] = "asked" /\ VerbOf(r) \in ChangingVerbs

Enter(s) ==
  /\ Passes(s, {"asked"}, "done")
  /\ VerbOf(s) \in AddingVerbs
  /\ intact /\ intact' =>
       \E p \in Ids, f \in Folders :
         /\ ArgOf(s) \in Folders => f = ArgOf(s)
         /\ entries' = [entries EXCEPT ![p] = f]
  /\ intact /\ ~intact' => Rivalled(s)
  /\ UNCHANGED <<line, agreed, loaded>>

Drop(s) ==
  /\ Passes(s, {"asked"}, "done")
  /\ VerbOf(s) = "remove"
  /\ intact /\ intact' => entries[ArgOf(s)] # None /\ entries' = [entries EXCEPT ![ArgOf(s)] = None]
  /\ intact /\ ~intact' => Rivalled(s)
  /\ UNCHANGED <<line, agreed, loaded>>

\* A line that has no use for the catalog, or finds there what it needs.
Pass(s) ==
  /\ Passes(s, {"asked"}, "done")
  /\ VerbOf(s) \notin BareVerbs
  /\ Stays
  /\ UNCHANGED <<line, agreed, loaded>>

Load(s) ==
  /\ status[s] = "done" /\ VerbOf(s) \notin BareVerbs
  /\ \E x \in Elsewhere \union ({entries[p] : p \in Ids} \ {None}) :
       loaded' = [loaded EXCEPT ![s] = x]
  /\ Stays
  /\ UNCHANGED <<line, status, agreed>>

Show(s) ==
  /\ Passes(s, {"done"}, "shown")
  /\ VerbOf(s) \in PreviewedVerbs /\ ~agreed[s] /\ loaded[s] # None
  /\ Stays
  /\ UNCHANGED <<line, agreed, loaded>>

Agree(s) ==
  /\ Passes(s, {"shown"}, "asked")
  /\ agreed' = [agreed EXCEPT ![s] = TRUE]
  /\ Stays
  /\ UNCHANGED <<line, loaded>>

Succeed(s) ==
  /\ Passes(s, {"done"}, "ok")
  /\ VerbOf(s) \notin BareVerbs => loaded[s] # None
  /\ VerbOf(s) \in PreviewedVerbs => agreed[s]
  /\ Stays
  /\ UNCHANGED <<line, agreed, loaded>>

Fail(s) ==
  /\ Passes(s, {"asked", "shown", "done"}, "failed")
  /\ status[s] = "done" => VerbOf(s) \notin BareVerbs
  /\ Stays
  /\ UNCHANGED <<line, agreed, loaded>>

\* A shell is left, or dies, wherever it is.
Leave(s) ==
  /\ status[s] # "gone"
  /\ status' = [status EXCEPT ![s] = "gone"]
  /\ ~(status[s] = "done" /\ VerbOf(s) \in ChangingVerbs) => Stays
  /\ UNCHANGED <<line, agreed, loaded>>

\* The entries of a spoilt catalog may be anything at any time.
Drift ==
  /\ ~intact
  /\ UNCHANGED <<line, status, agreed, loaded>>

CatalogNext ==
  \/ Drift
  \/ \E s \in Shells :
       \/ Ask(s) \/ Enter(s) \/ Drop(s) \/ Pass(s) \/ Load(s) \/ Show(s) \/ Agree(s)
       \/ Succeed(s) \/ Fail(s) \/ Leave(s)

CatalogSpec == CatalogInit /\ [][CatalogNext]_catalogVars
=============================================================================
