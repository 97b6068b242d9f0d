------------------------------- MODULE Books -------------------------------
(***************************************************************************)
(* What state.json and archive.json promise, without files and their       *)
(* writing, databases and failures.                                        *)
(*                                                                         *)
(* A command that is recorded enters its result once, at the end of the    *)
(* entries, and nobody ever takes an entry back.  What is shown of a       *)
(* plugin is replaced as a whole, by the newest entry of each of its       *)
(* actions.  A command may be entered and its plugin not be shown anew.    *)
(* The books may be spoilt at any time, by commands that keep them at the  *)
(* same time or by one that dies while it writes; from then on nothing is  *)
(* promised.                                                               *)
(***************************************************************************)
EXTENDS Naturals, Sequences

CONSTANTS
  Commands,
  Plugins,
  Actions,
  NoEntry

VARIABLES
  entries,     \* a sequence of entries
  shown,       \* [Plugins -> [Actions -> an entry or NoEntry]]
  orders,      \* [Commands -> [plugin : Plugins, action : Actions]]
  kept         \* are the books still what they should be?

booksVars == <<entries, shown, orders, kept>>

Entries == [by : Commands, ok : BOOLEAN]

BooksInit ==
  /\ entries = <<>>
  /\ shown = [p \in Plugins |-> [a \in Actions |-> NoEntry]]
  /\ orders \in [Commands -> [plugin : Plugins, action : Actions]]
  /\ kept = TRUE

Enter(c) ==
  /\ \A i \in DOMAIN entries : entries[i].by # c
  /\ \E ok \in BOOLEAN : entries' = Append(entries, [by |-> c, ok |-> ok])
  /\ UNCHANGED <<shown, orders>>

Of(p, a) ==
  {i \in DOMAIN entries : orders[entries[i].by] = [plugin |-> p, action |-> a]}

\* e is what there is to show of action a on plugin p.
Newest(e, p, a) ==
  \/ Of(p, a) = {} /\ e = NoEntry
  \/ \E i \in Of(p, a) : e = entries[i] /\ \A j \in Of(p, a) : j <= i

Show(p) ==
  /\ \E view \in [Actions -> Entries \union {NoEntry}] :
       /\ \A a \in Actions : Newest(view[a], p, a)
       /\ shown' = [shown EXCEPT ![p] = view]
  /\ UNCHANGED <<entries, orders>>

Keep ==
  /\ kept = TRUE /\ kept' = TRUE
  /\ (\E c \in Commands : Enter(c)) \/ (\E p \in Plugins : Show(p))

\* Nothing is promised of spoilt books, but they are not mended.
Spoil == kept' = FALSE /\ orders' = orders

BooksNext == Keep \/ Spoil

BooksSpec == BooksInit /\ [][BooksNext]_booksVars
=============================================================================
