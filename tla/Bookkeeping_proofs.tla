-------------------------- MODULE Bookkeeping_proofs --------------------------
(***************************************************************************)
(* What holds of PluginCtl's books for every number of commands and        *)
(* plugins.  That no record is lost (StillThere) rests on two facts about   *)
(* the commands that are between the reading and the writing of            *)
(* state.json: what they have read holds every record they owe a place to  *)
(* (Carried), and if there are two of them, both are known to overlap      *)
(* (OverlapKnown).                                                         *)
(***************************************************************************)
EXTENDS Bookkeeping, WellFoundedInduction, TLAPS

USE DEF Kinds, Actions

Locals == [at : Places, ok : BOOLEAN, log : Seq(Records),
           probed : Statuses, latest : Latest, archive : Archives]

\* The three ways in which a command's local variables change.
LEMMA GotoTyped ==
  ASSUME TypeOK, NEW c \in Commands, NEW place \in Places, Goto(c, place)
  PROVE  cmd' \in [Commands -> Locals]
<1>1. cmd[c] \in Locals
  BY DEF TypeOK, Locals
<1>2. [cmd[c] EXCEPT !.at = place] \in Locals
  BY <1>1 DEF Locals
<1>3. cmd' = [cmd EXCEPT ![c] = [cmd[c] EXCEPT !.at = place]]
  BY DEF TypeOK, Goto
<1>4. cmd \in [Commands -> Locals]
  BY DEF TypeOK, Locals
<1> QED BY <1>2, <1>3, <1>4

LEMMA FinishTyped ==
  ASSUME TypeOK, NEW c \in Commands, NEW ok \in BOOLEAN, Finish(c, ok)
  PROVE  cmd' \in [Commands -> Locals]
<1>1. cmd[c] \in Locals
  BY DEF TypeOK, Locals
<1>2. [cmd[c] EXCEPT !.at = "record", !.ok = ok] \in Locals
  BY <1>1 DEF Locals, Places
<1>3. cmd' = [cmd EXCEPT ![c] = [cmd[c] EXCEPT !.at = "record", !.ok = ok]]
  BY DEF TypeOK, Finish
<1>4. cmd \in [Commands -> Locals]
  BY DEF TypeOK, Locals
<1> QED BY <1>2, <1>3, <1>4

LEMMA ReadTyped ==
  ASSUME TypeOK, NEW c \in Commands, NEW place \in Places
  PROVE  /\ \A s \in Seq(Records) :
              [cmd EXCEPT ![c].at = place, ![c].log = s] \in [Commands -> Locals]
         /\ \A s \in Statuses :
              [cmd EXCEPT ![c].at = place, ![c].probed = s] \in [Commands -> Locals]
         /\ \A l \in Latest :
              [cmd EXCEPT ![c].at = place, ![c].latest = l] \in [Commands -> Locals]
         /\ \A a \in Archives :
              [cmd EXCEPT ![c].at = place, ![c].archive = a] \in [Commands -> Locals]
<1>1. cmd \in [Commands -> Locals]
  BY DEF TypeOK, Locals
<1>2. \A s \in Seq(Records) :
         [cmd EXCEPT ![c].at = place, ![c].log = s] \in [Commands -> Locals]
  BY <1>1 DEF Locals
<1>3. \A s \in Statuses :
         [cmd EXCEPT ![c].at = place, ![c].probed = s] \in [Commands -> Locals]
  BY <1>1 DEF Locals
<1>4. \A l \in Latest :
         [cmd EXCEPT ![c].at = place, ![c].latest = l] \in [Commands -> Locals]
  BY <1>1 DEF Locals
<1>5. \A a \in Archives :
         [cmd EXCEPT ![c].at = place, ![c].archive = a] \in [Commands -> Locals]
  BY <1>1 DEF Locals
<1> QED BY <1>2, <1>3, <1>4, <1>5

LEMMA RequestTyped ==
  ASSUME TypeOK, NEW c \in Commands
  PROVE  Kind(c) \in Kinds /\ Plugin(c) \in Plugins
<1>1. request[c] \in Kinds \X Plugins
  BY BookkeepingAssumption DEF TypeOK
<1> QED BY <1>1 DEF Kind, Plugin

\* What latest_actions returns is a record of the list, or none.
LEMMA LatestTyped ==
  ASSUME NEW s \in Seq(Records), NEW p
  PROVE  LatestActions(s, p) \in Latest
<1>1. SUFFICES ASSUME NEW a \in Actions, Last(s, p, a) # {}
               PROVE  s[CHOOSE i \in Last(s, p, a) : TRUE] \in Records
  BY DEF LatestActions, Latest
<1>2. (CHOOSE i \in Last(s, p, a) : TRUE) \in Last(s, p, a)
  BY <1>1
<1>3. Last(s, p, a) \subseteq DOMAIN s
  BY DEF Last, Mine
<1> QED BY <1>2, <1>3

LEMMA AppendedTyped ==
  ASSUME TypeOK, NEW c \in Commands
  PROVE  Appended(c) \in Seq(Records)
<1>1. cmd[c].log \in Seq(Records) /\ [by |-> c, ok |-> cmd[c].ok] \in Records
  BY DEF TypeOK, Records
<1> QED BY <1>1 DEF Appended

LEMMA UpsertedTyped ==
  ASSUME TypeOK, NEW c \in Commands
  PROVE  Upserted(c) \in Archives
<1>1. cmd[c].archive \in Archives /\ cmd[c].latest \in Latest /\ cmd[c].probed \in Statuses
  BY DEF TypeOK
<1>2. ArchiveStatus(c) \in Statuses
  BY <1>1 DEF ArchiveStatus, Statuses
<1>3. [status |-> ArchiveStatus(c), latest |-> cmd[c].latest] \in ArchiveRecords
  BY <1>1, <1>2 DEF ArchiveRecords
<1> QED BY <1>1, <1>3 DEF Upserted, Archives

----------------------------------------------------------------------------
(* Type correctness.                                                       *)

LEMMA InitTyped == Init => TypeOK
<1> SUFFICES ASSUME Init PROVE TypeOK
  OBVIOUS
<1>1. <<>> \in Seq(Records)
  OBVIOUS
<1>2. [a \in Actions |-> NoRecord] \in Latest /\ [p \in Plugins |-> NoRecord] \in Archives
  BY DEF Latest, Archives
<1>3. cmd \in [Commands -> Locals]
  BY <1>1, <1>2 DEF Init, Locals, Places, Statuses
<1> QED BY <1>1, <1>2, <1>3 DEF Init, TypeOK, Locals

LEMMA StepTyped ==
  ASSUME TypeOK, NEW c \in Commands, Step(c)
  PROVE  TypeOK'
<1> USE DEF At, database, files, bounds
<1>1. CASE RunVerify(c)
  <2>1. cmd' \in [Commands -> Locals]
    <3>1. CASE \E ok \in BOOLEAN : Finish(c, ok)
      BY <3>1, FinishTyped
    <3>2. CASE Goto(c, "error")
      BY <3>2, GotoTyped DEF Places
    <3>3. installed[Plugin(c)] \in BOOLEAN
      BY RequestTyped DEF TypeOK
    <3> QED BY <1>1, <3>1, <3>2, <3>3 DEF RunVerify
  <2> QED BY <1>1, <2>1 DEF RunVerify, TypeOK, Locals
<1>2. CASE PlanRollback(c)
  <2>1. cmd' \in [Commands -> Locals]
    <3>1. CASE \E ok \in BOOLEAN : Finish(c, ok)
      BY <3>1, FinishTyped
    <3>2. CASE Goto(c, "execute")
      BY <3>2, GotoTyped DEF Places
    <3> QED BY <1>2, <3>1, <3>2 DEF PlanRollback
  <2> QED BY <1>2, <2>1 DEF PlanRollback, TypeOK, Locals
<1>3. CASE SqlFails(c)
  <2>1. cmd' \in [Commands -> Locals]
    BY <1>3, FinishTyped DEF SqlFails
  <2> QED BY <1>3, <2>1 DEF SqlFails, Fault, TypeOK, Locals
<1>17. CASE ClientMissing(c)
  <2>1. cmd' \in [Commands -> Locals]
    BY <1>17, GotoTyped DEF ClientMissing, Places
  <2> QED BY <1>17, <2>1 DEF ClientMissing, Fault, TypeOK, Locals
<1>4. CASE SendRollback(c)
  <2>1. cmd' \in [Commands -> Locals]
    BY <1>4, GotoTyped DEF SendRollback, Places
  <2> QED BY <1>4, <2>1 DEF SendRollback, TypeOK, Locals
<1>5. CASE RollbackAnswered(c)
  <2>1. cmd' \in [Commands -> Locals]
    BY <1>5, FinishTyped DEF RollbackAnswered
  <2> QED BY <1>5, <2>1 DEF RollbackAnswered, TypeOK, Locals
<1>6. CASE RollbackTimesOut(c)
  <2>1. cmd' \in [Commands -> Locals]
    BY <1>6, FinishTyped DEF RollbackTimesOut
  <2> QED BY <1>6, <2>1 DEF RollbackTimesOut, TypeOK, Locals
<1>7. CASE ReadLog(c)
  <2>1. cmd' \in [Commands -> Locals]
    <3>1. CASE log \in Unreadable
      BY <1>7, <3>1, GotoTyped DEF ReadLog, Places
    <3>2. CASE log \notin Unreadable
      <4>1. log \in Seq(Records) /\ "append" \in Places
        BY <3>2 DEF TypeOK, Places
      <4>2. cmd' = [cmd EXCEPT ![c].at = "append", ![c].log = log]
        BY <1>7, <3>2 DEF ReadLog
      <4> QED BY <4>1, <4>2, ReadTyped
    <3> QED BY <3>1, <3>2
  <2>2. overlapped' \subseteq Commands /\ concurrent' \in BOOLEAN
    BY <1>7 DEF ReadLog, TypeOK, Appending
  <2> QED BY <1>7, <2>1, <2>2 DEF ReadLog, TypeOK, Locals
<1>8. CASE TruncateLog(c)
  <2>1. cmd' \in [Commands -> Locals]
    BY <1>8, GotoTyped DEF TruncateLog, Places
  <2> QED BY <1>8, <2>1 DEF TruncateLog, TypeOK, Locals, Unreadable
<1>9. CASE WriteLog(c)
  <2>1. cmd' \in [Commands -> Locals]
    BY <1>9, GotoTyped DEF WriteLog, Places
  <2>2. log' \in Seq(Records) \union Unreadable
    BY <1>9, AppendedTyped DEF WriteLog, Landed, Unreadable
  <2> QED BY <1>9, <2>1, <2>2 DEF WriteLog, TypeOK, Locals
<1>10. CASE Probe(c)
  <2>1. cmd' \in [Commands -> Locals]
    BY <1>10, ReadTyped DEF Probe, Places, Statuses
  <2> QED BY <1>10, <2>1 DEF Probe, TypeOK, Locals
<1>11. CASE ProbeFails(c)
  <2>1. cmd' \in [Commands -> Locals]
    BY <1>11, ReadTyped DEF ProbeFails, Places, Statuses
  <2> QED BY <1>11, <2>1 DEF ProbeFails, Fault, TypeOK, Locals
<1>12. CASE ReadLatest(c)
  <2>1. cmd' \in [Commands -> Locals]
    <3>1. CASE log \in Unreadable
      BY <1>12, <3>1, GotoTyped DEF ReadLatest, Places
    <3>2. CASE log \notin Unreadable
      <4>1. LatestActions(log, Plugin(c)) \in Latest
        BY <3>2, LatestTyped DEF TypeOK
      <4>2. cmd' = [cmd EXCEPT ![c].at = "metadata",
                               ![c].latest = LatestActions(log, Plugin(c))]
        BY <1>12, <3>2 DEF ReadLatest
      <4>3. "metadata" \in Places
        BY DEF Places
      <4> QED BY <4>1, <4>2, <4>3, ReadTyped
    <3> QED BY <3>1, <3>2
  <2> QED BY <1>12, <2>1 DEF ReadLatest, TypeOK, Locals
<1>13. CASE ReadMetadata(c)
  <2>1. cmd' \in [Commands -> Locals]
    BY <1>13, GotoTyped DEF ReadMetadata, Places
  <2> QED BY <1>13, <2>1 DEF ReadMetadata, TypeOK, Locals
<1>14. CASE ReadArchive(c)
  <2>1. cmd' \in [Commands -> Locals]
    <3>1. CASE archive \in Unreadable
      BY <1>14, <3>1, GotoTyped DEF ReadArchive, Places
    <3>2. CASE archive \notin Unreadable
      <4>1. archive \in Archives /\ "upsert" \in Places
        BY <3>2 DEF TypeOK, Places
      <4>2. cmd' = [cmd EXCEPT ![c].at = "upsert", ![c].archive = archive]
        BY <1>14, <3>2 DEF ReadArchive
      <4> QED BY <4>1, <4>2, ReadTyped
    <3> QED BY <3>1, <3>2
  <2> QED BY <1>14, <2>1 DEF ReadArchive, TypeOK, Locals
<1>15. CASE TruncateArchive(c)
  <2>1. cmd' \in [Commands -> Locals]
    BY <1>15, GotoTyped DEF TruncateArchive, Places
  <2> QED BY <1>15, <2>1 DEF TruncateArchive, TypeOK, Locals, Unreadable
<1>16. CASE WriteArchive(c)
  <2>1. cmd' \in [Commands -> Locals]
    BY <1>16, GotoTyped DEF WriteArchive, Places
  <2>2. archive' \in Archives \union Unreadable
    BY <1>16, UpsertedTyped DEF WriteArchive, Landed, Unreadable
  <2> QED BY <1>16, <2>1, <2>2 DEF WriteArchive, TypeOK, Locals
<1> QED BY <1>1, <1>2, <1>3, <1>4, <1>5, <1>6, <1>7, <1>8, <1>9, <1>10, <1>11,
           <1>12, <1>13, <1>14, <1>15, <1>16, <1>17 DEF Step

LEMMA NextTyped == TypeOK /\ [Next]_vars => TypeOK'
<1> SUFFICES ASSUME TypeOK, [Next]_vars PROVE TypeOK'
  OBVIOUS
<1> USE DEF database, files, bounds
<1>1. CASE UNCHANGED vars
  BY <1>1 DEF vars, TypeOK
<1>2. ASSUME NEW c \in Commands, Step(c) PROVE TypeOK'
  BY <1>2, StepTyped
<1>3. ASSUME NEW c \in Commands, Killed(c) PROVE TypeOK'
  <2>1. cmd' \in [Commands -> Locals]
    BY <1>3, GotoTyped DEF Killed, Places
  <2> QED BY <1>3, <2>1 DEF Killed, TypeOK, Locals, Unreadable
<1>4. ASSUME NEW c \in Commands, RollbackRuns(c) PROVE TypeOK'
  <2>1. Plugin(c) \in Plugins
    BY RequestTyped
  <2> QED BY <1>4, <2>1 DEF RollbackRuns, TypeOK
<1>5. ASSUME NEW c \in Commands, RollbackBreaks(c) PROVE TypeOK'
  BY <1>5 DEF RollbackBreaks, Fault, TypeOK
<1>6. ASSUME NEW p \in Plugins, Register(p) PROVE TypeOK'
  BY <1>6 DEF Register, TypeOK
<1> QED BY <1>1, <1>2, <1>3, <1>4, <1>5, <1>6 DEF Next

\* Every variable keeps its type, whatever the commands are asked to do.
THEOREM TypeCorrect == Spec => []TypeOK
BY InitTyped, NextTyped, PTL DEF Spec

----------------------------------------------------------------------------
(* The records of state.json.                                              *)

Holds(s, d) == \E i \in DOMAIN s : s[i].by = d

\* The half of RecordsKept that is about losing a record.
StillThere ==
  log \notin Unreadable => \A d \in written \ overlapped : Holds(log, d)

\* What a command in the middle of an append has read holds every record that
\* StillThere promises to keep.
Carried ==
  \A c \in Appending : \A d \in written \ overlapped : Holds(cmd[c].log, d)

OverlapKnown ==
  \A c, d \in Appending : c # d => c \in overlapped

LogInv == StillThere /\ Carried /\ OverlapKnown

\* The steps that touch neither state.json nor what a command has read of it.
AwayFromLog ==
  /\ UNCHANGED <<log, written, overlapped>>
  /\ Appending' = Appending
  /\ \A c \in Commands : cmd'[c].log = cmd[c].log

LEMMA AwayFromLogKeeps == LogInv /\ AwayFromLog => LogInv'
BY DEF LogInv, AwayFromLog, StillThere, Carried, OverlapKnown, Holds, Appending

\* A command that goes from one place outside the append to another.
LEMMA OutsideTheAppend ==
  ASSUME TypeOK, NEW c \in Commands, NEW place \in Places \ {"append", "write"},
         ~At(c, "append"), ~At(c, "write"),
         UNCHANGED <<log, written, overlapped>>,
         \A d \in Commands \ {c} : cmd'[d] = cmd[d],
         cmd'[c].at = place, cmd'[c].log = cmd[c].log
  PROVE  AwayFromLog
<1>1. \A d \in Commands : cmd'[d].at \in {"append", "write"} <=> cmd[d].at \in {"append", "write"}
  BY DEF At
<1>2. Appending' = Appending
  BY <1>1 DEF Appending
<1> QED BY <1>2 DEF AwayFromLog

LEMMA GotoOutside ==
  ASSUME TypeOK, NEW c \in Commands, NEW place \in Places \ {"append", "write"},
         ~At(c, "append"), ~At(c, "write"), Goto(c, place),
         UNCHANGED <<log, written, overlapped>>
  PROVE  AwayFromLog
<1>1. cmd'[c] = [cmd[c] EXCEPT !.at = place] /\ \A d \in Commands \ {c} : cmd'[d] = cmd[d]
  BY DEF TypeOK, Goto
<1>2. cmd'[c].at = place /\ cmd'[c].log = cmd[c].log
  BY <1>1 DEF TypeOK
<1> QED BY <1>1, <1>2, OutsideTheAppend

LEMMA FinishOutside ==
  ASSUME TypeOK, NEW c \in Commands, NEW ok \in BOOLEAN,
         ~At(c, "append"), ~At(c, "write"), Finish(c, ok),
         UNCHANGED <<log, written, overlapped>>
  PROVE  AwayFromLog
<1>1. cmd'[c].at = "record" /\ cmd'[c].log = cmd[c].log /\ \A d \in Commands \ {c} : cmd'[d] = cmd[d]
  BY DEF TypeOK, Finish
<1> QED BY <1>1, OutsideTheAppend DEF Places

LEMMA ReadLogKeeps ==
  ASSUME TypeOK, LogInv, NEW c \in Commands, ReadLog(c)
  PROVE  LogInv'
<1>1. CASE log \in Unreadable
  <2>1. AwayFromLog
    BY <1>1, GotoOutside DEF ReadLog, At, Places
  <2> QED BY <2>1, AwayFromLogKeeps
<1>2. CASE log \notin Unreadable
  <2>1. /\ UNCHANGED <<log, written>>
        /\ overlapped' = overlapped \union (IF Appending = {} THEN {} ELSE Appending \union {c})
    BY <1>2 DEF ReadLog
  <2>2. /\ cmd'[c].at = "append" /\ cmd'[c].log = log
        /\ \A d \in Commands \ {c} : cmd'[d] = cmd[d]
    BY <1>2 DEF ReadLog, TypeOK
  <2>3. Appending' = Appending \union {c}
    BY <2>2 DEF Appending
  <2>4. StillThere'
    BY <2>1 DEF LogInv, StillThere
  <2>5. Carried'
    <3> SUFFICES ASSUME NEW e \in Appending', NEW d \in (written \ overlapped)'
                 PROVE  Holds(cmd'[e].log, d)
      BY DEF Carried, Holds
    <3>1. d \in written \ overlapped
      BY <2>1
    <3>2. CASE e = c
      BY <1>2, <2>2, <3>1, <3>2 DEF LogInv, StillThere, Holds
    <3>3. CASE e # c
      BY <2>2, <2>3, <3>1, <3>3 DEF LogInv, Carried, Appending
    <3> QED BY <3>2, <3>3
  <2>6. OverlapKnown'
    BY <2>1, <2>3 DEF LogInv, OverlapKnown
  <2> QED BY <2>4, <2>5, <2>6 DEF LogInv
<1> QED BY <1>1, <1>2

\* A command that leaves the append, with or without its record.
LEMMA LeavingKeeps ==
  ASSUME LogInv, NEW c \in Appending,
         Appending' = Appending \ {c},
         written' \in {written, written \union {c}},
         UNCHANGED overlapped,
         \A d \in Commands : cmd'[d].log = cmd[d].log,
         StillThere'
  PROVE  LogInv'
<1>1. Carried'
  <2> SUFFICES ASSUME NEW e \in Appending', NEW d \in (written \ overlapped)'
               PROVE  Holds(cmd'[e].log, d)
    BY DEF Carried, Holds
  <2>1. e \in Appending /\ e # c /\ e \in Commands
    BY DEF Appending
  <2>2. c \in overlapped
    BY <2>1 DEF LogInv, OverlapKnown
  <2>3. d \in written \ overlapped
    BY <2>2
  <2> QED BY <2>1, <2>3 DEF LogInv, Carried
<1>2. OverlapKnown'
  BY DEF LogInv, OverlapKnown
<1> QED BY <1>1, <1>2 DEF LogInv

LEMMA TruncateLogKeeps ==
  ASSUME TypeOK, LogInv, NEW c \in Commands, TruncateLog(c)
  PROVE  LogInv'
<1>1. /\ cmd'[c].at = "write" /\ \A d \in Commands : cmd'[d].log = cmd[d].log
      /\ \A d \in Commands \ {c} : cmd'[d] = cmd[d]
  BY DEF TruncateLog, Goto, TypeOK
<1>2. Appending' = Appending
  BY <1>1 DEF TruncateLog, At, Appending
<1>3. log' \in Unreadable /\ UNCHANGED <<written, overlapped>>
  BY DEF TruncateLog, Unreadable
<1>4. StillThere'
  BY <1>3 DEF StillThere, Unreadable
<1>5. Carried' /\ OverlapKnown'
  BY <1>1, <1>2, <1>3 DEF LogInv, Carried, OverlapKnown, Holds, Appending
<1> QED BY <1>4, <1>5 DEF LogInv

LEMMA WriteLogKeeps ==
  ASSUME TypeOK, LogInv, NEW c \in Commands, WriteLog(c)
  PROVE  LogInv'
<1>1. /\ cmd'[c].at = "probe" /\ \A d \in Commands : cmd'[d].log = cmd[d].log
      /\ \A d \in Commands \ {c} : cmd'[d] = cmd[d]
  BY DEF WriteLog, Goto, TypeOK
<1>2. c \in Appending /\ Appending' = Appending \ {c}
  BY <1>1 DEF WriteLog, At, Appending
<1>3. written' = written \union {c} /\ UNCHANGED overlapped
  BY DEF WriteLog
<1>4. StillThere'
  <2>1. CASE log' = Appended(c)
    <3> SUFFICES ASSUME NEW d \in written' \ overlapped'
                 PROVE  Holds(log', d)
      BY DEF StillThere, Holds
    <3> DEFINE s == cmd[c].log
               r == [by |-> c, ok |-> cmd[c].ok]
    <3>1. s \in Seq(Records) /\ log' = Append(s, r) /\ r.by = c
      BY <2>1 DEF TypeOK, Appended
    <3>2. CASE d = c
      <4>1. Len(s) + 1 \in DOMAIN log' /\ log'[Len(s) + 1] = r
        BY <3>1
      <4> QED BY <3>1, <3>2, <4>1 DEF Holds
    <3>3. CASE d # c
      <4>1. Holds(s, d)
        BY <1>2, <1>3, <3>3 DEF LogInv, Carried
      <4>2. \A i \in DOMAIN s : i \in DOMAIN log' /\ log'[i] = s[i]
        BY <3>1
      <4> QED BY <4>1, <4>2 DEF Holds
    <3> QED BY <3>2, <3>3
  <2>2. CASE log' = Mixed
    BY <2>2 DEF StillThere, Unreadable
  <2> QED BY <2>1, <2>2 DEF WriteLog, Landed
<1> QED BY <1>1, <1>2, <1>3, <1>4, LeavingKeeps

LEMMA KilledKeeps ==
  ASSUME TypeOK, LogInv, NEW c \in Commands, Killed(c)
  PROVE  LogInv'
<1>1. /\ cmd'[c].at = "killed" /\ \A d \in Commands : cmd'[d].log = cmd[d].log
      /\ \A d \in Commands \ {c} : cmd'[d] = cmd[d]
  BY DEF Killed, Goto, TypeOK
<1>2. UNCHANGED <<written, overlapped>> /\ Appending' = Appending \ {c}
  BY <1>1 DEF Killed, Appending
<1>3. CASE c \in Appending
  <2>1. log' \in {log, Mixed}
    BY DEF Killed
  <2>2. StillThere'
    BY <1>2, <2>1 DEF LogInv, StillThere, Unreadable
  <2> QED BY <1>1, <1>2, <1>3, <2>2, LeavingKeeps
<1>4. CASE c \notin Appending
  <2>1. UNCHANGED log /\ Appending' = Appending
    BY <1>2, <1>4 DEF Killed, At, Appending
  <2> QED BY <1>1, <1>2, <2>1, AwayFromLogKeeps DEF AwayFromLog
<1> QED BY <1>3, <1>4

LEMMA OtherStepsAway ==
  ASSUME TypeOK, NEW c \in Commands, Step(c),
         ~ReadLog(c), ~TruncateLog(c), ~WriteLog(c)
  PROVE  AwayFromLog
<1> USE DEF At, Places, database, files
<1>1. CASE RunVerify(c)
  <2>1. installed[Plugin(c)] \in BOOLEAN
    BY RequestTyped DEF TypeOK
  <2> QED BY <1>1, <2>1, FinishOutside, GotoOutside DEF RunVerify
<1>2. CASE PlanRollback(c)
  BY <1>2, FinishOutside, GotoOutside DEF PlanRollback
<1>3. CASE SqlFails(c)
  BY <1>3, FinishOutside DEF SqlFails
<1>13. CASE ClientMissing(c)
  BY <1>13, GotoOutside DEF ClientMissing
<1>4. CASE SendRollback(c)
  BY <1>4, GotoOutside DEF SendRollback
<1>5. CASE RollbackAnswered(c)
  BY <1>5, FinishOutside DEF RollbackAnswered
<1>6. CASE RollbackTimesOut(c)
  BY <1>6, FinishOutside DEF RollbackTimesOut
<1>7. CASE Probe(c) \/ ProbeFails(c)
  <2>1. /\ cmd'[c].at = "latest" /\ cmd'[c].log = cmd[c].log
        /\ \A d \in Commands \ {c} : cmd'[d] = cmd[d]
    BY <1>7 DEF Probe, ProbeFails, TypeOK
  <2> QED BY <1>7, <2>1, OutsideTheAppend DEF Probe, ProbeFails
<1>8. CASE ReadLatest(c)
  <2>1. /\ cmd'[c].at \in {"metadata", "error"} /\ cmd'[c].log = cmd[c].log
        /\ \A d \in Commands \ {c} : cmd'[d] = cmd[d]
    BY <1>8 DEF ReadLatest, Goto, TypeOK
  <2> QED BY <1>8, <2>1, OutsideTheAppend DEF ReadLatest
<1>9. CASE ReadMetadata(c)
  BY <1>9, GotoOutside DEF ReadMetadata
<1>10. CASE ReadArchive(c)
  <2>1. /\ cmd'[c].at \in {"upsert", "error"} /\ cmd'[c].log = cmd[c].log
        /\ \A d \in Commands \ {c} : cmd'[d] = cmd[d]
    BY <1>10 DEF ReadArchive, Goto, TypeOK
  <2> QED BY <1>10, <2>1, OutsideTheAppend DEF ReadArchive
<1>11. CASE TruncateArchive(c)
  BY <1>11, GotoOutside DEF TruncateArchive
<1>12. CASE WriteArchive(c)
  BY <1>12, GotoOutside DEF WriteArchive
<1> QED BY <1>1, <1>2, <1>3, <1>4, <1>5, <1>6, <1>7, <1>8, <1>9, <1>10, <1>11,
           <1>12, <1>13 DEF Step

LEMMA InitLog == Init => LogInv
BY DEF Init, LogInv, StillThere, Carried, OverlapKnown, Appending

LEMMA NextLog == TypeOK /\ LogInv /\ [Next]_vars => LogInv'
<1> SUFFICES ASSUME TypeOK, LogInv, [Next]_vars PROVE LogInv'
  OBVIOUS
<1>1. CASE UNCHANGED vars
  BY <1>1 DEF vars, files, LogInv, StillThere, Carried, OverlapKnown, Holds, Appending
<1>2. ASSUME NEW c \in Commands, Step(c) PROVE LogInv'
  BY <1>2, ReadLogKeeps, TruncateLogKeeps, WriteLogKeeps, OtherStepsAway, AwayFromLogKeeps
<1>3. ASSUME NEW c \in Commands, Killed(c) PROVE LogInv'
  BY <1>3, KilledKeeps
<1>4. CASE \/ \E c \in Commands : RollbackRuns(c) \/ RollbackBreaks(c)
           \/ \E p \in Plugins : Register(p)
  <2>1. UNCHANGED <<log, written, overlapped, cmd>>
    BY <1>4 DEF RollbackRuns, RollbackBreaks, Register, files
  <2> QED BY <2>1 DEF LogInv, StillThere, Carried, OverlapKnown, Holds, Appending
<1> QED BY <1>1, <1>2, <1>3, <1>4 DEF Next

LEMMA LogAlways == Spec => []LogInv
<1>1. TypeOK /\ LogInv /\ [Next]_vars => (TypeOK /\ LogInv)'
  BY NextTyped, NextLog
<1> QED BY InitTyped, InitLog, <1>1, PTL DEF Spec

\* Nobody joins the append by ending.
LEMMA GotoUnappending ==
  ASSUME TypeOK, Appending = {}, NEW c \in Commands, NEW place \in {"error", "killed"},
         Goto(c, place)
  PROVE  Appending' = {}
BY DEF TypeOK, Goto, Appending

\* An unreadable state.json is left as it is by everything but an append that was
\* already under way.
THEOREM UnreadableUntouched == Spec => UnreadableStays
<1>1. ASSUME TypeOK, [Next]_vars, log \in Unreadable, Appending = {}
      PROVE  log' = log /\ Appending' = {}
  <2>1. CASE UNCHANGED vars
    BY <1>1, <2>1 DEF vars, files, Appending
  <2>2. ASSUME NEW c \in Commands, Step(c) PROVE log' = log /\ Appending' = {}
    <3>1. ~At(c, "append") /\ ~At(c, "write")
      BY <1>1 DEF Appending, At
    <3>2. CASE ReadLog(c)
      BY <1>1, <3>1, <3>2, GotoUnappending DEF ReadLog
    <3> QED BY <1>1, <2>2, <3>1, <3>2, OtherStepsAway
            DEF TruncateLog, WriteLog, AwayFromLog
  <2>3. ASSUME NEW c \in Commands, Killed(c) PROVE log' = log /\ Appending' = {}
    <3>1. ~At(c, "append") /\ ~At(c, "write")
      BY <1>1 DEF Appending, At
    <3> QED BY <1>1, <2>3, <3>1, GotoUnappending DEF Killed
  <2>4. CASE \/ \E c \in Commands : RollbackRuns(c) \/ RollbackBreaks(c)
             \/ \E p \in Plugins : Register(p)
    BY <1>1, <2>4 DEF RollbackRuns, RollbackBreaks, Register, files, Appending
  <2> QED BY <1>1, <2>1, <2>2, <2>3, <2>4 DEF Next
<1>2. TypeOK /\ [Next]_vars => [Quarantined => Quarantined' /\ log' = log]_vars
  BY <1>1 DEF Quarantined
<1> QED BY <1>2, TypeCorrect, PTL DEF Spec, UnreadableStays

----------------------------------------------------------------------------
(* The verdict of a rollback.                                              *)

Acting == {"start", "execute", "waiting"}
Shown == {"probe", "latest", "metadata", "archive", "upsert", "store", "passed", "failed"}

\* A good result comes from the server, and is the one that is recorded.
Backed(c) ==
  /\ cmd[c].at \in Acting => ~cmd[c].ok
  /\ (Kind(c) = "rollback" /\ cmd[c].ok) => session[c] = "done"
  /\ cmd[c].at \in Shown => c \in written
  /\ At(c, "passed") => cmd[c].ok

RollbackInv == \A c \in Commands : Backed(c)

\* The steps of the bookkeeping leave the result and the server alone.
LEMMA BookingBacked ==
  ASSUME TypeOK, RollbackInv, NEW c \in Commands, NEW place \in Places \ Acting,
         \A d \in Commands \ {c} : cmd'[d] = cmd[d],
         cmd'[c].at = place, cmd'[c].ok = cmd[c].ok,
         UNCHANGED <<session, request>>,
         written \subseteq written',
         place \in Shown => c \in written',
         place = "passed" => cmd[c].ok
  PROVE  RollbackInv'
<1>1. Backed(c)'
  BY DEF RollbackInv, Backed, Kind, At
<1>2. ASSUME NEW d \in Commands \ {c} PROVE Backed(d)'
  BY <1>2 DEF RollbackInv, Backed, Kind, At
<1> QED BY <1>1, <1>2 DEF RollbackInv

\* A result is made.
LEMMA FinishBacked ==
  ASSUME TypeOK, RollbackInv, NEW c \in Commands, NEW ok \in BOOLEAN, Finish(c, ok),
         UNCHANGED <<session, request, written>>,
         (Kind(c) = "rollback" /\ ok) => session[c] = "done"
  PROVE  RollbackInv'
<1>1. /\ cmd'[c].at = "record" /\ cmd'[c].ok = ok
      /\ \A d \in Commands \ {c} : cmd'[d] = cmd[d]
  BY DEF Finish, TypeOK
<1>2. Backed(c)'
  BY <1>1 DEF Backed, Kind, At, Acting, Shown
<1>3. ASSUME NEW d \in Commands \ {c} PROVE Backed(d)'
  BY <1>1, <1>3 DEF RollbackInv, Backed, Kind, At
<1> QED BY <1>2, <1>3 DEF RollbackInv

LEMMA GotoFacts ==
  ASSUME TypeOK, NEW c \in Commands, NEW place \in Places, Goto(c, place)
  PROVE  /\ cmd'[c].at = place /\ cmd'[c].ok = cmd[c].ok
         /\ \A d \in Commands \ {c} : cmd'[d] = cmd[d]
BY DEF Goto, TypeOK

LEMMA StepBacked ==
  ASSUME TypeOK, RollbackInv, NEW c \in Commands, Step(c)
  PROVE  RollbackInv'
<1> USE DEF At, Places, database, files, Acting, Shown
<1>0. Backed(c)
  BY DEF RollbackInv
<1>1. CASE RunVerify(c)
  <2>1. Kind(c) # "rollback" /\ UNCHANGED <<session, request, written>>
    BY <1>1 DEF RunVerify, Action
  <2>2. installed[Plugin(c)] \in BOOLEAN
    BY RequestTyped DEF TypeOK
  <2>3. CASE \E ok \in BOOLEAN : Finish(c, ok)
    BY <2>1, <2>3, FinishBacked
  <2>4. CASE Goto(c, "error")
    BY <2>1, <2>4, GotoFacts, BookingBacked
  <2> QED BY <1>1, <2>2, <2>3, <2>4 DEF RunVerify
<1>2. CASE PlanRollback(c)
  <2>1. UNCHANGED <<session, request, written>>
    BY <1>2 DEF PlanRollback
  <2>2. CASE Finish(c, FALSE)
    BY <2>1, <2>2, FinishBacked
  <2>3. CASE Kind(c) = "rollback --dry-run" /\ Finish(c, TRUE)
    BY <2>1, <2>3, FinishBacked
  <2>4. CASE Goto(c, "execute")
    <3>1. /\ cmd'[c].at = "execute" /\ ~cmd'[c].ok
          /\ \A d \in Commands \ {c} : cmd'[d] = cmd[d]
      BY <1>0, <1>2, <2>4, GotoFacts DEF Backed, PlanRollback
    <3> QED BY <2>1, <3>1 DEF RollbackInv, Backed, Kind
  <2> QED BY <1>2, <2>2, <2>3, <2>4 DEF PlanRollback
<1>3. CASE SqlFails(c)
  BY <1>3, FinishBacked DEF SqlFails
<1>16. CASE ClientMissing(c)
  BY <1>16, GotoFacts, BookingBacked DEF ClientMissing
<1>4. CASE SendRollback(c)
  <2>1. /\ cmd'[c].at = "waiting" /\ ~cmd'[c].ok
        /\ \A d \in Commands \ {c} : cmd'[d] = cmd[d]
    BY <1>0, <1>4, GotoFacts DEF Backed, SendRollback
  <2>2. /\ \A d \in Commands \ {c} : session'[d] = session[d]
        /\ UNCHANGED <<request, written>>
    BY <1>4 DEF SendRollback, TypeOK
  <2> QED BY <2>1, <2>2 DEF RollbackInv, Backed, Kind
<1>5. CASE RollbackAnswered(c)
  BY <1>5, FinishBacked DEF RollbackAnswered
<1>6. CASE RollbackTimesOut(c)
  BY <1>6, FinishBacked DEF RollbackTimesOut
<1>7. CASE ReadLog(c)
  <2>1. /\ cmd'[c].at \in {"append", "error"} /\ cmd'[c].ok = cmd[c].ok
        /\ \A d \in Commands \ {c} : cmd'[d] = cmd[d]
    BY <1>7 DEF ReadLog, Goto, TypeOK
  <2> QED BY <1>7, <2>1, BookingBacked DEF ReadLog
<1>8. CASE TruncateLog(c)
  BY <1>8, GotoFacts, BookingBacked DEF TruncateLog
<1>9. CASE WriteLog(c)
  BY <1>9, GotoFacts, BookingBacked DEF WriteLog
<1>10. CASE Probe(c) \/ ProbeFails(c)
  <2>1. /\ cmd'[c].at = "latest" /\ cmd'[c].ok = cmd[c].ok
        /\ \A d \in Commands \ {c} : cmd'[d] = cmd[d]
    BY <1>10 DEF Probe, ProbeFails, TypeOK
  <2>2. c \in written
    BY <1>0, <1>10 DEF Backed, Probe, ProbeFails
  <2> QED BY <1>10, <2>1, <2>2, BookingBacked DEF Probe, ProbeFails
<1>11. CASE ReadLatest(c)
  <2>1. /\ cmd'[c].at \in {"metadata", "error"} /\ cmd'[c].ok = cmd[c].ok
        /\ \A d \in Commands \ {c} : cmd'[d] = cmd[d]
    BY <1>11 DEF ReadLatest, Goto, TypeOK
  <2>2. c \in written
    BY <1>0, <1>11 DEF Backed, ReadLatest
  <2> QED BY <1>11, <2>1, <2>2, BookingBacked DEF ReadLatest
<1>12. CASE ReadMetadata(c)
  <2>1. c \in written
    BY <1>0, <1>12 DEF Backed, ReadMetadata
  <2> QED BY <1>12, <2>1, GotoFacts, BookingBacked DEF ReadMetadata
<1>13. CASE ReadArchive(c)
  <2>1. /\ cmd'[c].at \in {"upsert", "error"} /\ cmd'[c].ok = cmd[c].ok
        /\ \A d \in Commands \ {c} : cmd'[d] = cmd[d]
    BY <1>13 DEF ReadArchive, Goto, TypeOK
  <2>2. c \in written
    BY <1>0, <1>13 DEF Backed, ReadArchive
  <2> QED BY <1>13, <2>1, <2>2, BookingBacked DEF ReadArchive
<1>14. CASE TruncateArchive(c)
  <2>1. c \in written
    BY <1>0, <1>14 DEF Backed, TruncateArchive
  <2> QED BY <1>14, <2>1, GotoFacts, BookingBacked DEF TruncateArchive
<1>15. CASE WriteArchive(c)
  <2>1. c \in written
    BY <1>0, <1>15 DEF Backed, WriteArchive
  <2> QED BY <1>15, <2>1, GotoFacts, BookingBacked DEF WriteArchive
<1> QED BY <1>1, <1>2, <1>3, <1>4, <1>5, <1>6, <1>7, <1>8, <1>9, <1>10, <1>11,
           <1>12, <1>13, <1>14, <1>15, <1>16 DEF Step

LEMMA NextBacked == TypeOK /\ RollbackInv /\ [Next]_vars => RollbackInv'
<1> SUFFICES ASSUME TypeOK, RollbackInv, [Next]_vars PROVE RollbackInv'
  OBVIOUS
<1> USE DEF database, files
<1>1. CASE UNCHANGED vars
  BY <1>1 DEF vars, RollbackInv, Backed, Kind, At
<1>2. ASSUME NEW c \in Commands, Step(c) PROVE RollbackInv'
  BY <1>2, StepBacked
<1>3. ASSUME NEW c \in Commands, Killed(c) PROVE RollbackInv'
  BY <1>3, GotoFacts, BookingBacked DEF Killed, Places, Acting, Shown
<1>4. ASSUME NEW c \in Commands, RollbackRuns(c) \/ RollbackBreaks(c) PROVE RollbackInv'
  <2>1. session[c] = "running" /\ UNCHANGED <<cmd, request, written>>
    BY <1>4 DEF RollbackRuns, RollbackBreaks
  <2>2. \A d \in Commands \ {c} : session'[d] = session[d]
    BY <1>4 DEF RollbackRuns, RollbackBreaks, TypeOK
  <2>3. ~(Kind(c) = "rollback" /\ cmd[c].ok)
    BY <2>1 DEF RollbackInv, Backed
  <2> QED BY <2>1, <2>2, <2>3 DEF RollbackInv, Backed, Kind, At
<1>5. ASSUME NEW p \in Plugins, Register(p) PROVE RollbackInv'
  BY <1>5 DEF Register, RollbackInv, Backed, Kind, At
<1> QED BY <1>1, <1>2, <1>3, <1>4, <1>5 DEF Next

\* "rollback passed" is printed only when the server has run the whole script and the
\* result has been written to state.json.
THEOREM RollbackVerdict == Spec => []PassedRollbackRan
<1>1. Init => RollbackInv
  BY DEF Init, RollbackInv, Backed, At, Acting, Shown
<1>2. TypeOK /\ RollbackInv /\ [Next]_vars => (TypeOK /\ RollbackInv)'
  BY NextTyped, NextBacked
<1>3. RollbackInv => PassedRollbackRan
  BY DEF RollbackInv, Backed, PassedRollbackRan, At, Shown
<1> QED BY InitTyped, <1>1, <1>2, <1>3, PTL DEF Spec

----------------------------------------------------------------------------
(* The books of commands that run one after the other.  A command that     *)
(* keeps its books is alone with the two files (FilesKept); that is what   *)
(* archive.json owes both its properties to.                               *)

Sequential == ~concurrent /\ crashes = 0

Alone == \A c, d \in Booking : c = d

\* What a command that keeps the books knows of the two files.
Holding(c) ==
  /\ At(c, "append") => cmd[c].log = log
  /\ At(c, "write") => log = Truncated
  /\ At(c, "upsert") => cmd[c].archive = archive
  /\ At(c, "store") => archive = Truncated

\* A file that cannot be read is being written.
FilesKept ==
  /\ Alone
  /\ log \in Unreadable => \E c \in Commands : At(c, "write")
  /\ archive \in Unreadable => \E c \in Commands : At(c, "store")
  /\ \A c \in Commands : Holding(c)

FilesInv == Sequential => FilesKept

\* A step of c that leaves the other commands where they are.
Moves(c) == UNCHANGED request /\ \A d \in Commands \ {c} : cmd'[d] = cmd[d]

\* What a command's own step changes, and how far it goes.
LEMMA ActingSteps ==
  ASSUME TypeOK, NEW c \in Commands,
         \/ RunVerify(c) \/ PlanRollback(c) \/ SqlFails(c) \/ SendRollback(c)
         \/ RollbackAnswered(c) \/ RollbackTimesOut(c)
         \/ (ClientMissing(c) /\ ~At(c, "probe"))
  PROVE  /\ Moves(c) /\ UNCHANGED <<log, archive, written, concurrent>>
         /\ cmd[c].at \in Acting
         /\ cmd'[c].at \in {"execute", "waiting", "record", "error"}
<1> USE DEF At, Acting, database, files, Moves
<1>0. \A ok \in BOOLEAN : Finish(c, ok) =>
        /\ cmd'[c].at = "record"
        /\ \A d \in Commands \ {c} : cmd'[d] = cmd[d]
  BY DEF Finish, TypeOK
<1>g. \A place \in {"execute", "waiting", "error"} : Goto(c, place) =>
        /\ cmd'[c].at = place
        /\ \A d \in Commands \ {c} : cmd'[d] = cmd[d]
  BY DEF Goto, TypeOK
<1>1. CASE RunVerify(c)
  <2>1. installed[Plugin(c)] \in BOOLEAN
    BY RequestTyped DEF TypeOK
  <2> QED BY <1>1, <1>0, <1>g, <2>1 DEF RunVerify
<1>2. CASE PlanRollback(c)
  BY <1>2, <1>0, <1>g DEF PlanRollback
<1>3. CASE SqlFails(c)
  BY <1>3, <1>0 DEF SqlFails
<1>4. CASE SendRollback(c)
  BY <1>4, <1>g DEF SendRollback
<1>5. CASE RollbackAnswered(c)
  BY <1>5, <1>0 DEF RollbackAnswered
<1>6. CASE RollbackTimesOut(c)
  BY <1>6, <1>0 DEF RollbackTimesOut
<1>7. CASE ClientMissing(c) /\ ~At(c, "probe")
  BY <1>7, <1>g DEF ClientMissing
<1> QED BY <1>1, <1>2, <1>3, <1>4, <1>5, <1>6, <1>7

LEMMA ServerSteps ==
  ASSUME \/ \E c \in Commands : RollbackRuns(c) \/ RollbackBreaks(c)
         \/ \E p \in Plugins : Register(p)
  PROVE  UNCHANGED <<files, request, cmd, crashes>>
BY DEF RollbackRuns, RollbackBreaks, Register, bounds

\* The commands run one after the other up to a step if they do after it.
LEMMA SequentialBefore == TypeOK /\ [Next]_vars /\ Sequential' => Sequential
<1> SUFFICES ASSUME TypeOK, [Next]_vars, Sequential' PROVE Sequential
  OBVIOUS
<1> USE DEF Sequential, database, files, bounds
<1>1. CASE UNCHANGED vars
  BY <1>1 DEF vars
<1>2. ASSUME NEW c \in Commands, Step(c) PROVE Sequential
  <2>1. UNCHANGED crashes
    BY <1>2 DEF Step, RunVerify, PlanRollback, SqlFails, ClientMissing, SendRollback,
                RollbackAnswered, RollbackTimesOut, ReadLog, TruncateLog, WriteLog, Probe,
                ProbeFails, ReadLatest, ReadMetadata, ReadArchive, TruncateArchive, WriteArchive
  <2>2. concurrent => concurrent'
    BY <1>2 DEF Step, RunVerify, PlanRollback, SqlFails, ClientMissing, SendRollback,
                RollbackAnswered, RollbackTimesOut, ReadLog, TruncateLog, WriteLog, Probe,
                ProbeFails, ReadLatest, ReadMetadata, ReadArchive, TruncateArchive, WriteArchive
  <2> QED BY <2>1, <2>2
<1>3. ASSUME NEW c \in Commands, Killed(c) PROVE Sequential
  BY <1>3 DEF Killed, TypeOK
<1>4. CASE \/ \E c \in Commands : RollbackRuns(c) \/ RollbackBreaks(c)
           \/ \E p \in Plugins : Register(p)
  BY <1>4, ServerSteps
<1> QED BY <1>1, <1>2, <1>3, <1>4 DEF Next

LEMMA KilledNotSequential ==
  ASSUME TypeOK, NEW c \in Commands, Killed(c)
  PROVE  ~Sequential'
BY DEF Killed, Sequential, TypeOK

----------------------------------------------------------------------------
LEMMA Readable ==
  ASSUME FilesKept, NEW c \in Commands, Booking \subseteq {c}
  PROVE  /\ ~At(c, "write") => log \notin Unreadable
         /\ ~At(c, "store") => archive \notin Unreadable
<1>1. \A d \in Commands : At(d, "write") \/ At(d, "store") => d \in Booking
  BY DEF At, Booking, Ended
<1> QED BY <1>1 DEF FilesKept

\* A step of the one command that keeps its books.
LEMMA BookerAlone ==
  ASSUME FilesKept, NEW c \in Booking, Moves(c)
  PROVE  Booking \subseteq {c} /\ Booking' \subseteq {c}
<1>1. Booking \subseteq {c}
  BY DEF FilesKept, Alone
<1>2. \A d \in Commands \ {c} : d \notin Booking'
  BY <1>1 DEF Moves, Booking
<1>3. Booking' \subseteq Commands
  BY DEF Booking
<1> QED BY <1>1, <1>2, <1>3

\* FilesKept after a step of c that has, or ends with, the only books.
LEMMA FilesAssembled ==
  ASSUME NEW c \in Commands, Booking' \subseteq {c},
         (log \in Unreadable)' => At(c, "write")',
         (archive \in Unreadable)' => At(c, "store")',
         Holding(c)'
  PROVE  FilesKept'
<1>1. \A d \in Commands \ {c} : Holding(d)'
  BY DEF Booking, Holding, At, Ended
<1> QED BY <1>1 DEF FilesKept, Alone

\* The steps in which a command keeps its books.
BookStep(c) ==
  \/ TruncateLog(c) \/ WriteLog(c) \/ Probe(c) \/ ProbeFails(c) \/ ReadLatest(c)
  \/ ReadMetadata(c) \/ ReadArchive(c) \/ TruncateArchive(c) \/ WriteArchive(c)
  \/ (ClientMissing(c) /\ At(c, "probe"))

LEMMA BookStepMoves ==
  ASSUME TypeOK, NEW c \in Commands, BookStep(c)
  PROVE  c \in Booking /\ Moves(c) /\ UNCHANGED <<concurrent, session, installed, registrations>>
<1>1. c \in Booking
  BY DEF BookStep, TruncateLog, WriteLog, Probe, ProbeFails, ReadLatest, ReadMetadata,
         ReadArchive, TruncateArchive, WriteArchive, At, Booking, Ended
<1>2. UNCHANGED <<request, concurrent, session, installed, registrations>>
  BY DEF BookStep, TruncateLog, WriteLog, Probe, ProbeFails, ReadLatest, ReadMetadata,
         ReadArchive, TruncateArchive, WriteArchive, ClientMissing, database, files
<1>3. \A d \in Commands \ {c} : cmd'[d] = cmd[d]
  BY DEF BookStep, TruncateLog, WriteLog, Probe, ProbeFails, ReadLatest, ReadMetadata,
         ReadArchive, TruncateArchive, WriteArchive, ClientMissing, Goto, TypeOK
<1> QED BY <1>1, <1>2, <1>3 DEF Moves

\* What the one command that keeps its books does, step by step.
BookedAs(c) ==
  \/ /\ At(c, "append") /\ cmd'[c] = [cmd[c] EXCEPT !.at = "write"]
     /\ log' = Truncated /\ UNCHANGED <<archive, written>>
  \/ /\ At(c, "write") /\ cmd'[c] = [cmd[c] EXCEPT !.at = "probe"]
     /\ log' = Appended(c) /\ archive' = archive /\ written' = written \union {c}
  \/ /\ At(c, "probe") /\ \E s \in Statuses :
          /\ cmd'[c] = [cmd[c] EXCEPT !.at = "latest", !.probed = s]
          /\ (faults' = faults /\ Plugin(c) \in InstalledProbes) =>
                (s = "installed") = installed[Plugin(c)]
     /\ UNCHANGED <<log, archive, written>>
  \/ /\ At(c, "probe") /\ cmd'[c] = [cmd[c] EXCEPT !.at = "error"]
     /\ faults' = faults + 1 /\ UNCHANGED <<log, archive, written>>
  \/ /\ At(c, "latest")
     /\ cmd'[c] = [cmd[c] EXCEPT !.at = "metadata", !.latest = LatestActions(log, Plugin(c))]
     /\ UNCHANGED <<log, archive, written>>
  \/ /\ At(c, "metadata") /\ cmd'[c] = [cmd[c] EXCEPT !.at = "archive"]
     /\ UNCHANGED <<log, archive, written>>
  \/ /\ At(c, "archive") /\ cmd'[c] = [cmd[c] EXCEPT !.at = "upsert", !.archive = archive]
     /\ UNCHANGED <<log, archive, written>>
  \/ /\ At(c, "upsert") /\ cmd'[c] = [cmd[c] EXCEPT !.at = "store"]
     /\ archive' = Truncated /\ UNCHANGED <<log, written>>
  \/ /\ At(c, "store") /\ cmd'[c] = [cmd[c] EXCEPT !.at = IF cmd[c].ok THEN "passed" ELSE "failed"]
     /\ archive' = Upserted(c) /\ UNCHANGED <<log, written>>

\* It ends with an error when it cannot read a file.
Stumbles(c) ==
  /\ (~At(c, "write") /\ log \in Unreadable) \/ (~At(c, "store") /\ archive \in Unreadable)
  /\ cmd'[c] = [cmd[c] EXCEPT !.at = "error"]
  /\ UNCHANGED <<log, archive, written>>

LEMMA Booked ==
  ASSUME TypeOK, NEW c \in Commands, Holding(c), BookStep(c)
  PROVE  BookedAs(c) \/ Stumbles(c)
<1> USE DEF At, database, files, BookedAs, Stumbles
<1>g. \A place : Goto(c, place) => cmd'[c] = [cmd[c] EXCEPT !.at = place]
  BY DEF Goto, TypeOK
<1>1. CASE TruncateLog(c)
  BY <1>1, <1>g DEF TruncateLog
<1>2. CASE WriteLog(c)
  BY <1>2, <1>g DEF WriteLog, Holding, Landed
<1>3. CASE Probe(c)
  <2>1. PICK s \in Statuses :
          /\ s = IF Plugin(c) \notin InstalledProbes THEN "unknown"
                 ELSE IF installed[Plugin(c)] THEN "installed" ELSE "not_installed"
    BY DEF Statuses
  <2>2. cmd'[c] = [cmd[c] EXCEPT !.at = "latest", !.probed = s]
    BY <1>3, <2>1 DEF Probe, TypeOK
  <2>3. Plugin(c) \in InstalledProbes => (s = "installed") = installed[Plugin(c)]
    BY <2>1, RequestTyped DEF TypeOK
  <2> QED BY <1>3, <2>2, <2>3 DEF Probe
<1>4. CASE ProbeFails(c)
  <2>1. cmd'[c] = [cmd[c] EXCEPT !.at = "latest", !.probed = "not_installed"]
    BY <1>4 DEF ProbeFails, TypeOK
  <2>2. "not_installed" \in Statuses /\ faults' # faults
    BY <1>4 DEF ProbeFails, Fault, Statuses, TypeOK
  <2> QED BY <1>4, <2>1, <2>2 DEF ProbeFails
<1>5. CASE ReadLatest(c)
  <2>1. CASE log \notin Unreadable
    <3>1. cmd'[c] = [cmd[c] EXCEPT !.at = "metadata", !.latest = LatestActions(log, Plugin(c))]
      BY <1>5, <2>1 DEF ReadLatest, TypeOK
    <3> QED BY <1>5, <3>1 DEF ReadLatest
  <2> QED BY <1>5, <1>g, <2>1 DEF ReadLatest
<1>6. CASE ReadMetadata(c)
  BY <1>6, <1>g DEF ReadMetadata
<1>7. CASE ReadArchive(c)
  <2>1. CASE archive \notin Unreadable
    <3>1. cmd'[c] = [cmd[c] EXCEPT !.at = "upsert", !.archive = archive]
      BY <1>7, <2>1 DEF ReadArchive, TypeOK
    <3> QED BY <1>7, <3>1 DEF ReadArchive
  <2> QED BY <1>7, <1>g, <2>1 DEF ReadArchive
<1>8. CASE TruncateArchive(c)
  BY <1>8, <1>g DEF TruncateArchive
<1>9. CASE WriteArchive(c)
  BY <1>9, <1>g DEF WriteArchive, Holding, Landed
<1>10. CASE ClientMissing(c) /\ At(c, "probe")
  BY <1>10, <1>g DEF ClientMissing, Fault
<1> QED BY <1>1, <1>2, <1>3, <1>4, <1>5, <1>6, <1>7, <1>8, <1>9, <1>10 DEF BookStep

\* When nobody else keeps them, and nothing has spoilt them, it reads both.
LEMMA BookedAlone ==
  ASSUME TypeOK, FilesKept, NEW c \in Commands, BookStep(c)
  PROVE  BookedAs(c)
<1>1. c \in Booking /\ Booking \subseteq {c}
  BY BookStepMoves, BookerAlone
<1>2. ~Stumbles(c)
  BY <1>1, Readable DEF Stumbles
<1> QED BY <1>2, Booked DEF FilesKept

LEMMA BookStepFiles ==
  ASSUME TypeOK, TypeOK', FilesKept, NEW c \in Commands, BookStep(c)
  PROVE  FilesKept'
<1>1. Booking \subseteq {c} /\ Booking' \subseteq {c}
  BY BookStepMoves, BookerAlone
<1>2. /\ ~At(c, "write") => log \notin Unreadable
      /\ ~At(c, "store") => archive \notin Unreadable
  BY <1>1, Readable
<1>3. Appended(c) \notin Unreadable /\ Upserted(c) \notin Unreadable
  BY AppendedTyped, UpsertedTyped, BookkeepingAssumption
<1>4. cmd[c] \in Locals
  BY DEF TypeOK, Locals
<1>5. BookedAs(c) /\ Holding(c)
  BY BookedAlone DEF FilesKept
<1>6. /\ (log \in Unreadable)' => At(c, "write")'
      /\ (archive \in Unreadable)' => At(c, "store")'
      /\ Holding(c)'
  BY <1>2, <1>3, <1>4, <1>5 DEF BookedAs, Holding, At, Locals
<1> QED BY <1>1, <1>6, FilesAssembled

\* A command starts to keep its books when nobody else does.
LEMMA ReadLogAlone ==
  ASSUME TypeOK, FilesKept, NEW c \in Commands, ReadLog(c), ~concurrent'
  PROVE  /\ Booking = {} /\ Booking' = {c}
         /\ log \notin Unreadable /\ archive \notin Unreadable
         /\ cmd'[c] = [cmd[c] EXCEPT !.at = "append", !.log = log]
         /\ Moves(c) /\ UNCHANGED <<log, archive, written>>
<1>1. Booking = {}
  BY DEF ReadLog
<1>2. log \notin Unreadable /\ archive \notin Unreadable
  BY <1>1 DEF FilesKept, Booking, At, Ended
<1>3. cmd' = [cmd EXCEPT ![c].at = "append", ![c].log = log]
  BY <1>2 DEF ReadLog
<1>4. /\ cmd'[c] = [cmd[c] EXCEPT !.at = "append", !.log = log]
      /\ Moves(c) /\ UNCHANGED <<log, archive, written>>
  BY <1>2, <1>3 DEF ReadLog, Moves, TypeOK
<1>5. cmd'[c].at = "append"
  BY <1>4 DEF TypeOK
<1>6. \A d \in Commands : d \in Booking' <=> d = c
  BY <1>1, <1>4, <1>5 DEF Booking, Moves, Ended
<1>7. Booking' = {c}
  BY <1>6 DEF Booking
<1> QED BY <1>1, <1>2, <1>4, <1>7

\* Steps before the books.
LEMMA ActingBooking ==
  ASSUME TypeOK, NEW c \in Commands, Moves(c), cmd[c].at \in Acting,
         cmd'[c].at \in {"execute", "waiting", "record", "error"}
  PROVE  /\ c \notin Booking /\ Booking' = Booking
         /\ \A d \in Booking : cmd'[d] = cmd[d]
         /\ \A d \in Commands, place \in {"append", "write", "probe", "latest", "metadata",
              "archive", "upsert", "store"} : At(d, place)' = At(d, place)
BY DEF Moves, Booking, Acting, Ended, At

LEMMA ActingFiles ==
  ASSUME TypeOK, FilesKept, NEW c \in Commands, Moves(c), cmd[c].at \in Acting,
         cmd'[c].at \in {"execute", "waiting", "record", "error"},
         UNCHANGED <<log, archive>>
  PROVE  FilesKept'
<1>1. /\ c \notin Booking /\ Booking' = Booking
      /\ \A d \in Booking : cmd'[d] = cmd[d]
      /\ \A d \in Commands, place \in {"append", "write", "probe", "latest", "metadata",
              "archive", "upsert", "store"} : At(d, place)' = At(d, place)
  BY ActingBooking
<1>2. \A d \in Commands : Holding(d)'
  <2> SUFFICES ASSUME NEW d \in Commands PROVE Holding(d)'
    OBVIOUS
  <2>1. CASE d \in Booking
    BY <1>1, <2>1 DEF FilesKept, Holding, At
  <2>2. CASE d \notin Booking'
    BY <2>2 DEF Holding, Booking, At, Ended
  <2> QED BY <1>1, <2>1, <2>2
<1>3. Alone'
  BY <1>1 DEF FilesKept, Alone
<1> QED BY <1>1, <1>2, <1>3 DEF FilesKept

\* The steps of commands that run one after the other.
ActingStep(c) ==
  /\ Moves(c) /\ UNCHANGED <<log, archive, written>>
  /\ cmd[c].at \in Acting
  /\ cmd'[c].at \in {"execute", "waiting", "record", "error"}

LEMMA SequentialSteps ==
  ASSUME TypeOK, [Next]_vars, Sequential'
  PROVE  \/ UNCHANGED <<log, archive, written, request, cmd>>
         \/ \E c \in Commands : ActingStep(c) \/ ReadLog(c) \/ BookStep(c)
<1>1. CASE UNCHANGED vars
  BY <1>1 DEF vars, files
<1>2. ASSUME NEW c \in Commands, Step(c)
      PROVE  ActingStep(c) \/ ReadLog(c) \/ BookStep(c)
  BY <1>2, ActingSteps DEF Step, ActingStep, BookStep
<1>3. ASSUME NEW c \in Commands, Killed(c) PROVE FALSE
  BY <1>3, KilledNotSequential
<1>4. CASE \/ \E c \in Commands : RollbackRuns(c) \/ RollbackBreaks(c)
           \/ \E p \in Plugins : Register(p)
  BY <1>4, ServerSteps DEF files
<1> QED BY <1>1, <1>2, <1>3, <1>4 DEF Next

LEMMA InitFiles == Init => FilesInv
<1> SUFFICES ASSUME Init PROVE FilesKept
  BY DEF FilesInv
<1>1. Booking = {} /\ \A c \in Commands : Holding(c)
  BY DEF Init, Booking, Holding, At
<1>2. log \in Seq(Records) /\ archive \in Archives
  BY DEF Init, Archives
<1>3. log \notin Unreadable /\ archive \notin Unreadable
  BY <1>2, BookkeepingAssumption
<1> QED BY <1>1, <1>3 DEF FilesKept, Alone

LEMMA NextFiles == TypeOK /\ FilesInv /\ [Next]_vars => FilesInv'
<1> SUFFICES ASSUME TypeOK, FilesInv, [Next]_vars, Sequential' PROVE FilesKept'
  BY DEF FilesInv
<1>0. FilesKept /\ TypeOK'
  BY SequentialBefore, NextTyped DEF FilesInv
<1>1. CASE UNCHANGED <<log, archive, written, request, cmd>>
  BY <1>0, <1>1 DEF FilesKept, Alone, Booking, Holding, At
<1>2. ASSUME NEW c \in Commands, ActingStep(c) PROVE FilesKept'
  BY <1>0, <1>2, ActingFiles DEF ActingStep
<1>3. ASSUME NEW c \in Commands, ReadLog(c) PROVE FilesKept'
  <2>1. /\ Booking' = {c} /\ log' = log /\ archive' = archive
        /\ log \notin Unreadable /\ archive \notin Unreadable
        /\ cmd'[c] = [cmd[c] EXCEPT !.at = "append", !.log = log]
    BY <1>0, <1>3, ReadLogAlone DEF Sequential
  <2>2. cmd[c] \in Locals
    BY DEF TypeOK, Locals
  <2>3. Holding(c)'
    BY <2>1, <2>2 DEF Holding, At, Locals
  <2> QED BY <2>1, <2>3, FilesAssembled
<1>4. ASSUME NEW c \in Commands, BookStep(c) PROVE FilesKept'
  BY <1>0, <1>4, BookStepFiles
<1> QED BY <1>1, <1>2, <1>3, <1>4, SequentialSteps

----------------------------------------------------------------------------
(* archive.json follows state.json.                                        *)

\* Archive a has the latest actions that the records have of plugin p.
Shows(records, a, p) ==
  LatestActions(records, p) =
    IF a[p] = NoRecord THEN [b \in Actions |-> NoRecord] ELSE a[p].latest

\* How far c has come with its plugin; that of the others is in the archive already.
Following(c) ==
  /\ cmd[c].at \in {"append", "write"} => \A p \in Plugins : Shows(cmd[c].log, archive, p)
  /\ cmd[c].at \in {"probe", "latest", "metadata", "archive", "upsert"} =>
       \A p \in Plugins \ {Plugin(c)} : Shows(log, archive, p)
  /\ At(c, "store") => \A p \in Plugins \ {Plugin(c)} : Shows(log, cmd[c].archive, p)
  /\ cmd[c].at \in {"metadata", "archive", "upsert", "store"} =>
       cmd[c].latest = LatestActions(log, Plugin(c))
  /\ c \in Booking => cmd[c].at \in {"append", "write"} \/ c \in written

NoneLeft == \A c \in written : ~At(c, "error")

FollowInv ==
  Sequential /\ NoneLeft =>
    /\ Booking = {} => \A p \in Plugins : Shows(log, archive, p)
    /\ \A c \in Commands : Following(c)

\* A record of one plugin does not change the latest actions of another.
LEMMA LatestOfOthers ==
  ASSUME NEW s \in Seq(Records), NEW r \in Records, NEW p, Plugin(r.by) # p
  PROVE  LatestActions(Append(s, r), p) = LatestActions(s, p)
<1> DEFINE t == Append(s, r)
<1>1. /\ DOMAIN s = 1 .. Len(s) /\ DOMAIN t = 1 .. (Len(s) + 1) /\ Len(s) \in Nat
      /\ t[Len(s) + 1] = r /\ \A i \in DOMAIN s : t[i] = s[i]
  OBVIOUS
<1>2. \A i : i \in DOMAIN t <=> i \in DOMAIN s \/ i = Len(s) + 1
  BY <1>1
<1>3. \A a : Mine(t, p, a) = Mine(s, p, a)
  <2> HIDE DEF t
  <2> QED BY <1>1, <1>2 DEF Mine
<1>4. \A a : Last(t, p, a) = Last(s, p, a)
  BY <1>3 DEF Last
<1>5. ASSUME NEW a \in Actions, Last(s, p, a) # {}
      PROVE  t[CHOOSE i \in Last(s, p, a) : TRUE] = s[CHOOSE i \in Last(s, p, a) : TRUE]
  <2>1. (CHOOSE i \in Last(s, p, a) : TRUE) \in Last(s, p, a)
    BY <1>5
  <2>2. Last(s, p, a) \subseteq DOMAIN s
    BY DEF Last, Mine
  <2> QED BY <1>1, <2>1, <2>2
<1>6. ASSUME NEW a \in Actions
      PROVE  (IF Last(t, p, a) = {} THEN NoRecord ELSE t[CHOOSE i \in Last(t, p, a) : TRUE]) =
             (IF Last(s, p, a) = {} THEN NoRecord ELSE s[CHOOSE i \in Last(s, p, a) : TRUE])
  <2> HIDE DEF t
  <2>1. Last(t, p, a) = Last(s, p, a)
    BY <1>4
  <2>2. CASE Last(s, p, a) = {}
    BY <2>1, <2>2
  <2>3. CASE Last(s, p, a) # {}
    BY <2>1, <2>3, <1>5
  <2> QED BY <2>2, <2>3
<1> QED BY <1>6 DEF LatestActions

LEMMA FollowAssembled ==
  ASSUME NEW c \in Commands, Booking' \subseteq {c}, Following(c)',
         Booking' = {} => \A p \in Plugins : Shows(log, archive, p)'
  PROVE  FollowInv'
<1>1. \A d \in Commands \ {c} : Following(d)'
  BY DEF Booking, Following, At, Ended
<1> QED BY <1>1 DEF FollowInv

\* A command that ended with an error stays where it is.
LEMMA ErrorStays ==
  ASSUME TypeOK, NEW c \in Commands, Moves(c), cmd[c].at # "error", written \subseteq written',
         NoneLeft'
  PROVE  NoneLeft
BY DEF NoneLeft, Moves, At, TypeOK

\* The plugins and kinds of the commands are given once and for all.
LEMMA ShownThen ==
  ASSUME request' = request
  PROVE  /\ \A p : LatestActions(log, p)' = LatestActions(log', p)
         /\ \A p : Shows(log, archive, p)' = Shows(log', archive', p)
         /\ \A c, p : Shows(cmd[c].log, archive, p)' = Shows(cmd'[c].log, archive', p)
         /\ \A c, p : Shows(log, cmd[c].archive, p)' = Shows(log', cmd'[c].archive, p)
         /\ \A c : Plugin(c)' = Plugin(c)
BY DEF Shows, LatestActions, Last, Mine, Plugin, Action, Kind

LEMMA FollowingThen ==
  ASSUME request' = request, NEW c
  PROVE  Following(c)' <=>
  /\ cmd'[c].at \in {"append", "write"} => \A p \in Plugins : Shows(cmd'[c].log, archive', p)
  /\ cmd'[c].at \in {"probe", "latest", "metadata", "archive", "upsert"} =>
       \A p \in Plugins \ {Plugin(c)} : Shows(log', archive', p)
  /\ cmd'[c].at = "store" => \A p \in Plugins \ {Plugin(c)} : Shows(log', cmd'[c].archive, p)
  /\ cmd'[c].at \in {"metadata", "archive", "upsert", "store"} =>
       cmd'[c].latest = LatestActions(log', Plugin(c))
  /\ c \in Booking' => cmd'[c].at \in {"append", "write"} \/ c \in written'
BY ShownThen DEF Following, At

LEMMA BookStepFollows ==
  ASSUME TypeOK, FilesKept, Sequential, FollowInv, NoneLeft', NEW c \in Commands, BookStep(c)
  PROVE  FollowInv'
<1> USE DEF At
<1>1. Booking \subseteq {c} /\ Booking' \subseteq {c} /\ Moves(c)
  BY BookStepMoves, BookerAlone
<1>2. BookedAs(c) /\ Holding(c) /\ cmd[c] \in Locals /\ c \in Booking
  BY BookedAlone, BookStepMoves DEF FilesKept, TypeOK, Locals
<1>3. /\ Plugin(c)' = Plugin(c) /\ Plugin(c) \in Plugins
  BY <1>1, RequestTyped DEF Moves, Plugin
<1>4. Following(c)
  <2>1. cmd[c].at # "error" /\ written \subseteq written'
    BY <1>2 DEF BookedAs
  <2>2. NoneLeft
    BY <1>1, <2>1, ErrorStays
  <2> QED BY <2>2 DEF FollowInv
<1>5. request' = request
  BY <1>1 DEF Moves
<1>6. cmd'[c].at \notin Ended /\ Following(c)' => FollowInv'
  <2>1. cmd'[c].at \notin Ended => c \in Booking'
    BY <1>2 DEF BookedAs, Booking, Locals, Places, Ended
  <2> QED BY <1>1, <2>1, FollowAssembled
<1>7. CASE At(c, "append")
  <2>1. cmd'[c] = [cmd[c] EXCEPT !.at = "write"] /\ archive' = archive
    BY <1>2, <1>7 DEF BookedAs
  <2>2. cmd'[c].at = "write" /\ cmd'[c].log = cmd[c].log
    BY <1>2, <2>1 DEF Locals
  <2>3. Following(c)'
    BY <1>4, <1>5, <1>7, <2>1, <2>2, FollowingThen DEF Following
  <2> QED BY <1>6, <2>2, <2>3 DEF Ended
<1>8. CASE At(c, "write")
  <2>1. /\ cmd'[c] = [cmd[c] EXCEPT !.at = "probe"] /\ archive' = archive
        /\ log' = Appended(c) /\ written' = written \union {c}
    BY <1>2, <1>8 DEF BookedAs
  <2>2. cmd'[c].at = "probe"
    BY <1>2, <2>1 DEF Locals
  <2>3. ASSUME NEW p \in Plugins \ {Plugin(c)} PROVE Shows(log', archive', p)
    <3>1. cmd[c].log \in Seq(Records) /\ [by |-> c, ok |-> cmd[c].ok] \in Records
      BY <1>2 DEF Locals, Records
    <3>2. LatestActions(log', p) = LatestActions(cmd[c].log, p)
      BY <2>1, <3>1, LatestOfOthers DEF Appended
    <3>3. Shows(cmd[c].log, archive, p)
      BY <1>4, <1>8 DEF Following
    <3> QED BY <2>1, <3>2, <3>3 DEF Shows
  <2>4. Following(c)'
    BY <1>5, <2>1, <2>2, <2>3, FollowingThen
  <2> QED BY <1>6, <2>2, <2>4 DEF Ended
<1>9. CASE At(c, "probe")
  <2>1. UNCHANGED <<log, archive, written>> /\ c \in written
    BY <1>2, <1>4, <1>9 DEF BookedAs, Following
  <2>2. CASE cmd'[c] = [cmd[c] EXCEPT !.at = "error"]
    <3>1. cmd'[c].at = "error"
      BY <1>2, <2>2 DEF Locals
    <3> QED BY <2>1, <3>1 DEF NoneLeft
  <2>3. ASSUME NEW s, cmd'[c] = [cmd[c] EXCEPT !.at = "latest", !.probed = s] PROVE FollowInv'
    <3>1. cmd'[c].at = "latest"
      BY <1>2, <2>3 DEF Locals
    <3>2. Following(c)'
      BY <1>4, <1>5, <1>9, <2>1, <3>1, FollowingThen DEF Following
    <3> QED BY <1>6, <3>1, <3>2 DEF Ended
  <2> QED BY <1>2, <1>9, <2>2, <2>3 DEF BookedAs
<1>10. CASE At(c, "latest")
  <2>1. /\ cmd'[c] = [cmd[c] EXCEPT !.at = "metadata", !.latest = LatestActions(log, Plugin(c))]
        /\ UNCHANGED <<log, archive, written>>
    BY <1>2, <1>10 DEF BookedAs
  <2>2. cmd'[c].at = "metadata" /\ cmd'[c].latest = LatestActions(log, Plugin(c))
    BY <1>2, <2>1 DEF Locals
  <2>3. Following(c)'
    BY <1>2, <1>4, <1>5, <1>10, <2>1, <2>2, FollowingThen DEF Following
  <2> QED BY <1>6, <2>2, <2>3 DEF Ended
<1>11. CASE At(c, "metadata")
  <2>1. cmd'[c] = [cmd[c] EXCEPT !.at = "archive"] /\ UNCHANGED <<log, archive, written>>
    BY <1>2, <1>11 DEF BookedAs
  <2>2. cmd'[c].at = "archive" /\ cmd'[c].latest = cmd[c].latest
    BY <1>2, <2>1 DEF Locals
  <2>3. Following(c)'
    BY <1>2, <1>4, <1>5, <1>11, <2>1, <2>2, FollowingThen DEF Following
  <2> QED BY <1>6, <2>2, <2>3 DEF Ended
<1>12. CASE At(c, "archive")
  <2>1. /\ cmd'[c] = [cmd[c] EXCEPT !.at = "upsert", !.archive = archive]
        /\ UNCHANGED <<log, archive, written>>
    BY <1>2, <1>12 DEF BookedAs
  <2>2. cmd'[c].at = "upsert" /\ cmd'[c].latest = cmd[c].latest
    BY <1>2, <2>1 DEF Locals
  <2>3. Following(c)'
    BY <1>2, <1>4, <1>5, <1>12, <2>1, <2>2, FollowingThen DEF Following
  <2> QED BY <1>6, <2>2, <2>3 DEF Ended
<1>13. CASE At(c, "upsert")
  <2>1. cmd'[c] = [cmd[c] EXCEPT !.at = "store"] /\ UNCHANGED <<log, written>>
    BY <1>2, <1>13 DEF BookedAs
  <2>2. /\ cmd'[c].at = "store" /\ cmd'[c].latest = cmd[c].latest
        /\ cmd'[c].archive = archive
    BY <1>2, <1>13, <2>1 DEF Locals, Holding
  <2>3. Following(c)'
    BY <1>2, <1>4, <1>5, <1>13, <2>1, <2>2, FollowingThen DEF Following
  <2> QED BY <1>6, <2>2, <2>3 DEF Ended
<1>14. CASE At(c, "store")
  <2>1. /\ cmd'[c] = [cmd[c] EXCEPT !.at = IF cmd[c].ok THEN "passed" ELSE "failed"]
        /\ archive' = Upserted(c) /\ UNCHANGED <<log, written>>
    BY <1>2, <1>14 DEF BookedAs
  <2>2. cmd'[c].at \in {"passed", "failed"}
    BY <1>2, <2>1 DEF Locals
  <2>3. c \notin Booking'
    BY <2>2 DEF Booking, Ended
  <2>4. Following(c)'
    BY <1>5, <2>2, <2>3, FollowingThen
  <2>5. ASSUME NEW p \in Plugins PROVE Shows(log', archive', p)
    <3>1. cmd[c].archive \in [Plugins -> ArchiveRecords \union {NoRecord}]
      BY <1>2 DEF Locals, Archives
    <3>2. CASE p = Plugin(c)
      <4>1. archive'[p] = [status |-> ArchiveStatus(c), latest |-> cmd[c].latest]
        BY <2>1, <3>1, <3>2 DEF Upserted
      <4>2. archive' \in Archives
        BY <2>1, UpsertedTyped
      <4>3. ArchiveStatus(c) \in Statuses
        BY <1>2 DEF ArchiveStatus, Statuses, Locals
      <4>4. archive'[p] \in ArchiveRecords
        BY <1>2, <4>1, <4>3 DEF ArchiveRecords, Locals
      <4>5. archive'[p] # NoRecord
        BY <4>4, BookkeepingAssumption
      <4>6. cmd[c].latest = LatestActions(log, Plugin(c))
        BY <1>4, <1>14 DEF Following
      <4> QED BY <2>1, <3>2, <4>1, <4>5, <4>6 DEF Shows
    <3>3. CASE p # Plugin(c)
      <4>1. archive'[p] = cmd[c].archive[p]
        BY <2>1, <3>1, <3>3 DEF Upserted
      <4>2. Shows(log, cmd[c].archive, p)
        BY <1>4, <1>14, <3>3 DEF Following
      <4> QED BY <2>1, <4>1, <4>2 DEF Shows
    <3> QED BY <3>2, <3>3
  <2> QED BY <1>1, <1>5, <2>4, <2>5, FollowAssembled, ShownThen
<1> QED BY <1>2, <1>7, <1>8, <1>9, <1>10, <1>11, <1>12, <1>13, <1>14 DEF BookedAs

LEMMA ActingFollows ==
  ASSUME TypeOK, Sequential, FollowInv, NoneLeft', NEW c \in Commands, ActingStep(c)
  PROVE  FollowInv'
<1>1. /\ c \notin Booking /\ Booking' = Booking
      /\ \A d \in Booking : cmd'[d] = cmd[d]
  BY ActingBooking DEF ActingStep
<1>2. NoneLeft
  BY ErrorStays DEF ActingStep, Acting
<1>3. request' = request /\ UNCHANGED <<log, archive, written>>
  BY DEF ActingStep, Moves
<1>4. ASSUME NEW d \in Commands PROVE Following(d)'
  <2>1. CASE d \in Booking
    <3>1. Following(d) /\ cmd'[d] = cmd[d]
      BY <1>1, <1>2, <2>1 DEF FollowInv
    <3> QED BY <1>1, <1>3, <3>1, FollowingThen DEF Following, At
  <2>2. CASE d \notin Booking'
    BY <2>2 DEF Following, Booking, At, Ended
  <2> QED BY <1>1, <2>1, <2>2
<1>5. Booking' = {} => \A p \in Plugins : Shows(log, archive, p)'
  <2>1. Booking = {} => \A p \in Plugins : Shows(log, archive, p)
    BY <1>2 DEF FollowInv
  <2> QED BY <1>1, <1>3, <2>1, ShownThen
<1> QED BY <1>4, <1>5 DEF FollowInv

LEMMA InitFollows == Init => FollowInv
<1> SUFFICES ASSUME Init PROVE FollowInv
  OBVIOUS
<1>1. \A c \in Commands : c \notin Booking /\ Following(c)
  BY DEF Init, Booking, Following, At
<1>2. ASSUME NEW p \in Plugins PROVE Shows(log, archive, p)
  <2>1. log = <<>> /\ archive[p] = NoRecord
    BY DEF Init
  <2>2. \A a : Last(log, p, a) = {}
    BY <2>1 DEF Last, Mine
  <2> QED BY <2>1, <2>2 DEF Shows, LatestActions
<1> QED BY <1>1, <1>2 DEF FollowInv

LEMMA NextFollows == TypeOK /\ FilesInv /\ FollowInv /\ [Next]_vars => FollowInv'
<1> SUFFICES ASSUME TypeOK, FilesInv, FollowInv, [Next]_vars, Sequential', NoneLeft'
             PROVE  FollowInv'
  BY DEF FollowInv
<1>0. FilesKept /\ Sequential
  BY SequentialBefore DEF FilesInv
<1>1. CASE UNCHANGED <<log, archive, written, request, cmd>>
  <2>1. NoneLeft /\ Booking' = Booking /\ request' = request
    BY <1>1 DEF NoneLeft, At, Booking
  <2>2. \A c \in Commands : Following(c)'
    BY <1>0, <1>1, <2>1, FollowingThen DEF FollowInv, Following, At
  <2>3. Booking' = {} => \A p \in Plugins : Shows(log, archive, p)'
    BY <1>0, <1>1, <2>1, ShownThen DEF FollowInv
  <2> QED BY <2>2, <2>3 DEF FollowInv
<1>2. ASSUME NEW c \in Commands, ActingStep(c) PROVE FollowInv'
  BY <1>0, <1>2, ActingFollows
<1>3. ASSUME NEW c \in Commands, ReadLog(c) PROVE FollowInv'
  <2>1. /\ Booking = {} /\ Booking' = {c} /\ Moves(c)
        /\ cmd'[c] = [cmd[c] EXCEPT !.at = "append", !.log = log]
        /\ UNCHANGED <<log, archive, written>>
    BY <1>0, <1>3, ReadLogAlone DEF Sequential
  <2>2. cmd'[c].at = "append" /\ cmd'[c].log = log /\ cmd[c].at # "error"
    BY <1>3, <2>1 DEF ReadLog, At, TypeOK
  <2>3. NoneLeft
    BY <2>1, <2>2, ErrorStays
  <2>4. \A p \in Plugins : Shows(log, archive, p)
    BY <1>0, <2>1, <2>3 DEF FollowInv
  <2>5. Following(c)'
    BY <2>1, <2>2, <2>4, FollowingThen DEF Moves
  <2> QED BY <2>1, <2>5, FollowAssembled
<1>4. ASSUME NEW c \in Commands, BookStep(c) PROVE FollowInv'
  BY <1>0, <1>4, BookStepFollows
<1> QED BY <1>1, <1>2, <1>3, <1>4, SequentialSteps

\* However many commands follow one another, archive.json has the latest actions that
\* state.json has, for every plugin, and both files can be read.
THEOREM ArchiveFollows == Spec => []ArchiveFollowsLog
<1>1. TypeOK /\ FilesInv /\ FollowInv /\ [Next]_vars => (TypeOK /\ FilesInv /\ FollowInv)'
  BY NextTyped, NextFiles, NextFollows
<1>2. FilesInv /\ FollowInv => ArchiveFollowsLog
  <2> SUFFICES ASSUME FilesInv, FollowInv, Quiet, Sequential, NoneLeft
               PROVE  /\ log \notin Unreadable /\ archive \notin Unreadable
                      /\ \A p \in Plugins : Shows(log, archive, p)
    BY DEF ArchiveFollowsLog, Sequential, NoneLeft, Shows
  <2>1. Booking = {}
    BY DEF Quiet, Booking
  <2>2. \A c \in Commands : ~At(c, "write") /\ ~At(c, "store")
    BY DEF Quiet, At, Ended
  <2> QED BY <2>1, <2>2 DEF FilesInv, FilesKept, FollowInv
<1> QED BY InitTyped, InitFiles, InitFollows, <1>1, <1>2, PTL DEF Spec

----------------------------------------------------------------------------
(* The status in archive.json is that of the database.                     *)

\* c has rolled p back and will yet look at the database.
Probed == {"latest", "metadata", "archive", "upsert", "store"}
Unprobed == {"waiting", "record", "append", "write", "probe"}
Pending(p) ==
  \E c \in Commands : Plugin(c) = p /\ session[c] = "done" /\ cmd[c].at \in Unprobed
Rewriting(p) == \E c \in Commands : Plugin(c) = p /\ cmd[c].at \in Probed

Right(status, p) == (status = "installed") = installed[p] \/ Pending(p)
Matching(a) ==
  \A p \in InstalledProbes : a[p] # NoRecord => Right(a[p].status, p) \/ Rewriting(p)

Settled == Sequential /\ faults = 0 /\ registrations = 0

Matched ==
  /\ \A c \in Commands : session[c] = "running" => At(c, "waiting")
  /\ \A c \in Commands :
       cmd[c].at \in Probed /\ Plugin(c) \in InstalledProbes => Right(cmd[c].probed, Plugin(c))
  /\ archive \notin Unreadable => Matching(archive)
  /\ \A c \in Commands : At(c, "store") => Matching(cmd[c].archive)

MatchInv == Settled => Matched

LEMMA SettledBefore ==
  ASSUME TypeOK, [Next]_vars, Settled'
  PROVE  Settled /\ faults' = faults /\ registrations' = registrations
<1> USE DEF database, files, bounds, Fault, TypeOK
<1>1. CASE UNCHANGED vars
  BY <1>1, SequentialBefore DEF vars, Settled
<1>2. ASSUME NEW c \in Commands, Step(c)
      PROVE  faults' \in {faults, faults + 1} /\ registrations' = registrations
  BY <1>2 DEF Step, RunVerify, PlanRollback, SqlFails, ClientMissing, SendRollback,
              RollbackAnswered, RollbackTimesOut, ReadLog, TruncateLog, WriteLog, Probe,
              ProbeFails, ReadLatest, ReadMetadata, ReadArchive, TruncateArchive, WriteArchive
<1>3. ASSUME NEW c \in Commands, Killed(c) PROVE FALSE
  BY <1>3, KilledNotSequential DEF Settled
<1>4. ASSUME NEW c \in Commands, RollbackRuns(c) \/ RollbackBreaks(c)
      PROVE  faults' \in {faults, faults + 1} /\ registrations' = registrations
  BY <1>4 DEF RollbackRuns, RollbackBreaks
<1>5. ASSUME NEW p \in Plugins, Register(p) PROVE FALSE
  BY <1>5 DEF Register, Settled
<1>6. CASE faults' \in {faults, faults + 1} /\ registrations' = registrations
  BY <1>6, SequentialBefore DEF Settled
<1> QED BY <1>1, <1>2, <1>3, <1>4, <1>5, <1>6 DEF Next

\* The steps of settled commands, and those of the server.
LEMMA SettledSteps ==
  ASSUME TypeOK, FilesKept, [Next]_vars, Settled'
  PROVE  \/ UNCHANGED vars
         \/ \E c \in Commands :
              RunVerify(c) \/ PlanRollback(c) \/ SendRollback(c) \/ RollbackAnswered(c)
         \/ \E c \in Commands : ReadLog(c) \/ BookStep(c) \/ RollbackRuns(c)
<1>0. faults' = faults /\ registrations' = registrations
  BY SettledBefore
<1>n. faults' # faults + 1
  BY <1>0 DEF TypeOK
<1>1. ASSUME NEW c \in Commands PROVE ~SqlFails(c) /\ ~RollbackTimesOut(c) /\ ~RollbackBreaks(c)
  <2>1. ~SqlFails(c)
    BY <1>n DEF SqlFails, Fault
  <2>2. ~RollbackTimesOut(c)
    BY <1>n DEF RollbackTimesOut
  <2>3. ~RollbackBreaks(c)
    BY <1>n DEF RollbackBreaks, Fault
  <2> QED BY <2>1, <2>2, <2>3
<1>2. ASSUME NEW c \in Commands, ClientMissing(c) PROVE FALSE
  BY <1>n, <1>2 DEF ClientMissing, Fault
<1>3. ASSUME NEW c \in Commands PROVE ~Killed(c)
  BY KilledNotSequential DEF Settled
<1>4. ASSUME NEW p \in Plugins PROVE ~Register(p)
  BY <1>0 DEF Register, TypeOK
<1> QED BY <1>1, <1>2, <1>3, <1>4 DEF Next, Step, BookStep

\* Nothing changes for the plugins that are not c's, and nothing for c's either as long
\* as it has not looked at the database.
LEMMA PendingStays ==
  ASSUME NEW c \in Commands, Moves(c), session' = session, NEW p,
         Plugin(c) = p /\ session[c] = "done" /\ cmd[c].at \in Unprobed => cmd'[c].at \in Unprobed
  PROVE  Pending(p) => Pending(p)'
BY DEF Pending, Moves, Plugin

LEMMA RewritingStays ==
  ASSUME NEW c \in Commands, Moves(c), NEW p,
         Plugin(c) = p /\ cmd[c].at \in Probed => cmd'[c].at \in Probed
  PROVE  Rewriting(p) => Rewriting(p)'
BY DEF Rewriting, Moves, Plugin

\* The archive, or what a command holds of it, is as right as it was.
Stays ==
  /\ installed' = installed
  /\ \A p : Pending(p) => Pending(p)'
  /\ \A p : Rewriting(p) => Rewriting(p)'

LEMMA ArchiveStays ==
  ASSUME Stays, archive' = archive, Matching(archive)
  PROVE  Matching(archive)'
BY DEF Stays, Matching, Right

LEMMA HeldStays ==
  ASSUME Stays, NEW c \in Commands, cmd'[c].archive = cmd[c].archive, Matching(cmd[c].archive)
  PROVE  Matching(cmd[c].archive)'
BY DEF Stays, Matching, Right

LEMMA ProbedStays ==
  ASSUME Stays, NEW c \in Commands, cmd'[c].probed = cmd[c].probed, request' = request,
         Right(cmd[c].probed, Plugin(c))
  PROVE  Right(cmd[c].probed, Plugin(c))'
BY DEF Stays, Right, Plugin

\* A step of a command that does not keep its books, or begins to.
LEMMA MatchedOutside ==
  ASSUME TypeOK, Matched, NEW c \in Commands, Moves(c), Stays,
         UNCHANGED archive,
         \A d \in Commands : session'[d] = "running" => At(d, "waiting")',
         cmd'[c].at \notin Probed
  PROVE  Matched'
<1>1. \A d \in Commands \ {c} : cmd'[d] = cmd[d] /\ request' = request
  BY DEF Moves
<1>2. ASSUME NEW d \in Commands, cmd'[d].at \in Probed, Plugin(d)' \in InstalledProbes
      PROVE  Right(cmd[d].probed, Plugin(d))'
  <2>1. d # c /\ cmd'[d] = cmd[d] /\ Plugin(d)' = Plugin(d) /\ request' = request
    BY <1>1, <1>2 DEF Plugin, Moves
  <2>2. Right(cmd[d].probed, Plugin(d))
    BY <1>2, <2>1 DEF Matched
  <2> QED BY <2>1, <2>2, ProbedStays
<1>3. ASSUME NEW d \in Commands, At(d, "store")' PROVE Matching(cmd[d].archive)'
  <2>1. d # c /\ cmd'[d] = cmd[d]
    BY <1>1, <1>3 DEF Probed, At
  <2>2. Matching(cmd[d].archive)
    BY <1>3, <2>1 DEF Matched, At
  <2> QED BY <2>1, <2>2, HeldStays
<1>4. archive' \notin Unreadable => Matching(archive)'
  BY ArchiveStays DEF Matched
<1> QED BY <1>2, <1>3, <1>4 DEF Matched, Unreadable

\* The one command that keeps its books, when no SQL call fails.
LEMMA BookStepMatched ==
  ASSUME TypeOK, TypeOK', FilesKept, Matched, faults' = faults, NEW c \in Commands, BookStep(c)
  PROVE  Matched'
<1> USE DEF At
<1>1. /\ Booking \subseteq {c} /\ Booking' \subseteq {c} /\ Moves(c) /\ c \in Booking
      /\ session' = session /\ installed' = installed
  BY BookStepMoves, BookerAlone
<1>2. BookedAs(c) /\ Holding(c) /\ cmd[c] \in Locals
  BY BookedAlone DEF FilesKept, TypeOK, Locals
<1>3. Plugin(c)' = Plugin(c) /\ Plugin(c) \in Plugins /\ request' = request
  BY <1>1, RequestTyped DEF Moves, Plugin
<1>4. \A d \in Commands \ {c} :
        cmd'[d] = cmd[d] /\ cmd[d].at \notin Probed
  BY <1>1 DEF Moves, Booking, Probed, Ended
<1>5. \A d \in Commands : session'[d] = "running" => At(d, "waiting")'
  <2>1. session[c] # "running"
    BY <1>1 DEF Matched, Booking
  <2> QED BY <1>1, <1>4, <2>1 DEF Matched
<1>6. CASE At(c, "append") \/ At(c, "write")
  <2>1. cmd'[c].at \in {"write", "probe"} /\ archive' = archive
    BY <1>2, <1>6 DEF BookedAs, Locals
  <2>2. Stays
    <3>1. cmd'[c].at \in Unprobed /\ cmd[c].at \notin Probed
      BY <1>6, <2>1 DEF Unprobed, Probed
    <3> QED BY <1>1, <3>1, PendingStays, RewritingStays DEF Stays
  <2> QED BY <1>1, <1>5, <2>1, <2>2, MatchedOutside DEF Probed
<1>7. ASSUME cmd'[c].at \in Probed /\ Plugin(c) \in InstalledProbes =>
                Right(cmd[c].probed, Plugin(c))',
             archive' \notin Unreadable => Matching(archive)',
             At(c, "store")' => Matching(cmd[c].archive)'
      PROVE  Matched'
  <2>1. \A d \in Commands \ {c} : cmd'[d].at \notin Probed /\ ~At(d, "store")'
    BY <1>4 DEF Probed
  <2> QED BY <1>3, <1>5, <1>7, <2>1 DEF Matched, Unreadable
<1>8. CASE At(c, "probe")
  <2>1. PICK s \in Statuses :
          /\ cmd'[c] = [cmd[c] EXCEPT !.at = "latest", !.probed = s]
          /\ Plugin(c) \in InstalledProbes => (s = "installed") = installed[Plugin(c)]
    <3>1. faults' # faults + 1
      BY DEF TypeOK
    <3> QED BY <1>2, <1>8, <3>1 DEF BookedAs
  <2>2. cmd'[c].at = "latest" /\ cmd'[c].probed = s /\ archive' = archive
    BY <1>2, <1>8, <2>1 DEF BookedAs, Locals
  <2>3. Plugin(c) \in InstalledProbes => Right(cmd[c].probed, Plugin(c))'
    BY <1>1, <1>3, <2>1, <2>2 DEF Right
  <2>4. archive' \notin Unreadable => Matching(archive)'
    <3> SUFFICES ASSUME archive \notin Unreadable, NEW p \in InstalledProbes, archive[p] # NoRecord
                 PROVE  Right(archive[p].status, p)' \/ Rewriting(p)'
      BY <2>2 DEF Matching, Unreadable
    <3>1. Right(archive[p].status, p) \/ Rewriting(p)
      BY DEF Matched, Matching
    <3>2. CASE p = Plugin(c)
      BY <1>3, <2>2, <3>2 DEF Rewriting, Probed
    <3>3. CASE p # Plugin(c)
      <4>1. (Pending(p) => Pending(p)') /\ (Rewriting(p) => Rewriting(p)')
        BY <1>1, <3>3, PendingStays, RewritingStays
      <4> QED BY <1>1, <2>2, <3>1, <4>1 DEF Right
    <3> QED BY <3>2, <3>3
  <2> QED BY <1>7, <2>2, <2>3, <2>4
<1>9. CASE cmd[c].at \in Probed
  <2>1. Plugin(c) \in InstalledProbes => Right(cmd[c].probed, Plugin(c))
    BY <1>9 DEF Matched
  <2>2. cmd[c].at \notin Unprobed
    BY <1>9 DEF Probed, Unprobed
  <2>3. CASE At(c, "latest") \/ At(c, "metadata") \/ At(c, "archive") \/ At(c, "upsert")
    <3>1. /\ cmd'[c].at \in Probed /\ cmd'[c].probed = cmd[c].probed
          /\ archive' \in {archive, Truncated}
          /\ At(c, "store")' => At(c, "upsert") /\ cmd'[c].archive = cmd[c].archive
      BY <1>2, <2>3 DEF BookedAs, Locals, Probed
    <3>2. Stays
      BY <1>1, <2>2, <3>1, PendingStays, RewritingStays DEF Stays
    <3>3. Plugin(c) \in InstalledProbes => Right(cmd[c].probed, Plugin(c))'
      BY <1>3, <2>1, <3>1, <3>2, ProbedStays
    <3>4. archive' \notin Unreadable => Matching(archive)'
      BY <3>1, <3>2, ArchiveStays DEF Matched, Unreadable
    <3>5. ASSUME At(c, "store")' PROVE Matching(cmd[c].archive)'
      <4>1. cmd[c].archive = archive /\ archive \notin Unreadable
        BY <1>1, <1>2, <3>1, <3>5, Readable DEF Holding
      <4>2. Matching(cmd[c].archive)
        BY <4>1 DEF Matched
      <4> QED BY <3>1, <3>2, <3>5, <4>2, HeldStays
    <3> QED BY <1>7, <3>3, <3>4, <3>5
  <2>4. CASE At(c, "store")
    <3>1. cmd'[c].at \notin Probed /\ archive' = Upserted(c) /\ ~At(c, "store")'
      BY <1>2, <2>4 DEF BookedAs, Locals, Probed
    <3>2. ASSUME NEW p \in InstalledProbes, archive'[p] # NoRecord
          PROVE  Right(archive[p].status, p)'
      <4>1. cmd[c].archive \in [Plugins -> ArchiveRecords \union {NoRecord}] /\ p \in Plugins
        BY <1>2, BookkeepingAssumption DEF Locals, Archives
      <4>2. Pending(p) => Pending(p)'
        BY <1>1, <2>2, PendingStays
      <4>3. CASE p = Plugin(c)
        <5>1. archive'[p] = [status |-> ArchiveStatus(c), latest |-> cmd[c].latest]
          BY <3>1, <4>1, <4>3 DEF Upserted
        <5>2. (ArchiveStatus(c) = "installed") = (cmd[c].probed = "installed")
          BY DEF ArchiveStatus
        <5>3. Right(cmd[c].probed, p)
          BY <2>1, <4>3
        <5> QED BY <1>1, <4>2, <5>1, <5>2, <5>3 DEF Right
      <4>4. CASE p # Plugin(c)
        <5>1. archive'[p] = cmd[c].archive[p]
          BY <3>1, <4>1, <4>4 DEF Upserted
        <5>2. Right(cmd[c].archive[p].status, p) \/ Rewriting(p)
          BY <2>4, <3>2, <5>1 DEF Matched, Matching
        <5>3. ~Rewriting(p)
          BY <1>4, <4>4 DEF Rewriting
        <5> QED BY <1>1, <4>2, <5>1, <5>2, <5>3 DEF Right
      <4> QED BY <4>3, <4>4
    <3> QED BY <1>7, <3>1, <3>2 DEF Matching
  <2> QED BY <1>9, <2>3, <2>4 DEF Probed
<1> QED BY <1>2, <1>6, <1>8, <1>9 DEF BookedAs, Probed

LEMMA ActingMatched ==
  ASSUME TypeOK, Matched, NEW c \in Commands,
         RunVerify(c) \/ PlanRollback(c) \/ SendRollback(c) \/ RollbackAnswered(c)
  PROVE  Matched'
<1> USE DEF At
<1>1. /\ Moves(c) /\ archive' = archive
      /\ cmd'[c].at \notin Probed /\ cmd[c].at \notin Probed
  BY ActingSteps DEF Acting, Probed
<1>2. installed' = installed
  BY DEF RunVerify, PlanRollback, SendRollback, RollbackAnswered, database
<1>3. \A p : Rewriting(p) => Rewriting(p)'
  BY <1>1, RewritingStays
<1>4. CASE SendRollback(c)
  <2>1. /\ cmd[c].at = "execute" /\ cmd'[c].at = "waiting"
        /\ \A d \in Commands \ {c} : session'[d] = session[d]
    BY <1>4, GotoFacts DEF SendRollback, Places, TypeOK
  <2>2. ASSUME NEW p, Pending(p) PROVE Pending(p)'
    BY <1>1, <2>1, <2>2 DEF Pending, Unprobed, Moves, Plugin
  <2>3. \A d \in Commands : session'[d] = "running" => At(d, "waiting")'
    BY <1>1, <2>1 DEF Matched, Moves
  <2> QED BY <1>1, <1>2, <1>3, <2>2, <2>3, MatchedOutside DEF Stays
<1>5. CASE RunVerify(c) \/ PlanRollback(c) \/ RollbackAnswered(c)
  <2>1. session' = session
    BY <1>5 DEF RunVerify, PlanRollback, RollbackAnswered, database
  <2>2. session[c] # "running"
    BY <1>5 DEF Matched, RunVerify, PlanRollback, RollbackAnswered
  <2>3. cmd[c].at \in Unprobed => cmd'[c].at \in Unprobed
    <3>1. CASE RollbackAnswered(c)
      <4>1. cmd'[c].at = "record"
        BY <3>1 DEF RollbackAnswered, Finish, TypeOK
      <4> QED BY <4>1 DEF Unprobed
    <3>2. CASE RunVerify(c) \/ PlanRollback(c)
      BY <3>2 DEF RunVerify, PlanRollback, Unprobed
    <3> QED BY <1>5, <3>1, <3>2
  <2>4. \A p : Pending(p) => Pending(p)'
    BY <1>1, <2>1, <2>3, PendingStays
  <2>5. \A d \in Commands : session'[d] = "running" => At(d, "waiting")'
    BY <1>1, <2>1, <2>2 DEF Matched, Moves
  <2> QED BY <1>1, <1>2, <1>3, <2>4, <2>5, MatchedOutside DEF Stays
<1> QED BY <1>4, <1>5

\* The server runs a script while its command waits: until that command has looked at
\* the database, the plugin's status in the archive may differ.
LEMMA RollbackRunsMatched ==
  ASSUME TypeOK, Matched, NEW c \in Commands, RollbackRuns(c)
  PROVE  Matched'
<1>1. /\ session[c] = "running" /\ session'[c] = "done"
      /\ \A d \in Commands \ {c} : session'[d] = session[d]
      /\ UNCHANGED <<cmd, request, archive>>
  BY DEF RollbackRuns, TypeOK, files
<1>2. \A p : Plugin(c) # p /\ p \in Plugins => installed'[p] = installed[p]
  BY DEF RollbackRuns, TypeOK
<1>3. cmd[c].at = "waiting"
  BY <1>1 DEF Matched, At
<1>4. Pending(Plugin(c))'
  BY <1>1, <1>3 DEF Pending, Unprobed, Plugin
<1>5. ASSUME NEW p, Pending(p) PROVE Pending(p)'
  BY <1>1, <1>5 DEF Pending, Plugin
<1>6. ASSUME NEW status, NEW p \in Plugins, Right(status, p) PROVE Right(status, p)'
  <2>1. CASE p = Plugin(c)
    <3>1. Pending(p)'
      BY <1>4, <2>1, <1>1 DEF Plugin, Pending
    <3> QED BY <3>1 DEF Right
  <2>2. CASE p # Plugin(c)
    BY <1>2, <1>5, <1>6, <2>2 DEF Right
  <2> QED BY <2>1, <2>2
<1>7. \A p : Rewriting(p) => Rewriting(p)'
  BY <1>1 DEF Rewriting, Plugin
<1>8. InstalledProbes \subseteq Plugins
  BY BookkeepingAssumption
<1>9. archive' \notin Unreadable => Matching(archive)'
  BY <1>1, <1>6, <1>7, <1>8 DEF Matched, Matching
<1>10. ASSUME NEW d \in Commands, At(d, "store") PROVE Matching(cmd[d].archive)'
  <2>1. Matching(cmd[d].archive)
    BY <1>10 DEF Matched
  <2> QED BY <1>1, <1>6, <1>7, <1>8, <2>1 DEF Matching
<1>11. ASSUME NEW d \in Commands, cmd[d].at \in Probed, Plugin(d) \in InstalledProbes
       PROVE  Right(cmd[d].probed, Plugin(d))'
  <2>1. Right(cmd[d].probed, Plugin(d)) /\ Plugin(d)' = Plugin(d)
    BY <1>1, <1>11 DEF Matched, Plugin
  <2> QED BY <1>1, <1>6, <1>8, <1>11, <2>1 DEF Right
<1>12. \A d \in Commands : session'[d] = "running" => At(d, "waiting")'
  BY <1>1 DEF Matched, At
<1> QED BY <1>1, <1>9, <1>10, <1>11, <1>12 DEF Matched, At, Plugin, Unreadable

LEMMA ReadLogMatched ==
  ASSUME TypeOK, FilesKept, Matched, NEW c \in Commands, ReadLog(c), Sequential'
  PROVE  Matched'
<1>1. /\ Moves(c) /\ archive' = archive
      /\ cmd'[c] = [cmd[c] EXCEPT !.at = "append", !.log = log]
  BY ReadLogAlone DEF Sequential
<1>2. cmd[c].at = "record" /\ cmd'[c].at = "append" /\ session' = session /\ installed' = installed
  BY <1>1 DEF ReadLog, At, TypeOK, database
<1>3. Stays
  BY <1>1, <1>2, PendingStays, RewritingStays DEF Stays, Probed, Unprobed
<1>4. \A d \in Commands : session'[d] = "running" => At(d, "waiting")'
  BY <1>1, <1>2 DEF Matched, At, Moves
<1> QED BY <1>1, <1>2, <1>3, <1>4, MatchedOutside DEF Probed

LEMMA NextMatched == TypeOK /\ FilesInv /\ MatchInv /\ [Next]_vars => MatchInv'
<1> SUFFICES ASSUME TypeOK, FilesInv, MatchInv, [Next]_vars, Settled' PROVE Matched'
  BY DEF MatchInv
<1>0. /\ TypeOK' /\ Sequential' /\ FilesKept /\ Matched /\ faults' = faults
  BY SettledBefore, NextTyped DEF FilesInv, MatchInv, Settled
<1>1. CASE UNCHANGED vars
  BY <1>0, <1>1 DEF vars, database, files, Matched, Matching, Right, Pending, Rewriting, At, Plugin
<1>2. ASSUME NEW c \in Commands,
             RunVerify(c) \/ PlanRollback(c) \/ SendRollback(c) \/ RollbackAnswered(c)
      PROVE  Matched'
  BY <1>0, <1>2, ActingMatched
<1>3. ASSUME NEW c \in Commands, ReadLog(c) PROVE Matched'
  BY <1>0, <1>3, ReadLogMatched
<1>4. ASSUME NEW c \in Commands, BookStep(c) PROVE Matched'
  BY <1>0, <1>4, BookStepMatched
<1>5. ASSUME NEW c \in Commands, RollbackRuns(c) PROVE Matched'
  BY <1>0, <1>5, RollbackRunsMatched
<1> QED BY <1>0, <1>1, <1>2, <1>3, <1>4, <1>5, SettledSteps

\* However many commands follow one another, a plugin with a record and an installed
\* probe is "installed" in archive.json if and only if its objects are in the database,
\* provided that no SQL call fails and nobody else registers it.
THEOREM ArchiveMatches == Spec => []ArchiveMatchesDatabase
<1>1. Init => MatchInv
  <2> SUFFICES ASSUME Init PROVE Matched
    BY DEF MatchInv
  <2>1. Matching(archive)
    BY BookkeepingAssumption DEF Init, Matching
  <2> QED BY <2>1 DEF Init, Matched, At, Probed
<1>2. TypeOK /\ FilesInv /\ MatchInv /\ [Next]_vars => (TypeOK /\ FilesInv /\ MatchInv)'
  BY NextTyped, NextFiles, NextMatched
<1>3. FilesInv /\ MatchInv => ArchiveMatchesDatabase
  <2> SUFFICES ASSUME FilesInv, MatchInv, Quiet, Settled,
                      NEW p \in InstalledProbes, archive[p] # NoRecord
               PROVE  (archive[p].status = "installed") = installed[p]
    BY DEF ArchiveMatchesDatabase, Settled, Sequential
  <2>1. archive \notin Unreadable
    BY DEF Quiet, FilesInv, FilesKept, Settled, At, Ended
  <2>2. ~Pending(p) /\ ~Rewriting(p)
    BY DEF Quiet, Pending, Rewriting, Unprobed, Probed, Ended
  <2> QED BY <2>1, <2>2 DEF MatchInv, Matched, Matching, Right
<1> QED BY InitTyped, InitFiles, <1>1, <1>2, <1>3, PTL DEF Spec

----------------------------------------------------------------------------
(* Where the records in the two files come from.                           *)

\* The places of a command that has not written its record.
Unwritten == Acting \union {"record", "append", "write"}

\* What any step of a command, its end included, may do to the books.
Flow(c) ==
  /\ Moves(c)
  /\ cmd'[c].ok = cmd[c].ok \/ cmd[c].at \in Acting
  /\ cmd'[c].at \in Unwritten => cmd[c].at \in Unwritten
  /\ written' = written \/ (written' = written \union {c} /\ At(c, "write") /\ cmd'[c].at = "probe")
  /\ \/ log' \in {log} \union Unreadable
     \/ log' = Appended(c) /\ At(c, "write") /\ written' = written \union {c}
  /\ cmd'[c].log = cmd[c].log \/ (log \notin Unreadable /\ cmd'[c].log = log)
  /\ \/ cmd'[c].latest = cmd[c].latest
     \/ log \notin Unreadable /\ cmd'[c].latest = LatestActions(log, Plugin(c))
  /\ cmd'[c].probed # cmd[c].probed => cmd'[c].probed # "removed"
  /\ cmd'[c].archive = cmd[c].archive \/ (archive \notin Unreadable /\ cmd'[c].archive = archive)
  /\ archive' \in {archive, Upserted(c)} \union Unreadable

LEMMA GotoFlow ==
  ASSUME TypeOK, NEW c \in Commands, NEW place \in Places, Goto(c, place)
  PROVE  /\ cmd'[c] = [cmd[c] EXCEPT !.at = place]
         /\ cmd'[c].at = place /\ cmd'[c].ok = cmd[c].ok /\ cmd'[c].log = cmd[c].log
         /\ cmd'[c].latest = cmd[c].latest /\ cmd'[c].probed = cmd[c].probed
         /\ cmd'[c].archive = cmd[c].archive
         /\ \A d \in Commands \ {c} : cmd'[d] = cmd[d]
BY DEF Goto, TypeOK

LEMMA FinishFlow ==
  ASSUME TypeOK, NEW c \in Commands, NEW ok, Finish(c, ok)
  PROVE  /\ cmd'[c].at = "record" /\ cmd'[c].log = cmd[c].log
         /\ cmd'[c].latest = cmd[c].latest /\ cmd'[c].probed = cmd[c].probed
         /\ cmd'[c].archive = cmd[c].archive
         /\ \A d \in Commands \ {c} : cmd'[d] = cmd[d]
BY DEF Finish, TypeOK

LEMMA ActingFlows ==
  ASSUME TypeOK, NEW c \in Commands,
         \/ RunVerify(c) \/ PlanRollback(c) \/ SqlFails(c) \/ ClientMissing(c)
         \/ SendRollback(c) \/ RollbackAnswered(c) \/ RollbackTimesOut(c)
  PROVE  Flow(c)
<1> USE DEF At, Acting, Unwritten, database, files, bounds, Flow, Moves, Places
<1>0. \A ok : Finish(c, ok) /\ cmd[c].at \in Acting /\ UNCHANGED <<request, log, archive, written>>
        => Flow(c)
  BY FinishFlow
<1>g. \A place \in {"execute", "waiting", "error"} :
        (/\ Goto(c, place) /\ UNCHANGED <<request, log, archive, written>>
         /\ cmd[c].at \in Acting \/ place = "error")
          => Flow(c)
  <2> SUFFICES ASSUME NEW place \in {"execute", "waiting", "error"}, Goto(c, place),
                      UNCHANGED <<request, log, archive, written>>,
                      cmd[c].at \in Acting \/ place = "error"
               PROVE  Flow(c)
    OBVIOUS
  <2>1. place \in Places
    OBVIOUS
  <2>2. /\ cmd'[c].at = place /\ cmd'[c].ok = cmd[c].ok /\ cmd'[c].log = cmd[c].log
        /\ cmd'[c].latest = cmd[c].latest /\ cmd'[c].probed = cmd[c].probed
        /\ cmd'[c].archive = cmd[c].archive
        /\ \A d \in Commands \ {c} : cmd'[d] = cmd[d]
    BY <2>1, GotoFlow
  <2> QED BY <2>2
<1> HIDE DEF Flow
<1>1. CASE RunVerify(c)
  BY <1>1, <1>0, <1>g DEF RunVerify
<1>2. CASE PlanRollback(c)
  BY <1>2, <1>0, <1>g DEF PlanRollback
<1>3. CASE SqlFails(c)
  BY <1>3, <1>0 DEF SqlFails
<1>4. CASE SendRollback(c)
  BY <1>4, <1>g DEF SendRollback
<1>5. CASE RollbackAnswered(c)
  BY <1>5, <1>0 DEF RollbackAnswered
<1>6. CASE RollbackTimesOut(c)
  BY <1>6, <1>0 DEF RollbackTimesOut
<1>7. CASE ClientMissing(c)
  BY <1>7, <1>g DEF ClientMissing
<1> QED BY <1>1, <1>2, <1>3, <1>4, <1>5, <1>6, <1>7

LEMMA BookingFlows ==
  ASSUME TypeOK, NEW c \in Commands,
         \/ ReadLog(c) \/ TruncateLog(c) \/ WriteLog(c) \/ Probe(c) \/ ProbeFails(c)
         \/ ReadLatest(c) \/ ReadMetadata(c) \/ ReadArchive(c) \/ TruncateArchive(c)
         \/ WriteArchive(c) \/ Killed(c)
  PROVE  Flow(c)
<1> USE DEF At, Acting, Unwritten, database, files, bounds, Flow, Moves, Places, Unreadable
<1>1. CASE ReadLog(c)
  <2>1. CASE log \in Unreadable
    BY <1>1, <2>1, GotoFlow DEF ReadLog
  <2>2. CASE log \notin Unreadable
    <3>1. cmd' = [cmd EXCEPT ![c] = [cmd[c] EXCEPT !.at = "append", !.log = log]]
      BY <1>1, <2>2 DEF ReadLog, TypeOK
    <3> QED BY <1>1, <2>2, <3>1 DEF ReadLog, TypeOK
  <2> QED BY <2>1, <2>2
<1>2. CASE TruncateLog(c)
  BY <1>2, GotoFlow DEF TruncateLog
<1>3. CASE WriteLog(c)
  BY <1>3, GotoFlow DEF WriteLog, Landed
<1>4. CASE Probe(c) \/ ProbeFails(c)
  <2> DEFINE WasProbed(s) == [cmd[c] EXCEPT !.at = "latest", !.probed = s]
  <2>1. \E s : s # "removed" /\ cmd' = [cmd EXCEPT ![c] = WasProbed(s)]
    <3>1. CASE Probe(c)
      <4>1. PICK s \in {"unknown", "installed", "not_installed"} :
              cmd' = [cmd EXCEPT ![c].at = "latest", ![c].probed = s]
        BY <3>1 DEF Probe
      <4>2. cmd' = [cmd EXCEPT ![c] = WasProbed(s)]
        BY <4>1 DEF TypeOK
      <4> QED BY <4>2
    <3>2. CASE ProbeFails(c)
      <4>1. cmd' = [cmd EXCEPT ![c] = WasProbed("not_installed")]
        BY <3>2 DEF ProbeFails, TypeOK
      <4> QED BY <4>1
    <3> QED BY <1>4, <3>1, <3>2
  <2>2. PICK s : s # "removed" /\ cmd' = [cmd EXCEPT ![c] = WasProbed(s)]
    BY <2>1
  <2> QED BY <1>4, <2>2 DEF Probe, ProbeFails, TypeOK
<1>5. CASE ReadLatest(c)
  <2>1. CASE log \in Unreadable
    BY <1>5, <2>1, GotoFlow DEF ReadLatest
  <2>2. CASE log \notin Unreadable
    <3>1. cmd' = [cmd EXCEPT ![c] = [cmd[c] EXCEPT !.at = "metadata", !.latest = LatestActions(log, Plugin(c))]]
      BY <1>5, <2>2 DEF ReadLatest, TypeOK
    <3> QED BY <1>5, <2>2, <3>1 DEF ReadLatest, TypeOK
  <2> QED BY <2>1, <2>2
<1>6. CASE ReadMetadata(c)
  BY <1>6, GotoFlow DEF ReadMetadata
<1>7. CASE ReadArchive(c)
  <2>1. CASE archive \in Unreadable
    BY <1>7, <2>1, GotoFlow DEF ReadArchive
  <2>2. CASE archive \notin Unreadable
    <3>1. cmd' = [cmd EXCEPT ![c] = [cmd[c] EXCEPT !.at = "upsert", !.archive = archive]]
      BY <1>7, <2>2 DEF ReadArchive, TypeOK
    <3> QED BY <1>7, <2>2, <3>1 DEF ReadArchive, TypeOK
  <2> QED BY <2>1, <2>2
<1>8. CASE TruncateArchive(c)
  BY <1>8, GotoFlow DEF TruncateArchive
<1>9. CASE WriteArchive(c)
  BY <1>9, GotoFlow DEF WriteArchive, Landed
<1>10. CASE Killed(c)
  BY <1>10, GotoFlow DEF Killed
<1> QED BY <1>1, <1>2, <1>3, <1>4, <1>5, <1>6, <1>7, <1>8, <1>9, <1>10

\* Every step is that of one command, or leaves the commands and the files alone.
LEMMA StepFlows ==
  ASSUME TypeOK, [Next]_vars
  PROVE  \/ UNCHANGED <<log, archive, written, request, cmd>>
         \/ \E c \in Commands : Flow(c)
<1>1. CASE UNCHANGED vars
  BY <1>1 DEF vars, files
<1>2. ASSUME NEW c \in Commands, Step(c) \/ Killed(c) PROVE Flow(c)
  BY <1>2, ActingFlows, BookingFlows DEF Step
<1>3. CASE \/ \E c \in Commands : RollbackRuns(c) \/ RollbackBreaks(c)
           \/ \E p \in Plugins : Register(p)
  BY <1>3, ServerSteps DEF files
<1> QED BY <1>1, <1>2, <1>3 DEF Next

\* A record says what the command that wrote it found.
Genuine(r) == r.by \in written /\ r.ok = cmd[r.by].ok

\* And no command has two of them in a list.
GenuineLog(s) ==
  /\ \A i \in DOMAIN s : Genuine(s[i])
  /\ \A i, j \in DOMAIN s : s[i].by = s[j].by => i = j

GenuineLatest(l, p) ==
  \A a \in Actions : l[a] # NoRecord => Genuine(l[a]) /\ Plugin(l[a].by) = p /\ Action(l[a].by) = a

\* "removed" is never said without a good rollback record.
GenuineArchive(a) ==
  \A p \in Plugins : a[p] # NoRecord =>
    /\ GenuineLatest(a[p].latest, p)
    /\ a[p].status = "removed" =>
         a[p].latest["rollback"] # NoRecord /\ a[p].latest["rollback"].ok

Provenance ==
  /\ log \notin Unreadable => GenuineLog(log)
  /\ archive \notin Unreadable => GenuineArchive(archive)
  /\ \A c \in Commands :
       /\ GenuineLog(cmd[c].log)
       /\ GenuineLatest(cmd[c].latest, Plugin(c))
       /\ GenuineArchive(cmd[c].archive)
       /\ cmd[c].probed # "removed"
       /\ cmd[c].at \in Unwritten => c \notin written

\* What is genuine stays so: no command takes back what it has written.
LEMMA GenuineStays ==
  ASSUME request' = request, written \subseteq written',
         \A d \in written : cmd'[d].ok = cmd[d].ok
  PROVE  /\ \A s : GenuineLog(s) => GenuineLog(s)'
         /\ \A l, p : GenuineLatest(l, p) => GenuineLatest(l, p)'
         /\ \A a : GenuineArchive(a) => GenuineArchive(a)'
<1>1. \A r : Genuine(r) => Genuine(r)'
  BY DEF Genuine
<1>2. \A c : Plugin(c)' = Plugin(c) /\ Action(c)' = Action(c)
  BY DEF Plugin, Action, Kind
<1>3. \A l, p : GenuineLatest(l, p) => GenuineLatest(l, p)'
  BY <1>1, <1>2 DEF GenuineLatest
<1> QED BY <1>1, <1>3 DEF GenuineLog, GenuineArchive

\* The record that a command appends is its first.
LEMMA AppendedGenuine ==
  ASSUME TypeOK, NEW c \in Commands, GenuineLog(cmd[c].log), c \notin written
  PROVE  /\ \A i \in DOMAIN Appended(c) : Genuine(Appended(c)[i]) \/ Appended(c)[i] = [by |-> c, ok |-> cmd[c].ok]
         /\ \A i, j \in DOMAIN Appended(c) : Appended(c)[i].by = Appended(c)[j].by => i = j
<1> DEFINE s == cmd[c].log
           r == [by |-> c, ok |-> cmd[c].ok]
           t == Append(s, r)
<1>1. s \in Seq(Records) /\ Appended(c) = t
  BY DEF TypeOK, Appended
<1>2. /\ DOMAIN s = 1 .. Len(s) /\ DOMAIN t = 1 .. (Len(s) + 1) /\ Len(s) \in Nat
      /\ t[Len(s) + 1] = r /\ \A i \in DOMAIN s : t[i] = s[i]
  BY <1>1
<1>3. r.by = c /\ \A i \in DOMAIN s : s[i].by # c
  BY DEF GenuineLog, Genuine
<1> HIDE DEF r, t
<1>4. \A i \in DOMAIN t : (i \in DOMAIN s /\ t[i] = s[i]) \/ (i = Len(s) + 1 /\ t[i] = r)
  BY <1>2
<1>5. \A i \in DOMAIN t : Genuine(t[i]) \/ t[i] = r
  BY <1>4 DEF GenuineLog
<1>6. \A i, j \in DOMAIN t : t[i].by = t[j].by => i = j
  BY <1>3, <1>4 DEF GenuineLog
<1> QED BY <1>1, <1>5, <1>6 DEF r

LEMMA LatestGenuine ==
  ASSUME NEW s \in Seq(Records), GenuineLog(s), NEW p
  PROVE  GenuineLatest(LatestActions(s, p), p)
<1> SUFFICES ASSUME NEW a \in Actions, Last(s, p, a) # {}
             PROVE  LET r == s[CHOOSE i \in Last(s, p, a) : TRUE]
                    IN  Genuine(r) /\ Plugin(r.by) = p /\ Action(r.by) = a
  BY DEF GenuineLatest, LatestActions
<1>1. (CHOOSE i \in Last(s, p, a) : TRUE) \in Last(s, p, a)
  OBVIOUS
<1>2. Last(s, p, a) \subseteq Mine(s, p, a)
  BY DEF Last
<1> QED BY <1>1, <1>2 DEF Mine, GenuineLog

LEMMA UpsertedGenuine ==
  ASSUME TypeOK, NEW c \in Commands, GenuineArchive(cmd[c].archive),
         GenuineLatest(cmd[c].latest, Plugin(c)), cmd[c].probed # "removed"
  PROVE  GenuineArchive(Upserted(c))
<1> SUFFICES ASSUME NEW p \in Plugins, Upserted(c)[p] # NoRecord
             PROVE  /\ GenuineLatest(Upserted(c)[p].latest, p)
                    /\ Upserted(c)[p].status = "removed" =>
                         /\ Upserted(c)[p].latest["rollback"] # NoRecord
                         /\ Upserted(c)[p].latest["rollback"].ok
  BY DEF GenuineArchive
<1>1. cmd[c].archive \in [Plugins -> ArchiveRecords \union {NoRecord}] /\ cmd[c].ok \in BOOLEAN
  BY DEF TypeOK, Archives
<1>2. CASE p = Plugin(c)
  <2>1. Upserted(c)[p] = [status |-> ArchiveStatus(c), latest |-> cmd[c].latest]
    BY <1>1, <1>2 DEF Upserted
  <2>2. ArchiveStatus(c) = "removed" =>
          cmd[c].latest["rollback"] # NoRecord /\ cmd[c].latest["rollback"].ok
    BY DEF ArchiveStatus
  <2> QED BY <1>2, <2>1, <2>2
<1>3. CASE p # Plugin(c)
  <2>1. Upserted(c)[p] = cmd[c].archive[p]
    BY <1>1, <1>3 DEF Upserted
  <2> QED BY <2>1 DEF GenuineArchive
<1> QED BY <1>2, <1>3

LEMMA FlowProvenance ==
  ASSUME TypeOK, Provenance, NEW c \in Commands, Flow(c)
  PROVE  Provenance'
<1> USE DEF At
<1>1. request' = request /\ \A d \in Commands \ {c} : cmd'[d] = cmd[d]
  BY DEF Flow, Moves
<1>2. written \subseteq written' /\ written' \subseteq written \union {c}
  BY DEF Flow
<1>3. \A d \in written : cmd'[d].ok = cmd[d].ok
  BY <1>1 DEF Flow, Provenance, Unwritten, TypeOK
<1>s. /\ \A s : GenuineLog(s) => GenuineLog(s)'
      /\ \A l, p : GenuineLatest(l, p) => GenuineLatest(l, p)'
      /\ \A a : GenuineArchive(a) => GenuineArchive(a)'
  BY <1>1, <1>2, <1>3, GenuineStays
<1>p. \A d : Plugin(d)' = Plugin(d)
  BY <1>1 DEF Plugin
<1>4. (log \notin Unreadable => GenuineLog(log))'
  <2> HIDE DEF At
  <2>0. \/ log' \in Unreadable \/ (log' = log /\ log' \notin Unreadable)
        \/ (log' = Appended(c) /\ At(c, "write") /\ written' = written \union {c})
    BY DEF Flow
  <2> USE DEF At
  <2>1. CASE log' \in Unreadable
    BY <2>1
  <2>2. CASE log' = log /\ log' \notin Unreadable
    <3>1. GenuineLog(log)
      BY <2>2 DEF Provenance
    <3> QED BY <1>2, <1>3, <2>2, <3>1 DEF GenuineLog, Genuine
  <2>3. CASE log' = Appended(c) /\ At(c, "write") /\ written' = written \union {c}
    <3>1. c \notin written /\ GenuineLog(cmd[c].log)
      BY <2>3 DEF Provenance, Unwritten
    <3>2. /\ \A i \in DOMAIN log' : Genuine(log'[i]) \/ log'[i] = [by |-> c, ok |-> cmd[c].ok]
          /\ \A i, j \in DOMAIN log' : log'[i].by = log'[j].by => i = j
      BY <2>3, <3>1, AppendedGenuine
    <3>3. cmd'[c].ok = cmd[c].ok
      BY <2>3 DEF Flow, Acting
    <3> QED BY <1>2, <1>3, <2>3, <3>2, <3>3 DEF GenuineLog, Genuine
  <2> QED BY <2>0, <2>1, <2>2, <2>3
<1>5. (archive \notin Unreadable => GenuineArchive(archive))'
  <2>0. \/ archive' \in Unreadable \/ (archive' = archive /\ archive' \notin Unreadable)
        \/ archive' = Upserted(c)
    BY DEF Flow
  <2>1. ASSUME NEW a, a = archive', GenuineArchive(a) PROVE GenuineArchive(archive)'
    <3>1. GenuineArchive(a)'
      BY <1>s, <2>1
    <3> QED BY <2>1, <3>1 DEF GenuineArchive, GenuineLatest, Genuine
  <2>2. archive' = Upserted(c) => GenuineArchive(Upserted(c))
    BY UpsertedGenuine DEF Provenance
  <2> QED BY <2>0, <2>1, <2>2 DEF Provenance
<1>6. ASSUME NEW d \in Commands
      PROVE  /\ GenuineLog(cmd[d].log)'
             /\ GenuineLatest(cmd[d].latest, Plugin(d))'
             /\ GenuineArchive(cmd[d].archive)'
             /\ cmd'[d].probed # "removed"
             /\ cmd'[d].at \in Unwritten => d \notin written'
  <2>1. \E s : s = cmd'[d].log /\ GenuineLog(s)
    BY <1>1 DEF Flow, Provenance
  <2>2. \E l : l = cmd'[d].latest /\ GenuineLatest(l, Plugin(d))
    <3>1. CASE cmd'[d].latest = cmd[d].latest
      BY <3>1 DEF Provenance
    <3>2. CASE d = c /\ log \notin Unreadable /\ cmd'[c].latest = LatestActions(log, Plugin(c))
      BY <3>2, LatestGenuine DEF Provenance, TypeOK
    <3> QED BY <1>1, <3>1, <3>2 DEF Flow
  <2>3. \E a : a = cmd'[d].archive /\ GenuineArchive(a)
    BY <1>1 DEF Flow, Provenance
  <2>4. GenuineLog(cmd[d].log)'
    <3>1. PICK s : s = cmd'[d].log /\ GenuineLog(s)
      BY <2>1
    <3>2. GenuineLog(s)'
      BY <1>s, <3>1
    <3> QED BY <3>1, <3>2 DEF GenuineLog, Genuine
  <2>5. GenuineLatest(cmd[d].latest, Plugin(d))'
    <3>1. PICK l : l = cmd'[d].latest /\ GenuineLatest(l, Plugin(d))
      BY <2>2
    <3>2. \A p : GenuineLatest(l, p) => GenuineLatest(l, p)'
      BY <1>s
    <3>3. PICK p : p = Plugin(d) /\ GenuineLatest(l, p)'
      BY <3>1, <3>2
    <3> QED BY <1>p, <3>1, <3>3 DEF GenuineLatest, Genuine
  <2>6. GenuineArchive(cmd[d].archive)'
    <3>1. PICK a : a = cmd'[d].archive /\ GenuineArchive(a)
      BY <2>3
    <3>2. GenuineArchive(a)'
      BY <1>s, <3>1
    <3> QED BY <3>1, <3>2 DEF GenuineArchive, GenuineLatest, Genuine
  <2>7. cmd'[d].probed # "removed"
    BY <1>1 DEF Flow, Provenance
  <2>8. cmd'[d].at \in Unwritten => d \notin written'
    <3>1. CASE d = c
      BY <3>1 DEF Flow, Provenance, Unwritten, Acting
    <3>2. CASE d # c
      BY <1>1, <1>2, <3>2 DEF Provenance
    <3> QED BY <3>1, <3>2
  <2> QED BY <2>4, <2>5, <2>6, <2>7, <2>8
<1> QED BY <1>4, <1>5, <1>6 DEF Provenance

LEMMA InitProvenance == Init => Provenance
<1> SUFFICES ASSUME Init PROVE Provenance
  OBVIOUS
<1>1. \A a : a = [p \in Plugins |-> NoRecord] => GenuineArchive(a)
  BY DEF GenuineArchive
<1>2. \A l, p : l = [a \in Actions |-> NoRecord] => GenuineLatest(l, p)
  BY DEF GenuineLatest
<1>3. \A s : s = <<>> => GenuineLog(s)
  BY DEF GenuineLog
<1> QED BY <1>1, <1>2, <1>3 DEF Init, Provenance

LEMMA NextProvenance == TypeOK /\ Provenance /\ [Next]_vars => Provenance'
<1> SUFFICES ASSUME TypeOK, Provenance, [Next]_vars PROVE Provenance'
  OBVIOUS
<1>1. CASE UNCHANGED <<log, archive, written, request, cmd>>
  <2>1. (log \notin Unreadable => GenuineLog(log))'
    BY <1>1 DEF Provenance, GenuineLog, Genuine
  <2>s. /\ \A l, p : GenuineLatest(l, p) => GenuineLatest(l, p)'
        /\ \A a : GenuineArchive(a) => GenuineArchive(a)'
    BY <1>1, GenuineStays
  <2>2. (archive \notin Unreadable => GenuineArchive(archive))'
    <3>1. ASSUME NEW a, a = archive, GenuineArchive(a) PROVE GenuineArchive(archive)'
      BY <1>1, <2>s, <3>1 DEF GenuineArchive, GenuineLatest, Genuine
    <3> QED BY <1>1, <3>1 DEF Provenance
  <2>3. ASSUME NEW c \in Commands
        PROVE  /\ GenuineLog(cmd[c].log)'
               /\ GenuineLatest(cmd[c].latest, Plugin(c))'
               /\ GenuineArchive(cmd[c].archive)'
    <3>1. GenuineLog(cmd[c].log)'
      BY <1>1 DEF Provenance, GenuineLog, Genuine
    <3>2. GenuineLatest(cmd[c].latest, Plugin(c))'
      <4>1. ASSUME NEW l, NEW p, l = cmd[c].latest, p = Plugin(c), GenuineLatest(l, p)
            PROVE  GenuineLatest(cmd[c].latest, Plugin(c))'
        <5>1. GenuineLatest(l, p)' /\ p = Plugin(c)'
          BY <1>1, <2>s, <4>1 DEF Plugin
        <5> QED BY <1>1, <4>1, <5>1 DEF GenuineLatest, Genuine
      <4> QED BY <4>1 DEF Provenance
    <3>3. ASSUME NEW a, a = cmd[c].archive, GenuineArchive(a) PROVE GenuineArchive(cmd[c].archive)'
      <4>1. GenuineArchive(a)'
        BY <2>s, <3>3
      <4> QED BY <1>1, <3>3, <4>1 DEF GenuineArchive, GenuineLatest, Genuine
    <3> QED BY <3>1, <3>2, <3>3 DEF Provenance
  <2> QED BY <1>1, <2>1, <2>2, <2>3 DEF Provenance
<1> QED BY <1>1, FlowProvenance, StepFlows

LEMMA ProvenanceAlways == Spec => [](TypeOK /\ Provenance)
<1>1. TypeOK /\ Provenance /\ [Next]_vars => (TypeOK /\ Provenance)'
  BY NextTyped, NextProvenance
<1> QED BY InitTyped, InitProvenance, <1>1, PTL DEF Spec

\* In every readable state.json each record is that of a command which did write it, says
\* what that command found and is not repeated; and the latest actions that archive.json
\* shows for a plugin are such records, of that plugin and that action.  Commands that
\* overlap may lose records (NoRecordLost), but they never make one up, double one or
\* book it under another plugin.
NothingMadeUp ==
  /\ log \notin Unreadable => GenuineLog(log)
  /\ archive \notin Unreadable =>
       \A p \in Plugins : archive[p] # NoRecord => GenuineLatest(archive[p].latest, p)

\* Neither overlapping commands nor failures and crashes put a record into the books that
\* no command wrote.
THEOREM BooksGenuine == Spec => []NothingMadeUp
<1>1. Provenance => NothingMadeUp
  BY DEF Provenance, NothingMadeUp, GenuineArchive
<1> QED BY ProvenanceAlways, <1>1, PTL

\* However many commands run, fail or are killed, a record that was written and whose
\* command overlapped no other append is in a readable state.json, once and as written.
THEOREM NoRecordLost == Spec => []RecordsKept
<1>1. TypeOK /\ LogInv /\ Provenance => RecordsKept
  <2> SUFFICES ASSUME TypeOK, LogInv, Provenance, log \notin Unreadable,
                      NEW c \in written \ overlapped
               PROVE  \E i \in DOMAIN log :
                        /\ log[i] = [by |-> c, ok |-> cmd[c].ok]
                        /\ \A j \in DOMAIN log : log[j].by = c => j = i
    BY DEF RecordsKept
  <2>1. PICK i \in DOMAIN log : log[i].by = c
    BY DEF LogInv, StillThere, Holds
  <2>2. log[i] \in Records
    BY DEF TypeOK
  <2>3. log[i].ok = cmd[c].ok /\ \A j \in DOMAIN log : log[j].by = c => j = i
    BY <2>1 DEF Provenance, GenuineLog, Genuine
  <2> QED BY <2>1, <2>2, <2>3 DEF Records
<1> QED BY LogAlways, ProvenanceAlways, <1>1, PTL

\* The server has run what it says it has.
Ran == \A c \in Commands : session[c] = "done" => Plugin(c) \in rolledBack

LEMMA NextRan == TypeOK /\ Ran /\ [Next]_vars => Ran'
<1> SUFFICES ASSUME TypeOK, Ran, [Next]_vars PROVE Ran'
  OBVIOUS
<1> USE DEF database, Plugin
<1>1. CASE UNCHANGED <<session, rolledBack, request>>
  BY <1>1 DEF Ran
<1>2. ASSUME NEW c \in Commands, Step(c) \/ Killed(c) PROVE Ran'
  <2>1. CASE SendRollback(c)
    BY <2>1 DEF SendRollback, files, Ran, TypeOK
  <2>2. CASE ~SendRollback(c)
    <3>1. UNCHANGED <<session, rolledBack, request>>
      BY <1>2, <2>2 DEF Step, Killed, RunVerify, PlanRollback, SqlFails, ClientMissing,
           RollbackAnswered, RollbackTimesOut, ReadLog, TruncateLog, WriteLog, Probe, ProbeFails,
           ReadLatest, ReadMetadata, ReadArchive, TruncateArchive, WriteArchive
    <3> QED BY <1>1, <3>1
  <2> QED BY <2>1, <2>2
<1>3. ASSUME NEW c \in Commands, RollbackRuns(c) PROVE Ran'
  BY <1>3 DEF RollbackRuns, files, Ran, TypeOK
<1>4. ASSUME NEW c \in Commands, RollbackBreaks(c) PROVE Ran'
  BY <1>4 DEF RollbackBreaks, files, Ran, TypeOK
<1>5. ASSUME NEW p \in Plugins, Register(p) PROVE Ran'
  BY <1>5 DEF Register, files, Ran
<1> QED BY <1>1, <1>2, <1>3, <1>4, <1>5 DEF Next, vars

\* A plugin that archive.json calls removed has been rolled back, or a dry run of its
\* rollback has been recorded: the dry run is the only way in which RemovedMeansRolledBack
\* can go wrong, however many commands overlap, fail or are killed.
RemovedForAReason ==
  archive \notin Unreadable =>
    \A p \in Plugins :
      (archive[p] # NoRecord /\ archive[p].status = "removed") =>
        p \in rolledBack \/ \E c \in written : request[c] = <<"rollback --dry-run", p>>

LEMMA PairParts ==
  ASSUME NEW S, NEW T, NEW x \in S \X T
  PROVE  x = <<x[1], x[2]>>
OBVIOUS

LEMMA ReasonFound ==
  ASSUME TypeOK, Provenance, RollbackInv, Ran
  PROVE  RemovedForAReason
<1> SUFFICES ASSUME archive \notin Unreadable, NEW p \in Plugins, archive[p] # NoRecord,
                    archive[p].status = "removed",
                    \A c \in written : request[c] # <<"rollback --dry-run", p>>
             PROVE  p \in rolledBack
  BY DEF RemovedForAReason
<1>1. PICK r : /\ r = archive[p].latest["rollback"]
                /\ Genuine(r) /\ r.ok /\ Plugin(r.by) = p /\ Action(r.by) = "rollback"
  <2>1. /\ GenuineLatest(archive[p].latest, p)
        /\ archive[p].latest["rollback"] # NoRecord /\ archive[p].latest["rollback"].ok
    BY DEF Provenance, GenuineArchive
  <2> QED BY <2>1 DEF GenuineLatest
<1>2. PICK c \in written : cmd[c].ok /\ Plugin(c) = p /\ Action(c) = "rollback"
  BY <1>1 DEF Genuine
<1>3. c \in Commands /\ Kind(c) = "rollback"
  <2>1. c \in Commands /\ request[c] \in Kinds \X Plugins
    BY BookkeepingAssumption DEF TypeOK
  <2>2. request[c] # <<"rollback --dry-run", p>>
    OBVIOUS
  <2>3. request[c] = <<Kind(c), Plugin(c)>>
    BY <2>1, PairParts DEF Kind, Plugin
  <2>4. Kind(c) \in Kinds /\ Kind(c) \notin {"verify", "verify --removed"}
    BY <1>2, <2>1, RequestTyped DEF Action
  <2> QED BY <1>2, <2>1, <2>2, <2>3, <2>4
<1>4. session[c] = "done"
  BY <1>2, <1>3 DEF RollbackInv, Backed
<1> QED BY <1>2, <1>3, <1>4 DEF Ran

\* "removed" in archive.json always has a rollback, or a recorded dry run, behind it.
THEOREM RemovalsForAReason == Spec => []RemovedForAReason
<1>1. Init => RollbackInv /\ Ran
  BY DEF Init, RollbackInv, Backed, At, Acting, Shown, Ran
<1>2. TypeOK /\ RollbackInv /\ Ran /\ [Next]_vars => (TypeOK /\ RollbackInv /\ Ran)'
  BY NextTyped, NextBacked, NextRan
<1>3. Spec => [](TypeOK /\ RollbackInv /\ Ran)
  BY InitTyped, <1>1, <1>2, PTL DEF Spec
<1> QED BY ProvenanceAlways, <1>3, ReasonFound, PTL

----------------------------------------------------------------------------
(* The last record of an action.                                           *)

\* latest_actions finds a record whenever there is one.
LEMMA LastExists ==
  ASSUME NEW s \in Seq(Records), NEW p, NEW a, Mine(s, p, a) # {}
  PROVE  Last(s, p, a) # {}
<1> DEFINE n == Len(s)
           back == {n - i : i \in Mine(s, p, a)}
<1>1. n \in Nat /\ Mine(s, p, a) \subseteq 1 .. n
  BY DEF Mine
<1>2. back \subseteq Nat /\ back # {}
  BY <1>1
<1>3. PICK k \in back : \A m \in back : ~(<<m, k>> \in OpToRel(<, Nat))
  BY <1>2, NatLessThanWellFounded, WFMin, Zenon
<1>4. \A m \in back : k <= m
  <2>1. \A m \in back : m \in Nat /\ k \in Nat /\ ~(m < k)
    BY <1>2, <1>3 DEF OpToRel
  <2> QED BY <2>1
<1>5. PICK i \in Mine(s, p, a) : k = n - i
  OBVIOUS
<1>6. \A j \in Mine(s, p, a) : j <= i
  <2> SUFFICES ASSUME NEW j \in Mine(s, p, a) PROVE j <= i
    OBVIOUS
  <2>1. n - j \in back
    OBVIOUS
  <2>2. k <= n - j
    BY <1>4, <2>1
  <2>3. i \in 1 .. n /\ j \in 1 .. n
    BY <1>1, <1>5
  <2> QED BY <1>1, <1>5, <2>2, <2>3
<1> QED BY <1>5, <1>6 DEF Last

\* What latest_actions returns: for each action the record of the plugin that no other
\* one follows, or nothing if there is none.
LEMMA LatestIsLast ==
  ASSUME NEW s \in Seq(Records), NEW p, NEW a \in Actions
  PROVE  \/ Mine(s, p, a) = {} /\ LatestActions(s, p)[a] = NoRecord
         \/ \E i \in Mine(s, p, a) : /\ LatestActions(s, p)[a] = s[i]
                                     /\ \A j \in Mine(s, p, a) : j <= i
<1>1. Last(s, p, a) \subseteq Mine(s, p, a)
  BY DEF Last
<1>2. CASE Last(s, p, a) = {}
  BY <1>2, LastExists DEF LatestActions
<1>3. CASE Last(s, p, a) # {}
  <2>1. PICK i : i = (CHOOSE k \in Last(s, p, a) : TRUE)
    OBVIOUS
  <2>2. i \in Last(s, p, a)
    BY <1>3, <2>1
  <2>3. LatestActions(s, p)[a] = s[i]
    BY <1>3, <2>1 DEF LatestActions
  <2> QED BY <2>2, <2>3 DEF Last
<1> QED BY <1>2, <1>3

----------------------------------------------------------------------------
(* Commands that keep their books one at a time, killed ones among them.   *)

\* What c has picked up for the archive is still what state.json says.
Current(c) ==
  cmd[c].at \in {"metadata", "archive", "upsert", "store"} =>
    cmd[c].latest = LatestActions(log, Plugin(c))

OneByOne == ~concurrent => Alone /\ \A c \in Commands : Holding(c) /\ Current(c)

\* A step of c that keeps the only books, or keeps none in the end.
LEMMA OneByOneAssembled ==
  ASSUME NEW c \in Commands, Booking' \subseteq {c}, Holding(c)', Current(c)'
  PROVE  OneByOne'
<1>1. \A d \in Commands \ {c} : Holding(d)' /\ Current(d)'
  BY DEF Booking, Holding, Current, At, Ended
<1> QED BY <1>1 DEF OneByOne, Alone

LEMMA CurrentThen ==
  ASSUME request' = request, NEW c
  PROVE  Current(c)' <=>
           (cmd'[c].at \in {"metadata", "archive", "upsert", "store"} =>
              cmd'[c].latest = LatestActions(log', Plugin(c)))
BY ShownThen DEF Current

LEMMA BookStepOneByOne ==
  ASSUME TypeOK, OneByOne, ~concurrent, NEW c \in Commands, BookStep(c)
  PROVE  OneByOne'
<1>1. c \in Booking /\ Moves(c) /\ Booking \subseteq {c}
  BY BookStepMoves DEF OneByOne, Alone
<1>2. Booking' \subseteq {c}
  <2>1. \A d \in Commands \ {c} : d \notin Booking'
    BY <1>1 DEF Moves, Booking
  <2> QED BY <2>1 DEF Booking
<1>3. BookedAs(c) \/ Stumbles(c)
  BY Booked DEF OneByOne
<1>4. cmd[c] \in Locals /\ request' = request /\ Current(c)
  BY <1>1 DEF TypeOK, Locals, Moves, OneByOne
<1>5. Holding(c)'
  BY <1>3, <1>4 DEF BookedAs, Stumbles, Holding, At, Locals
<1>6. Current(c)'
  BY <1>3, <1>4, CurrentThen DEF BookedAs, Stumbles, Current, At, Locals
<1> QED BY <1>2, <1>5, <1>6, OneByOneAssembled

\* A command that stays out of its books, or leaves them, without touching the files.
LEMMA AsideOneByOne ==
  ASSUME TypeOK, OneByOne, ~concurrent, NEW c \in Commands, Moves(c), c \notin Booking',
         c \in Booking \/ (log' = log /\ archive' = archive)
  PROVE  OneByOne'
<1>1. CASE c \in Booking
  <2>1. Booking \subseteq {c}
    BY <1>1 DEF OneByOne, Alone
  <2>2. Booking' \subseteq {c}
    <3>1. \A d \in Commands \ {c} : d \notin Booking'
      BY <2>1 DEF Moves, Booking
    <3> QED BY <3>1 DEF Booking
  <2>3. Holding(c)' /\ Current(c)'
    BY DEF Holding, Current, Booking, At, Ended
  <2> QED BY <2>2, <2>3, OneByOneAssembled
<1>2. CASE c \notin Booking /\ log' = log /\ archive' = archive
  <2>1. \A d \in Booking' : d \in Booking /\ cmd'[d] = cmd[d]
    BY DEF Moves, Booking
  <2>2. Alone'
    BY <2>1 DEF OneByOne, Alone
  <2>3. ASSUME NEW d \in Commands PROVE Holding(d)' /\ Current(d)'
    <3>1. CASE d \in Booking'
      <4>1. Holding(d) /\ Current(d) /\ cmd'[d] = cmd[d] /\ request' = request
        BY <2>1, <3>1 DEF OneByOne, Moves
      <4> QED BY <1>2, <4>1, CurrentThen DEF Holding, Current, At
    <3>2. CASE d \notin Booking'
      BY <3>2 DEF Holding, Current, Booking, At, Ended
    <3> QED BY <3>1, <3>2
  <2> QED BY <2>2, <2>3 DEF OneByOne
<1> QED BY <1>1, <1>2

\* What kind of step a command or the server takes, whatever the files hold.
LEMMA AllSteps ==
  ASSUME TypeOK, [Next]_vars
  PROVE  \/ UNCHANGED <<log, archive, written, request, cmd, concurrent>>
         \/ \E c \in Commands :
              \/ ActingStep(c) /\ concurrent' = concurrent
              \/ ReadLog(c)
              \/ BookStep(c) /\ concurrent' = concurrent
              \/ Killed(c) /\ concurrent' = concurrent
<1>1. CASE UNCHANGED vars
  BY <1>1 DEF vars, files
<1>2. ASSUME NEW c \in Commands, Step(c)
      PROVE  \/ ActingStep(c) /\ concurrent' = concurrent
             \/ ReadLog(c)
             \/ BookStep(c) /\ concurrent' = concurrent
  BY <1>2, ActingSteps, BookStepMoves DEF Step, ActingStep, BookStep
<1>3. \A c \in Commands : Killed(c) => concurrent' = concurrent
  BY DEF Killed
<1>4. CASE \/ \E c \in Commands : RollbackRuns(c) \/ RollbackBreaks(c)
           \/ \E p \in Plugins : Register(p)
  BY <1>4, ServerSteps DEF files
<1> QED BY <1>1, <1>2, <1>3, <1>4 DEF Next

LEMMA KilledMoves ==
  ASSUME TypeOK, NEW c \in Commands, Killed(c)
  PROVE  /\ Moves(c) /\ cmd'[c].at = "killed" /\ c \notin Booking'
         /\ ~At(c, "write") => log' = log
         /\ ~At(c, "store") => archive' = archive
         /\ written' = written
<1>1. "killed" \in Places
  BY DEF Places
<1>2. cmd'[c].at = "killed" /\ \A d \in Commands \ {c} : cmd'[d] = cmd[d]
  BY <1>1, GotoFlow DEF Killed
<1>3. c \notin Booking'
  BY <1>2 DEF Booking, Ended
<1> QED BY <1>2, <1>3 DEF Killed, Moves

\* A command starts to keep its books when nobody else does; if it cannot read
\* state.json it ends at once.
LEMMA ReadLogOneByOne ==
  ASSUME TypeOK, OneByOne, NEW c \in Commands, ReadLog(c), ~concurrent'
  PROVE  OneByOne'
<1>1. Booking = {} /\ UNCHANGED <<log, archive>> /\ request' = request /\ ~concurrent
  BY DEF ReadLog
<1>2. CASE log \in Unreadable
  <2>1. Goto(c, "error") /\ "error" \in Places
    BY <1>2 DEF ReadLog, Places
  <2>2. cmd'[c].at = "error" /\ Moves(c)
    BY <1>1, <2>1, GotoFlow DEF Moves
  <2>3. c \notin Booking'
    BY <2>2 DEF Booking, Ended
  <2> QED BY <1>1, <2>2, <2>3, AsideOneByOne
<1>3. CASE log \notin Unreadable
  <2>1. cmd' = [cmd EXCEPT ![c].at = "append", ![c].log = log]
    BY <1>3 DEF ReadLog
  <2>2. cmd'[c].at = "append" /\ cmd'[c].log = log /\ \A d \in Commands \ {c} : cmd'[d] = cmd[d]
    BY <2>1 DEF TypeOK
  <2>3. \A d \in Booking' : d = c
    BY <1>1, <2>2 DEF Booking
  <2>4. Holding(c)' /\ Current(c)'
    BY <1>1, <2>2 DEF Holding, Current, At
  <2> QED BY <2>3, <2>4, OneByOneAssembled
<1> QED BY <1>2, <1>3

LEMMA NextOneByOne == TypeOK /\ OneByOne /\ [Next]_vars => OneByOne'
<1> SUFFICES ASSUME TypeOK, OneByOne, [Next]_vars, ~concurrent' PROVE OneByOne'
  BY DEF OneByOne
<1>1. CASE UNCHANGED <<log, archive, written, request, cmd, concurrent>>
  <2>1. Booking' = Booking
    BY <1>1 DEF Booking
  <2>2. \A c \in Commands : Holding(c)' /\ Current(c)'
    BY <1>1, CurrentThen DEF OneByOne, Holding, Current, At
  <2> QED BY <1>1, <2>1, <2>2 DEF OneByOne, Alone
<1>2. ASSUME NEW c \in Commands, ActingStep(c), concurrent' = concurrent PROVE OneByOne'
  <2>1. c \notin Booking' /\ c \notin Booking
    BY <1>2, ActingBooking DEF ActingStep
  <2> QED BY <1>2, <2>1, AsideOneByOne DEF ActingStep
<1>3. ASSUME NEW c \in Commands, ReadLog(c) PROVE OneByOne'
  BY <1>3, ReadLogOneByOne
<1>4. ASSUME NEW c \in Commands, BookStep(c), concurrent' = concurrent PROVE OneByOne'
  BY <1>4, BookStepOneByOne
<1>5. ASSUME NEW c \in Commands, Killed(c), concurrent' = concurrent PROVE OneByOne'
  <2>1. At(c, "write") \/ At(c, "store") => c \in Booking
    BY DEF At, Booking, Ended
  <2>2. /\ Moves(c) /\ c \notin Booking'
        /\ c \in Booking \/ (log' = log /\ archive' = archive)
    BY <1>5, <2>1, KilledMoves
  <2>3. ~concurrent
    BY <1>5
  <2> QED BY <2>2, <2>3, AsideOneByOne
<1> QED BY <1>1, <1>2, <1>3, <1>4, <1>5, AllSteps

LEMMA InitOneByOne == Init => OneByOne
BY DEF Init, OneByOne, Alone, Booking, Holding, Current, At

----------------------------------------------------------------------------
(* The commands implement module Books.                                    *)

\* What EntriesKept and ShownKept are, without CHOOSE.
EntriesAre(e) ==
  \/ \E c \in Commands : At(c, "write") /\ e = cmd[c].log
  \/ (\A c \in Commands : ~At(c, "write")) /\ e = log

ArchiveIs(a) ==
  \/ \E c \in Commands : At(c, "store") /\ a = cmd[c].archive
  \/ (\A c \in Commands : ~At(c, "store")) /\ a = archive

LEMMA OneWriter ==
  ASSUME Alone
  PROVE  /\ \A e : EntriesAre(e) => EntriesKept = e
         /\ \A a : ArchiveIs(a) => ShownKept = ShownIn(a)
<1>1. \A c, d \in Commands : /\ At(c, "write") /\ At(d, "write") => c = d
                            /\ At(c, "store") /\ At(d, "store") => c = d
  BY DEF Alone, Booking, At, Ended
<1>2. ASSUME NEW e, EntriesAre(e) PROVE EntriesKept = e
  <2>1. CASE \E c \in Commands : At(c, "write")
    <3>1. PICK c \in Commands : At(c, "write") /\ e = cmd[c].log
      BY <1>2, <2>1 DEF EntriesAre
    <3>2. (CHOOSE d \in Commands : At(d, "write")) = c
      BY <1>1, <3>1
    <3> QED BY <2>1, <3>1, <3>2 DEF EntriesKept
  <2>2. CASE ~\E c \in Commands : At(c, "write")
    BY <1>2, <2>2 DEF EntriesAre, EntriesKept
  <2> QED BY <2>1, <2>2
<1>3. ASSUME NEW a, ArchiveIs(a) PROVE ShownKept = ShownIn(a)
  <2>1. CASE \E c \in Commands : At(c, "store")
    <3>1. PICK c \in Commands : At(c, "store") /\ a = cmd[c].archive
      BY <1>3, <2>1 DEF ArchiveIs
    <3>2. (CHOOSE d \in Commands : At(d, "store")) = c
      BY <1>1, <3>1
    <3> QED BY <2>1, <3>1, <3>2 DEF ShownKept
  <2>2. CASE ~\E c \in Commands : At(c, "store")
    BY <1>3, <2>2 DEF ArchiveIs, ShownKept
  <2> QED BY <2>1, <2>2
<1> QED BY <1>2, <1>3

\* The same of the next state.
LEMMA OneWriterThen ==
  ASSUME Alone'
  PROVE  /\ \A e : EntriesAre(e)' => EntriesKept' = e
         /\ \A a : ArchiveIs(a)' => ShownKept' = ShownIn(a)
<1>1. \A a : ShownIn(a)' = ShownIn(a)
  BY DEF ShownIn
<1>2. (\A e : EntriesAre(e) => EntriesKept = e)' /\ (\A a : ArchiveIs(a) => ShownKept = ShownIn(a))'
  BY OneWriter, PTL
<1> QED BY <1>1, <1>2

\* Nobody repairs a file that has been left unreadable.
LEMMA RuinStays ==
  ASSUME TypeOK, OneByOne, ~concurrent, NEW c \in Commands,
         ActingStep(c) \/ ReadLog(c) \/ BookStep(c) \/ Killed(c)
  PROVE  /\ Moves(c)
         /\ log \in Unreadable /\ ~At(c, "write") => log' = log /\ cmd'[c].at # "write"
         /\ archive \in Unreadable /\ ~At(c, "store") => archive' = archive /\ cmd'[c].at # "store"
<1>1. CASE ActingStep(c)
  BY <1>1 DEF ActingStep
<1>2. CASE ReadLog(c)
  <2>1. Goto(c, "error") => cmd'[c].at = "error" /\ \A d \in Commands \ {c} : cmd'[d] = cmd[d]
    BY GotoFlow DEF Places
  <2>2. cmd' = [cmd EXCEPT ![c].at = "append", ![c].log = log] =>
          cmd'[c].at = "append" /\ \A d \in Commands \ {c} : cmd'[d] = cmd[d]
    BY DEF TypeOK
  <2> QED BY <1>2, <2>1, <2>2 DEF ReadLog, Moves
<1>3. CASE BookStep(c)
  <2>1. Moves(c) /\ (BookedAs(c) \/ Stumbles(c)) /\ Holding(c) /\ cmd[c] \in Locals
    BY <1>3, BookStepMoves, Booked DEF OneByOne, TypeOK, Locals
  <2>2. /\ At(c, "append") => log \notin Unreadable
        /\ At(c, "upsert") => archive \notin Unreadable
    <3>1. cmd[c].log \in Seq(Records) /\ cmd[c].archive \in Archives
      BY <2>1 DEF Locals
    <3> QED BY <2>1, <3>1, BookkeepingAssumption DEF Holding
  <2> QED BY <2>1, <2>2 DEF BookedAs, Stumbles, At, Locals
<1>4. CASE Killed(c)
  BY <1>4, KilledMoves
<1> QED BY <1>1, <1>2, <1>3, <1>4

\* Spoilt books stay so.
LEMMA UnspoiltBefore ==
  ASSUME TypeOK, OneByOne, [Next]_vars, Unspoilt'
  PROVE  Unspoilt
<1>1. ~concurrent' /\ ~concurrent
  <2>1. concurrent => concurrent'
    BY AllSteps DEF ReadLog
  <2> QED BY <2>1 DEF Unspoilt
<1>2. CASE UNCHANGED <<log, archive, written, request, cmd, concurrent>>
  BY <1>2 DEF Unspoilt, At
<1>3. ASSUME NEW c \in Commands, ActingStep(c) \/ ReadLog(c) \/ BookStep(c) \/ Killed(c)
      PROVE  Unspoilt
  <2>1. /\ Moves(c)
        /\ log \in Unreadable /\ ~At(c, "write") => log' = log /\ cmd'[c].at # "write"
        /\ archive \in Unreadable /\ ~At(c, "store") => archive' = archive /\ cmd'[c].at # "store"
    BY <1>1, <1>3, RuinStays
  <2> QED BY <1>1, <2>1 DEF Unspoilt, Moves, At, Unreadable
<1> QED BY <1>2, <1>3, AllSteps

\* The steps that the books do not show.
LEMMA Unseen ==
  ASSUME TypeOK, Alone, Alone', NEW c \in Commands, Moves(c),
         ~At(c, "write") => log' = log,
         ~At(c, "store") => archive' = archive,
         ~At(c, "write"), ~At(c, "store"),
         cmd'[c].at \notin {"write", "store"}
  PROVE  EntriesKept' = EntriesKept /\ ShownKept' = ShownKept
<1>1. \A e : EntriesAre(e) => EntriesAre(e)'
  BY DEF EntriesAre, Moves, At
<1>2. \A a : ArchiveIs(a) => ArchiveIs(a)'
  BY DEF ArchiveIs, Moves, At
<1>3. (\E e : EntriesAre(e)) /\ (\E a : ArchiveIs(a))
  BY DEF EntriesAre, ArchiveIs
<1> QED BY <1>1, <1>2, <1>3, OneWriter, OneWriterThen

\* Once c has left a place that nobody else is at, nobody is at it.
LEMMA NobodyAtThen ==
  ASSUME NEW c \in Commands, NEW CONSTANT place, Moves(c), cmd'[c].at # place,
         \A d \in Commands \ {c} : ~At(d, place)
  PROVE  \A d \in Commands : ~At(d, place)'
<1> SUFFICES ASSUME NEW d \in Commands PROVE ~At(d, place)'
  OBVIOUS
<1>1. CASE d = c
  BY <1>1 DEF At
<1>2. CASE d # c
  <2>1. cmd'[d] = cmd[d]
    BY <1>2 DEF Moves
  <2>2. cmd[d].at # place
    BY <1>2 DEF At
  <2> QED BY <2>1, <2>2 DEF At
<1> QED BY <1>1, <1>2

\* An append enters the command's result, which is its first.
LEMMA WriteEnters ==
  ASSUME TypeOK, Provenance, FilesKept, Alone', NEW c \in Commands, At(c, "write"), BookStep(c)
  PROVE  TheBooks!Enter(c)
<1>1. /\ cmd'[c] = [cmd[c] EXCEPT !.at = "probe"] /\ log' = Appended(c) /\ archive' = archive
      /\ Moves(c) /\ cmd[c] \in Locals
  BY BookedAlone, BookStepMoves DEF BookedAs, At, TypeOK, Locals
<1>2. cmd'[c].at = "probe" /\ cmd[c].at = "write"
  BY <1>1 DEF Locals, At
<1>3. \A d \in Commands \ {c} : ~At(d, "write") /\ ~At(d, "store")
  <2>1. c \in Booking /\ \A d \in Commands : At(d, "write") \/ At(d, "store") => d \in Booking
    BY DEF At, Booking, Ended
  <2> QED BY <2>1 DEF FilesKept, Alone
<1>4. EntriesAre(cmd[c].log) /\ \A e : e = log' => EntriesAre(e)'
  <2>1. \A d \in Commands : ~At(d, "write")'
    <3>1. cmd'[c].at # "write"
      BY <1>2
    <3> QED BY <1>1, <1>3, <3>1, NobodyAtThen
  <2> QED BY <2>1 DEF EntriesAre
<1>5. EntriesKept = cmd[c].log /\ EntriesKept' = log'
  <2>1. \A e : EntriesAre(e) => EntriesKept = e
    BY OneWriter DEF FilesKept
  <2>2. \A e : EntriesAre(e)' => EntriesKept' = e
    BY OneWriterThen
  <2> QED BY <1>4, <2>1, <2>2
<1>6. ShownKept' = ShownKept
  <2>0. \A d \in Commands : ~At(d, "store") /\ ~At(d, "store")'
    <3>1. cmd'[c].at # "store" /\ ~At(c, "store")
      BY <1>2 DEF At
    <3>2. \A d \in Commands : ~At(d, "store")'
      BY <1>1, <1>3, <3>1, NobodyAtThen
    <3> QED BY <1>3, <3>1, <3>2
  <2>2. \A a : a = archive => ArchiveIs(a) /\ ArchiveIs(a)'
    BY <1>1, <2>0 DEF ArchiveIs
  <2>3. \A a : ArchiveIs(a) => ShownKept = ShownIn(a)
    BY OneWriter DEF FilesKept
  <2>4. \A a : ArchiveIs(a)' => ShownKept' = ShownIn(a)
    BY OneWriterThen
  <2> QED BY <2>2, <2>3, <2>4
<1>7. \A i \in DOMAIN cmd[c].log : cmd[c].log[i].by # c
  BY <1>2 DEF Provenance, GenuineLog, Genuine, Unwritten
<1>8. cmd[c].ok \in BOOLEAN
  BY <1>1 DEF Locals
<1>9. request' = request
  BY <1>1 DEF Moves
<1>10. UNCHANGED [d \in Commands |-> [plugin |-> Plugin(d), action |-> Action(d)]]
  BY <1>9 DEF Plugin, Action, Kind
<1> QED BY <1>1, <1>5, <1>6, <1>7, <1>8, <1>10 DEF TheBooks!Enter, Appended

\* What an upsert stores of its plugin is what module Books shows of it.
LEMMA LatestNewest ==
  ASSUME TypeOK, NEW c \in Commands, log \notin Unreadable, EntriesKept = log,
         cmd[c].latest = LatestActions(log, Plugin(c))
  PROVE  /\ cmd[c].latest \in [Actions -> TheBooks!Entries \union {NoRecord}]
         /\ \A a \in Actions : TheBooks!Newest(cmd[c].latest[a], Plugin(c), a)
<1>1. log \in Seq(Records) /\ cmd[c].latest \in Latest
  BY DEF TypeOK
<1>2. cmd[c].latest \in [Actions -> TheBooks!Entries \union {NoRecord}]
  BY <1>1 DEF Latest, TheBooks!Entries, Records
<1>3. ASSUME NEW a \in Actions PROVE TheBooks!Newest(cmd[c].latest[a], Plugin(c), a)
  <2>1. TheBooks!Of(Plugin(c), a) = Mine(log, Plugin(c), a)
    <3>1. \A i \in DOMAIN log : log[i] \in Records
      BY <1>1
    <3>2. \A i \in DOMAIN log : log[i].by \in Commands
      BY <3>1 DEF Records
    <3> QED BY <3>2 DEF TheBooks!Of, Mine
  <2> QED BY <1>1, <2>1, LatestIsLast DEF TheBooks!Newest
<1> QED BY <1>2, <1>3

LEMMA StoreShows ==
  ASSUME TypeOK, FilesKept, Alone', NEW c \in Commands, Current(c), At(c, "store"), BookStep(c)
  PROVE  TheBooks!Show(Plugin(c))
<1>1. /\ cmd'[c] = [cmd[c] EXCEPT !.at = IF cmd[c].ok THEN "passed" ELSE "failed"]
      /\ archive' = Upserted(c) /\ log' = log
      /\ Moves(c) /\ cmd[c] \in Locals
  BY BookedAlone, BookStepMoves DEF BookedAs, At, TypeOK, Locals
<1>2. cmd'[c].at \in {"passed", "failed"} /\ cmd[c].at = "store"
  BY <1>1 DEF Locals, At
<1>3. \A d \in Commands \ {c} : ~At(d, "write") /\ ~At(d, "store")
  <2>1. c \in Booking /\ \A d \in Commands : At(d, "write") \/ At(d, "store") => d \in Booking
    BY DEF At, Booking, Ended
  <2> QED BY <2>1 DEF FilesKept, Alone
<1>4. EntriesKept = log /\ EntriesKept' = log
  <2>0. \A d \in Commands : ~At(d, "write") /\ ~At(d, "write")'
    <3>1. cmd'[c].at # "write" /\ ~At(c, "write")
      BY <1>2 DEF At
    <3>2. \A d \in Commands : ~At(d, "write")'
      BY <1>1, <1>3, <3>1, NobodyAtThen
    <3> QED BY <1>3, <3>1, <3>2
  <2>1. \A e : e = log => EntriesAre(e) /\ EntriesAre(e)'
    BY <1>1, <2>0 DEF EntriesAre
  <2>2. \A e : EntriesAre(e) => EntriesKept = e
    BY OneWriter DEF FilesKept
  <2>3. \A e : EntriesAre(e)' => EntriesKept' = e
    BY OneWriterThen
  <2> QED BY <2>1, <2>2, <2>3
<1>5. log \notin Unreadable
  BY <1>2, <1>3 DEF FilesKept, At
<1>6. ShownKept = ShownIn(cmd[c].archive) /\ ShownKept' = ShownIn(Upserted(c))
  <2>1. ArchiveIs(cmd[c].archive)
    BY DEF ArchiveIs
  <2>0. \A d \in Commands : ~At(d, "store")'
    <3>1. cmd'[c].at # "store"
      BY <1>2
    <3> QED BY <1>1, <1>3, <3>1, NobodyAtThen
  <2>2. \A a : a = archive' => ArchiveIs(a)'
    BY <2>0 DEF ArchiveIs
  <2>3. \A a : ArchiveIs(a) => ShownKept = ShownIn(a)
    BY OneWriter DEF FilesKept
  <2>4. \A a : ArchiveIs(a)' => ShownKept' = ShownIn(a)
    BY OneWriterThen
  <2> QED BY <1>1, <2>1, <2>2, <2>3, <2>4
<1>7. ShownIn(Upserted(c)) = [ShownIn(cmd[c].archive) EXCEPT ![Plugin(c)] = cmd[c].latest]
  <2>1. cmd[c].archive \in [Plugins -> ArchiveRecords \union {NoRecord}] /\ Plugin(c) \in Plugins
    BY <1>1, RequestTyped DEF Locals, Archives
  <2>2. [status |-> ArchiveStatus(c), latest |-> cmd[c].latest] # NoRecord
    <3>1. ArchiveStatus(c) \in Statuses
      BY <1>1 DEF ArchiveStatus, Statuses, Locals
    <3>2. [status |-> ArchiveStatus(c), latest |-> cmd[c].latest] \in ArchiveRecords
      BY <1>1, <3>1 DEF ArchiveRecords, Locals
    <3> QED BY <3>2, BookkeepingAssumption
  <2>3. ASSUME NEW p \in Plugins
        PROVE  ShownIn(Upserted(c))[p] =
                 IF p = Plugin(c) THEN cmd[c].latest ELSE ShownIn(cmd[c].archive)[p]
    BY <2>1, <2>2 DEF ShownIn, Upserted
  <2> QED BY <2>1, <2>3 DEF ShownIn
<1>8. cmd[c].latest = LatestActions(log, Plugin(c))
  BY <1>2 DEF Current
<1>9. request' = request
  BY <1>1 DEF Moves
<1>10. UNCHANGED [d \in Commands |-> [plugin |-> Plugin(d), action |-> Action(d)]]
  BY <1>9 DEF Plugin, Action, Kind
<1>11. /\ cmd[c].latest \in [Actions -> TheBooks!Entries \union {NoRecord}]
       /\ \A a \in Actions : TheBooks!Newest(cmd[c].latest[a], Plugin(c), a)
  BY <1>4, <1>5, <1>8, LatestNewest
<1> QED BY <1>4, <1>6, <1>7, <1>10, <1>11 DEF TheBooks!Show

LEMMA BooksStep ==
  ASSUME TypeOK, Provenance, OneByOne, OneByOne', [Next]_vars
  PROVE  [TheBooks!BooksNext]_TheBooks!booksVars
<1>0. request' = request
  <2>1. \A c \in Commands : ReadLog(c) => request' = request
    BY DEF ReadLog
  <2> QED BY <2>1, AllSteps, BookStepMoves, KilledMoves DEF ActingStep, Moves
<1>o. UNCHANGED [d \in Commands |-> [plugin |-> Plugin(d), action |-> Action(d)]]
  BY <1>0 DEF Plugin, Action, Kind
<1>1. CASE ~Unspoilt'
  BY <1>1, <1>o DEF TheBooks!BooksNext, TheBooks!Spoil
<1>2. CASE Unspoilt'
  <2>1. Unspoilt /\ FilesKept /\ Alone' /\ \A c \in Commands : Current(c)
    BY <1>2, UnspoiltBefore DEF OneByOne, Unspoilt, FilesKept
  <2>s. EntriesKept' = EntriesKept /\ ShownKept' = ShownKept => UNCHANGED TheBooks!booksVars
    BY <1>2, <1>o, <2>1 DEF TheBooks!booksVars
  <2>2. CASE UNCHANGED <<log, archive, written, request, cmd, concurrent>>
    BY <2>2, <2>s DEF EntriesKept, ShownKept, ShownIn, At
  <2>3. ASSUME NEW c \in Commands, ActingStep(c) PROVE UNCHANGED TheBooks!booksVars
    BY <2>1, <2>3, <2>s, Unseen DEF ActingStep, FilesKept, Acting, At
  <2>4. ASSUME NEW c \in Commands, ReadLog(c) PROVE UNCHANGED TheBooks!booksVars
    <3>1. /\ cmd'[c] = [cmd[c] EXCEPT !.at = "append", !.log = log]
          /\ Moves(c) /\ UNCHANGED <<log, archive>>
      BY <1>2, <2>1, <2>4, ReadLogAlone DEF Unspoilt
    <3>2. cmd'[c].at = "append" /\ cmd[c].at = "record"
      BY <2>4, <3>1 DEF TypeOK, ReadLog, At
    <3> QED BY <2>1, <2>s, <3>1, <3>2, Unseen DEF FilesKept, At
  <2>5. ASSUME NEW c \in Commands, BookStep(c)
        PROVE  TheBooks!BooksNext \/ UNCHANGED TheBooks!booksVars
    <3>1. CASE At(c, "write")
      BY <1>2, <2>1, <2>5, <3>1, WriteEnters DEF TheBooks!BooksNext, TheBooks!Keep
    <3>2. CASE At(c, "store")
      <4>1. Plugin(c) \in Plugins
        BY RequestTyped
      <4> QED BY <1>2, <2>1, <2>5, <3>2, <4>1, StoreShows DEF TheBooks!BooksNext, TheBooks!Keep
    <3>3. CASE At(c, "append")
      <4>1. cmd[c].log = log /\ cmd'[c] = [cmd[c] EXCEPT !.at = "write"] /\ archive' = archive /\ Moves(c)
        BY <2>1, <2>5, <3>3, BookedAlone, BookStepMoves DEF BookedAs, FilesKept, Holding, At
      <4>2. cmd'[c].at = "write" /\ cmd'[c].log = log /\ cmd[c].at = "append" /\ c \in Booking
        BY <2>5, <3>3, <4>1, BookStepMoves DEF TypeOK, At
      <4>3. \A d \in Commands \ {c} : ~At(d, "write") /\ ~At(d, "store")
        BY <2>1, <4>2 DEF FilesKept, Alone, Booking, At, Ended
      <4>4. EntriesKept' = EntriesKept
        <5>1. \A e : e = log => EntriesAre(e) /\ EntriesAre(e)'
          BY <4>1, <4>2, <4>3 DEF EntriesAre, Moves, At
        <5>2. \A e : EntriesAre(e) => EntriesKept = e
          BY <2>1, OneWriter DEF FilesKept
        <5>3. \A e : EntriesAre(e)' => EntriesKept' = e
          BY <2>1, OneWriterThen
        <5> QED BY <5>1, <5>2, <5>3
      <4>5. ShownKept' = ShownKept
        <5>0. \A d \in Commands : ~At(d, "store") /\ ~At(d, "store")'
          <6> SUFFICES ASSUME NEW d \in Commands PROVE ~At(d, "store") /\ ~At(d, "store")'
            OBVIOUS
          <6>1. CASE d = c
            BY <4>2, <6>1 DEF At
          <6>2. CASE d # c
            BY <4>1, <4>3, <6>2 DEF Moves, At
          <6> QED BY <6>1, <6>2
        <5>1. \A a : a = archive => ArchiveIs(a) /\ ArchiveIs(a)'
          BY <4>1, <5>0 DEF ArchiveIs
        <5>2. \A a : ArchiveIs(a) => ShownKept = ShownIn(a)
          BY <2>1, OneWriter DEF FilesKept
        <5>3. \A a : ArchiveIs(a)' => ShownKept' = ShownIn(a)
          BY <2>1, OneWriterThen
        <5> QED BY <5>1, <5>2, <5>3
      <4> QED BY <2>s, <4>4, <4>5
    <3>4. CASE At(c, "upsert")
      <4>1. cmd[c].archive = archive /\ cmd'[c] = [cmd[c] EXCEPT !.at = "store"] /\ log' = log /\ Moves(c)
        BY <2>1, <2>5, <3>4, BookedAlone, BookStepMoves DEF BookedAs, FilesKept, Holding, At
      <4>2. cmd'[c].at = "store" /\ cmd'[c].archive = archive /\ cmd[c].at = "upsert" /\ c \in Booking
        BY <2>5, <3>4, <4>1, BookStepMoves DEF TypeOK, At
      <4>3. \A d \in Commands \ {c} : ~At(d, "write") /\ ~At(d, "store")
        BY <2>1, <4>2 DEF FilesKept, Alone, Booking, At, Ended
      <4>4. EntriesKept' = EntriesKept
        <5>0. \A d \in Commands : ~At(d, "write") /\ ~At(d, "write")'
          <6> SUFFICES ASSUME NEW d \in Commands PROVE ~At(d, "write") /\ ~At(d, "write")'
            OBVIOUS
          <6>1. CASE d = c
            BY <4>2, <6>1 DEF At
          <6>2. CASE d # c
            BY <4>1, <4>3, <6>2 DEF Moves, At
          <6> QED BY <6>1, <6>2
        <5>1. \A e : e = log => EntriesAre(e) /\ EntriesAre(e)'
          BY <4>1, <5>0 DEF EntriesAre
        <5>2. \A e : EntriesAre(e) => EntriesKept = e
          BY <2>1, OneWriter DEF FilesKept
        <5>3. \A e : EntriesAre(e)' => EntriesKept' = e
          BY <2>1, OneWriterThen
        <5> QED BY <5>1, <5>2, <5>3
      <4>5. ShownKept' = ShownKept
        <5>1. \A a : a = archive => ArchiveIs(a) /\ ArchiveIs(a)'
          BY <4>1, <4>2, <4>3 DEF ArchiveIs, Moves, At
        <5>2. \A a : ArchiveIs(a) => ShownKept = ShownIn(a)
          BY <2>1, OneWriter DEF FilesKept
        <5>3. \A a : ArchiveIs(a)' => ShownKept' = ShownIn(a)
          BY <2>1, OneWriterThen
        <5> QED BY <5>1, <5>2, <5>3
      <4> QED BY <2>s, <4>4, <4>5
    <3>5. CASE ~At(c, "write") /\ ~At(c, "store") /\ ~At(c, "append") /\ ~At(c, "upsert")
      <4>1. Moves(c) /\ log' = log /\ archive' = archive /\ cmd'[c].at \notin {"write", "store"}
        <5>1. BookedAs(c) /\ Moves(c) /\ cmd[c] \in Locals
          BY <2>1, <2>5, BookedAlone, BookStepMoves DEF TypeOK, Locals
        <5> QED BY <3>5, <5>1 DEF BookedAs, Locals
      <4> QED BY <2>1, <2>s, <3>5, <4>1, Unseen DEF FilesKept
    <3> QED BY <3>1, <3>2, <3>3, <3>4, <3>5
  <2>6. ASSUME NEW c \in Commands, Killed(c) PROVE UNCHANGED TheBooks!booksVars
    <3>1. Moves(c) /\ cmd'[c].at = "killed"
      BY <2>6, KilledMoves
    <3>2. ASSUME At(c, "write") \/ At(c, "store") PROVE FALSE
      <4>1. \A d \in Commands : ~At(d, "write")' /\ ~At(d, "store")'
        <5>1. \A d \in Commands \ {c} : ~At(d, "write") /\ ~At(d, "store")
          BY <2>1, <3>2 DEF FilesKept, Alone, Booking, At, Ended
        <5> QED BY <3>1, <5>1 DEF Moves, At
      <4>2. log' \notin Unreadable /\ archive' \notin Unreadable
        BY <1>2, <4>1 DEF Unspoilt, Unreadable
      <4>3. CASE At(c, "write")
        <5>1. log \in Unreadable
          BY <2>1, <4>3 DEF FilesKept, Holding, Unreadable
        <5> QED BY <2>6, <4>2, <4>3, <5>1 DEF Killed, Unreadable
      <4>4. CASE At(c, "store")
        <5>1. archive \in Unreadable
          BY <2>1, <4>4 DEF FilesKept, Holding, Unreadable
        <5> QED BY <2>6, <4>2, <4>4, <5>1 DEF Killed, Unreadable
      <4> QED BY <3>2, <4>3, <4>4
    <3> QED BY <2>1, <2>6, <2>s, <3>1, <3>2, KilledMoves, Unseen DEF FilesKept
  <2> QED BY <2>2, <2>3, <2>4, <2>5, <2>6, AllSteps
<1> QED BY <1>1, <1>2

\* On any number of commands and plugins, whoever fails or is killed, the two files are
\* what module Books says until two commands keep them at once or one dies writing.
THEOREM BooksKept == Spec => KeepsBooks
<1>1. Init => TheBooks!BooksInit
  <2> SUFFICES ASSUME Init PROVE TheBooks!BooksInit
    OBVIOUS
  <2>1. TypeOK /\ \A c \in Commands : ~At(c, "write") /\ ~At(c, "store")
    BY InitTyped DEF Init, At
  <2>2. log = <<>> /\ archive = [p \in Plugins |-> NoRecord] /\ ~concurrent
    BY DEF Init
  <2>3. log \notin Unreadable /\ archive \notin Unreadable
    <3>1. log \in Seq(Records) /\ archive \in Archives
      BY <2>2 DEF Archives
    <3> QED BY <3>1, BookkeepingAssumption
  <2>4. Unspoilt /\ EntriesKept = <<>> /\ ShownKept = [p \in Plugins |-> [a \in Actions |-> NoRecord]]
    BY <2>1, <2>2, <2>3 DEF Unspoilt, EntriesKept, ShownKept, ShownIn
  <2>5. \A c \in Commands : Plugin(c) \in Plugins /\ Action(c) \in Actions
    BY <2>1, RequestTyped DEF Action
  <2> QED BY <2>4, <2>5 DEF TheBooks!BooksInit
<1>2. TypeOK /\ OneByOne /\ [Next]_vars => (TypeOK /\ OneByOne)'
  BY NextTyped, NextOneByOne
<1>3. Spec => [](TypeOK /\ OneByOne)
  BY InitTyped, InitOneByOne, <1>2, PTL DEF Spec
<1> QED BY <1>1, <1>3, ProvenanceAlways, BooksStep, PTL DEF Spec, KeepsBooks, TheBooks!BooksSpec
=============================================================================
