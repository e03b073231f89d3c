--------------------------- MODULE StateFileProofs ---------------------------
(***************************************************************************)
(* Proofs about StateFile, for any number of sessions, records kept,       *)
(* restarts and faults: once the writer is idle the state file shows the   *)
(* catalog, and the queue of exited sessions holds each exited record once *)
(* and never too many.  When no daemon ends while the file holds only a    *)
(* part of what it read, an answered session is known to every later       *)
(* daemon, and an agent runs only behind a record that says so.            *)
(***************************************************************************)
EXTENDS StateFile, FiniteSetTheorems, TLAPS

-----------------------------------------------------------------------------
\* The types the proofs rest on.
Types ==
    /\ mode \in {"down", "loading", "up", "stopping"}
    /\ rec \in [Ids -> Status] /\ read \in [Ids -> Saved]
    /\ next \in SUBSET Snapshot /\ busy \in SUBSET Snapshot
    /\ file \in Snapshot /\ failed \in BOOLEAN /\ damaged \in BOOLEAN

\* Every snapshot of the set shows the catalog.
Current(snaps) == \A snap \in snaps : snap.s = Shown(rec)

\* The snapshot that waits is current, and so is the one being written when
\* none waits.
WriterInv ==
    /\ mode # "down" => Current(next)
    /\ mode # "down" /\ next = {} => Current(busy)
    /\ mode = "down" => rec = NoRecords /\ next = {} /\ busy = {} /\ ~failed

SaveInv == Types /\ WriterInv /\ FileShowsAll

\* A step that changes the catalog and submits it.
CatalogStep ==
    /\ mode = "up" /\ mode' = "up" /\ read' = read
    /\ Save
    /\ busy' = busy /\ file' = file /\ failed' = failed /\ damaged' = damaged
    /\ rec' \in [Ids -> Status]
    /\ answered' \subseteq answered
    /\ \A i \in answered' \cap Ids : rec[i] # "none" => rec'[i] # "none"

\* A step that leaves the catalog, the writer and the file alone.
QuietStep ==
    /\ \/ mode' = mode /\ (mode = "down" => sock' = sock)
       \/ mode = "up" /\ mode' = "stopping"
    /\ rec' = rec /\ read' = read /\ answered' = answered
    /\ next' = next /\ busy' = busy /\ file' = file
    /\ failed' = failed /\ damaged' = damaged

-----------------------------------------------------------------------------
(* What the parts of an action come to.                                    *)

LEMMA PersistedType ==
    ASSUME NEW st \in Status
    PROVE  Persisted(st) \in Saved /\ (st # "none" => Persisted(st) # "none")
  BY DEF Persisted, Status, Saved

LEMMA ShownType ==
    ASSUME NEW r \in [Ids -> Status]
    PROVE  /\ Shown(r) \in [Ids -> Saved]
           /\ \A i \in Ids : r[i] # "none" => Shown(r)[i] # "none"
  BY PersistedType DEF Shown

LEMMA UpdateCatalog ==
    ASSUME Types, NEW id \in Ids, NEW st \in Status \ {"none"}, NEW hs, NEW ls,
           Update(id, st, hs, ls)
    PROVE  /\ Save /\ rec' \in [Ids -> Status]
           /\ answered' \subseteq answered
           /\ rec'[id] # "none" \/ id \notin answered'
           /\ \A i \in answered' \cap Ids : rec[i] # "none" => rec'[i] # "none"
  <1> DEFINE q == Queue(id, st)
             old == Prunes(q)
  <1>1. /\ rec' = [i \in Ids |-> IF i \in old THEN "none"
                                 ELSE IF i = id THEN st ELSE rec[i]]
        /\ answered' = answered \ old /\ Save
    BY DEF Update
  <1> HIDE DEF old
  <1>2. rec' \in [Ids -> Status]
    BY <1>1 DEF Types, Status
  <1> QED BY <1>1, <1>2

LEMMA DropCatalog ==
    ASSUME Types, NEW id \in Ids, NEW ls, Drop(id, ls)
    PROVE  /\ Save /\ rec' \in [Ids -> Status]
           /\ answered' \subseteq answered
           /\ \A i \in answered' \cap Ids : rec[i] # "none" => rec'[i] # "none"
  BY DEF Drop, Types, Status

LEMMA UpdateStep ==
    ASSUME Types, NEW id \in Ids, NEW st \in Status \ {"none"}, NEW hs, NEW ls,
           Update(id, st, hs, ls), Outside, mode = "up", read' = read
    PROVE  CatalogStep
  BY UpdateCatalog DEF CatalogStep, Outside

LEMMA DropStep ==
    ASSUME Types, NEW id \in Ids, NEW ls, Drop(id, ls), Outside, mode = "up",
           read' = read
    PROVE  CatalogStep
  BY DropCatalog DEF CatalogStep, Outside

-----------------------------------------------------------------------------
(* Every action is of one of these kinds.                                  *)

\* The actions on session `id` that change its record.
Catalogs(id) ==
    \/ SessionRemove(id) \/ Expire(id) \/ CreateEnters(id) \/ CreateFails(id)
    \/ CreateStarts(id) \/ LinkLost(id) \/ Reconnects(id) \/ ActorEnds(id)
    \/ CloseAsleep(id) \/ WakeFindsNoLaunch(id) \/ WakeEnters(id)
    \/ WakeBegins(id) \/ HolderStarts(id) \/ WakeFails(id) \/ FinishWake(id)
    \/ Reattaches(id) \/ ReattachFails(id)

\* Those that do not.
Quiets(id) ==
    \/ CreateSpawns(id) \/ ActorGone(id) \/ WakeLooks(id) \/ WakeChecks(id)
    \/ WakeRefused(id) \/ HolderEnds(id) \/ HolderKilled(id)

LEMMA EndsStep ==
    ASSUME Types, NEW id \in Ids, Ends(id), Outside, mode = "up", read' = read
    PROVE  CatalogStep
  <1>1. CASE Update(id, "exited", handle, launch)
    BY <1>1, UpdateStep DEF Status
  <1>2. CASE Update(id, "exited", handle, launch \ {id})
    BY <1>2, UpdateStep DEF Status
  <1>3. CASE Update(id, "hibernated", handle, launch)
    BY <1>3, UpdateStep DEF Status
  <1> QED BY <1>1, <1>2, <1>3 DEF Ends

LEMMA GivesUpStep ==
    ASSUME Types, NEW id \in Ids, ReattachGivesUp(id), Outside, mode = "up",
           read' = read
    PROVE  CatalogStep
  <1>1. CASE Drop(id, launch)
    BY <1>1, DropStep
  <1>2. CASE Update(id, "hibernated", handle \cup {id}, launch)
    BY <1>2, UpdateStep DEF Status
  <1>3. CASE Update(id, "exited", handle, launch)
    BY <1>3, UpdateStep DEF Status
  <1> QED BY <1>1, <1>2, <1>3 DEF ReattachGivesUp

LEMMA CatalogsStep ==
    ASSUME Types, NEW id \in Ids, Catalogs(id)
    PROVE  CatalogStep
  <1>1. CASE SessionRemove(id)
    BY <1>1, DropStep DEF SessionRemove
  <1>2. CASE Expire(id)
    BY <1>2, DropStep DEF Expire
  <1>3. CASE CreateEnters(id)
    <2>1. PICK sealed \in SUBSET ({id} \cap Agents) :
            Update(id, "running", handle, launch \cup sealed)
      BY <1>3 DEF CreateEnters
    <2>2. Outside /\ mode = "up" /\ read' = read
      BY <1>3 DEF CreateEnters
    <2> QED BY <2>1, <2>2, UpdateStep DEF Status
  <1>4. CASE CreateFails(id)
    BY <1>4, DropStep DEF CreateFails
  <1>5. CASE CreateStarts(id)
    <2>1. Update(id, "running", handle \cup {id}, launch)
      BY <1>5 DEF CreateStarts
    <2> QED BY <1>5, <2>1, UpdateStep DEF CreateStarts, Status
  <1>6. CASE LinkLost(id)
    <2>1. Update(id, "detached", handle, launch)
      BY <1>6 DEF LinkLost
    <2> QED BY <1>6, <2>1, UpdateStep DEF LinkLost, Serves, Status
  <1>7. CASE Reconnects(id)
    <2>1. Update(id, "running", handle, launch)
      BY <1>7 DEF Reconnects
    <2> QED BY <1>7, <2>1, UpdateStep DEF Reconnects, Serves, Status
  <1>8. CASE ActorEnds(id)
    BY <1>8, EndsStep DEF ActorEnds, Serves
  <1>9. CASE CloseAsleep(id)
    <2>1. Update(id, "exited", handle, launch \ {id})
      BY <1>9 DEF CloseAsleep
    <2> QED BY <1>9, <2>1, UpdateStep DEF CloseAsleep, Serves, Status
  <1>10. CASE WakeFindsNoLaunch(id)
    <2>1. Update(id, "exited", handle, launch \ {id})
      BY <1>10 DEF WakeFindsNoLaunch
    <2> QED BY <1>10, <2>1, UpdateStep DEF WakeFindsNoLaunch, Status
  <1>11. CASE WakeEnters(id)
    <2>1. Update(id, "waking", handle \cup {id}, launch)
      BY <1>11 DEF WakeEnters
    <2> QED BY <1>11, <2>1, UpdateStep DEF WakeEnters, Status
  <1>12. CASE WakeBegins(id)
    <2>1. Update(id, "waking", handle, launch)
      BY <1>12 DEF WakeBegins
    <2> QED BY <1>12, <2>1, UpdateStep DEF WakeBegins, Serves, Status
  <1>13. CASE HolderStarts(id)
    <2>1. Update(id, "waking", handle, launch)
      BY <1>13 DEF HolderStarts
    <2> QED BY <1>13, <2>1, UpdateStep DEF HolderStarts, Serves, Status
  <1>14. CASE WakeFails(id)
    <2>1. Outside /\ mode = "up" /\ read' = read
      BY <1>14 DEF WakeFails, Serves
    <2>2. CASE Update(id, "hibernated", handle, launch)
      BY <2>1, <2>2, UpdateStep DEF Status
    <2>3. CASE Update(id, "exited", handle, launch \ {id})
      BY <2>1, <2>3, UpdateStep DEF Status
    <2> QED BY <1>14, <2>2, <2>3 DEF WakeFails
  <1>15. CASE FinishWake(id)
    <2>1. Update(id, "running", handle, launch)
      BY <1>15 DEF FinishWake
    <2> QED BY <1>15, <2>1, UpdateStep DEF FinishWake, Serves, Status
  <1>16. CASE Reattaches(id)
    <2>1. Update(id, "running", handle \cup {id}, launch)
      BY <1>16 DEF Reattaches
    <2> QED BY <1>16, <2>1, UpdateStep DEF Reattaches, Status
  <1>17. CASE ReattachFails(id)
    BY <1>17, GivesUpStep DEF ReattachFails
  <1> QED BY <1>1, <1>2, <1>3, <1>4, <1>5, <1>6, <1>7, <1>8, <1>9, <1>10,
             <1>11, <1>12, <1>13, <1>14, <1>15, <1>16, <1>17 DEF Catalogs

LEMMA QuietsStep ==
    ASSUME NEW id \in Ids, Quiets(id)
    PROVE  QuietStep
  <1> USE DEF QuietStep, catalogVars, writerVars, recoveryVars, processVars
  <1>1. CASE CreateSpawns(id)
    BY <1>1 DEF CreateSpawns
  <1>2. CASE ActorGone(id)
    BY <1>2 DEF ActorGone, Serves
  <1>3. CASE WakeLooks(id)
    BY <1>3 DEF WakeLooks
  <1>4. CASE WakeChecks(id)
    BY <1>4 DEF WakeChecks
  <1>5. CASE WakeRefused(id)
    BY <1>5 DEF WakeRefused
  <1>6. CASE HolderEnds(id)
    BY <1>6 DEF HolderEnds
  <1>7. CASE HolderKilled(id)
    BY <1>7 DEF HolderKilled
  <1> QED BY <1>1, <1>2, <1>3, <1>4, <1>5, <1>6, <1>7 DEF Quiets

LEMMA StopStep ==
    ASSUME Stop
    PROVE  QuietStep
  BY DEF Stop, TasksEnd, QuietStep, writerVars, processVars

LEMMA StutterStep ==
    ASSUME UNCHANGED vars
    PROVE  QuietStep
  BY DEF vars, QuietStep, catalogVars, writerVars, recoveryVars, processVars

-----------------------------------------------------------------------------
(* The file and the catalog.                                               *)

LEMMA NoRecordsType ==
    /\ NoRecords \in [Ids -> Status] /\ NoRecords \in [Ids -> Saved]
    /\ Shown(NoRecords) = NoRecords
  BY DEF NoRecords, Status, Saved, Shown, Persisted

LEMMA SaveInit == Init => SaveInv
  <1> SUFFICES ASSUME Init PROVE SaveInv
    OBVIOUS
  <1>1. file \in Snapshot
    BY NoRecordsType DEF Init, Snapshot
  <1>2. Types
    BY <1>1, NoRecordsType DEF Init, Types
  <1>3. WriterInv
    BY DEF Init, WriterInv, Current
  <1>4. FileShowsAll
    BY NoRecordsType DEF Init, FileShowsAll
  <1> QED BY <1>2, <1>3, <1>4 DEF SaveInv

LEMMA SaveCatalog ==
    ASSUME SaveInv, CatalogStep
    PROVE  SaveInv'
  <1> USE DEF SaveInv, CatalogStep
  <1> DEFINE new == [s |-> Shown(rec'), whole |-> read' = NoRecords]
  <1>1. new \in Snapshot /\ new.s = Shown(rec')
    BY ShownType DEF Snapshot
  <1>2. next' = {new}
    BY DEF Save
  <1> HIDE DEF new
  <1>3. Types'
    BY <1>1, <1>2 DEF Types
  <1>4. WriterInv'
    BY <1>1, <1>2 DEF WriterInv, Current, Shown
  <1>5. FileShowsAll'
    BY <1>2 DEF FileShowsAll, Flushed
  <1> QED BY <1>3, <1>4, <1>5

LEMMA SaveQuiet ==
    ASSUME SaveInv, QuietStep
    PROVE  SaveInv'
  BY DEF SaveInv, QuietStep, Types, WriterInv, Current, FileShowsAll, Flushed,
         Shown

LEMMA SaveWriterTakes ==
    ASSUME SaveInv, WriterTakes
    PROVE  SaveInv'
  BY DEF SaveInv, WriterTakes, Types, WriterInv, Current, FileShowsAll, Flushed,
         Shown, catalogVars, recoveryVars

LEMMA SaveWrites ==
    ASSUME SaveInv, Writes
    PROVE  SaveInv'
  <1> DEFINE snap == CHOOSE x \in busy : TRUE
  <1>1. snap \in busy /\ file' = snap
    BY DEF Writes
  <1> HIDE DEF snap
  <1> QED
    BY <1>1
    DEF SaveInv, Writes, Types, WriterInv, Current, FileShowsAll, Flushed,
        Shown, catalogVars, recoveryVars

LEMMA SaveWriteFails ==
    ASSUME SaveInv, WriteFails
    PROVE  SaveInv'
  BY DEF SaveInv, WriteFails, Types, WriterInv, Current, FileShowsAll, Flushed,
         Shown, catalogVars, recoveryVars

LEMMA SaveCreateAnswers ==
    ASSUME SaveInv, NEW id \in Ids, CreateAnswers(id)
    PROVE  SaveInv'
  BY DEF SaveInv, CreateAnswers, Types, WriterInv, Current, FileShowsAll,
         Flushed, Shown, catalogVars, writerVars, recoveryVars

LEMMA SaveGone ==
    ASSUME SaveInv, NEW hs, Gone(hs)
    PROVE  SaveInv'
  BY NoRecordsType
  DEF SaveInv, Gone, TasksEnd, Types, WriterInv, Current, FileShowsAll

LEMMA SaveFileDamaged ==
    ASSUME SaveInv, FileDamaged
    PROVE  SaveInv'
  BY DEF SaveInv, FileDamaged, Types, WriterInv, Current, FileShowsAll, Flushed,
         Shown, catalogVars, recoveryVars

LEMMA SaveStart ==
    ASSUME SaveInv, Start
    PROVE  SaveInv'
  <1>1. read' \in [Ids -> Saved] /\ file' \in Snapshot
    BY NoRecordsType DEF SaveInv, Types, Start, Snapshot, Saved
  <1>2. Types'
    BY <1>1 DEF SaveInv, Types, Start, catalogVars
  <1>3. WriterInv'
    BY DEF SaveInv, WriterInv, Current, Start, catalogVars
  <1>4. rec' = NoRecords /\ mode' \in {"up", "loading"}
    BY DEF SaveInv, WriterInv, Start, catalogVars
  <1>5. mode' = "up" => file'.s = NoRecords
    BY DEF Start
  <1>6. Shown(NoRecords) = NoRecords
    BY NoRecordsType
  <1>7. Shown(rec') = Shown(rec)'
    BY DEF Shown
  <1>8. FileShowsAll'
    BY <1>4, <1>5, <1>6, <1>7 DEF FileShowsAll
  <1> QED BY <1>2, <1>3, <1>8 DEF SaveInv

LEMMA LoadsFacts ==
    ASSUME Types, NEW id \in Ids, Loads(id)
    PROVE  /\ Save /\ rec' \in [Ids -> Status] /\ read' \in [Ids -> Saved]
           /\ answered' \subseteq answered
           /\ rec'[id] # "none" \/ id \notin answered'
           /\ \A i \in answered' \cap Ids : rec[i] # "none" => rec'[i] # "none"
  <1>1. PICK st \in Status \ {"none"}, hs \in {handle, handle \cup {id}} :
          Update(id, st, hs, launch)
    BY DEF Loads, Status
  <1>2. read' \in [Ids -> Saved]
    BY DEF Types, Loads, Saved
  <1> QED BY <1>1, <1>2, UpdateCatalog

LEMMA SaveLoads ==
    ASSUME SaveInv, NEW id \in Ids, Loads(id)
    PROVE  SaveInv'
  <1> DEFINE new == [s |-> Shown(rec'), whole |-> read' = NoRecords]
  <1>1. /\ next' = {new} /\ rec' \in [Ids -> Status]
        /\ read' \in [Ids -> Saved]
    BY LoadsFacts DEF SaveInv, Save
  <1>2. new \in Snapshot /\ new.s = Shown(rec')
    BY <1>1, ShownType DEF Snapshot
  <1> HIDE DEF new
  <1>3. /\ mode' \in {"up", "loading"}
        /\ busy' = busy /\ file' = file /\ failed' = failed
        /\ damaged' = damaged
    BY DEF Loads
  <1>4. Types'
    BY <1>1, <1>2, <1>3 DEF SaveInv, Types
  <1>5. WriterInv'
    BY <1>1, <1>2, <1>3 DEF WriterInv, Current, Shown
  <1>6. FileShowsAll'
    BY <1>1 DEF FileShowsAll, Flushed
  <1> QED BY <1>4, <1>5, <1>6 DEF SaveInv

\* The kinds of Next, for a goal that follows from each of them.
LEMMA NextKinds ==
    ASSUME Types, [Next]_vars
    PROVE  \/ CatalogStep \/ QuietStep
           \/ \E id \in Ids : CreateAnswers(id) \/ Loads(id)
           \/ WriterTakes \/ Writes \/ WriteFails
           \/ \E hs : Gone(hs) /\ (Ended \/ MayEnd)
           \/ FileDamaged \/ Start
  <1>1. CASE UNCHANGED vars
    BY <1>1, StutterStep
  <1>2. CASE Stop
    BY <1>2, StopStep
  <1>3. CASE Ended \/ Crash \/ Reboot
    BY <1>3 DEF Ended, Crash, Reboot
  <1>4. CASE \E id \in Ids : Catalogs(id) \/ Quiets(id)
    BY <1>4, CatalogsStep, QuietsStep
  <1>5. CASE Next
    BY <1>2, <1>3, <1>4, <1>5 DEF Next, Catalogs, Quiets
  <1> QED BY <1>1, <1>5

LEMMA SaveNext ==
    ASSUME SaveInv, [Next]_vars
    PROVE  SaveInv'
  <1>1. Types
    BY DEF SaveInv
  <1> QED
    BY <1>1, NextKinds, SaveCatalog, SaveQuiet, SaveCreateAnswers, SaveLoads,
       SaveWriterTakes, SaveWrites, SaveWriteFails, SaveGone, SaveFileDamaged,
       SaveStart

\* Once the writer is idle the state file shows every change of the catalog,
\* unless the last write failed (registry.rs flush).
THEOREM FileShowsAllHolds == Spec => []FileShowsAll
  <1>1. SaveInv => FileShowsAll
    BY DEF SaveInv
  <1> QED BY SaveInit, SaveNext, <1>1, PTL DEF Spec

-----------------------------------------------------------------------------
(* Answered sessions.                                                      *)

\* Where an answered session is known: to the catalog or among the records
\* still to be entered; in every whole snapshot on its way; and in the file,
\* if that is whole and no write failed.
AnswerInv ==
    /\ answered \subseteq Ids
    /\ mode # "loading" => read = NoRecords
    /\ damaged => mode = "down"
    /\ mode \in {"up", "stopping"} => \A i \in answered : rec[i] # "none"
    /\ mode = "loading" =>
         \A i \in answered : read[i] # "none" \/ rec[i] # "none"
    /\ mode # "down" =>
         \A i \in answered :
           /\ \A snap \in next \cup busy : snap.whole => snap.s[i] # "none"
           /\ file.whole /\ ~failed => file.s[i] # "none"
    /\ mode = "down" =>
         \A i \in answered : IF damaged THEN i \in sock ELSE file.s[i] # "none"

LEMMA AnswerInit == Init => AnswerInv
  BY DEF Init, AnswerInv

LEMMA AnswerCatalog ==
    ASSUME SaveInv, AnswerInv, CatalogStep
    PROVE  AnswerInv'
  <1> USE DEF SaveInv, CatalogStep
  <1> DEFINE new == [s |-> Shown(rec'), whole |-> read' = NoRecords]
  <1>1. next' = {new}
    BY DEF Save
  <1>2. \A i \in answered' : i \in Ids /\ rec'[i] # "none"
    BY DEF AnswerInv
  <1>3. \A i \in answered' : new.s[i] # "none"
    BY <1>2, ShownType
  <1> HIDE DEF new
  <1> QED BY <1>1, <1>2, <1>3 DEF AnswerInv

LEMMA AnswerQuiet ==
    ASSUME AnswerInv, QuietStep
    PROVE  AnswerInv'
  BY DEF AnswerInv, QuietStep

LEMMA AnswerWriterTakes ==
    ASSUME AnswerInv, WriterTakes
    PROVE  AnswerInv'
  BY DEF AnswerInv, WriterTakes, catalogVars, recoveryVars

LEMMA AnswerWrites ==
    ASSUME AnswerInv, Writes
    PROVE  AnswerInv'
  <1> DEFINE snap == CHOOSE x \in busy : TRUE
  <1>1. snap \in busy /\ file' = snap
    BY DEF Writes
  <1> HIDE DEF snap
  <1> QED BY <1>1 DEF AnswerInv, Writes, catalogVars, recoveryVars

LEMMA AnswerWriteFails ==
    ASSUME AnswerInv, WriteFails
    PROVE  AnswerInv'
  BY DEF AnswerInv, WriteFails, catalogVars, recoveryVars

LEMMA AnswerCreateAnswers ==
    ASSUME SaveInv, AnswerInv, NEW id \in Ids, CreateAnswers(id)
    PROVE  AnswerInv'
  <1> USE DEF CreateAnswers, catalogVars, writerVars, recoveryVars
  <1>1. /\ mode = "up" /\ mode' = "up" /\ next' = {} /\ busy' = {}
        /\ rec' = rec /\ file' = file /\ failed' = failed /\ read' = read
        /\ damaged' = damaged /\ next = {} /\ busy = {}
    BY DEF Flushed
  <1>2. ~failed => file.s = Shown(rec)
    BY <1>1 DEF SaveInv, FileShowsAll, Flushed
  <1>3. rec[id] # "none" => Shown(rec)[id] # "none"
    BY ShownType DEF SaveInv, Types
  <1>4. answered' = answered \/ (answered' = answered \cup {id} /\ rec[id] # "none")
    OBVIOUS
  <1> QED BY <1>1, <1>2, <1>3, <1>4 DEF AnswerInv

LEMMA AnswerLoads ==
    ASSUME SaveInv, AnswerInv, NEW id \in Ids, Loads(id)
    PROVE  AnswerInv'
  <1> DEFINE new == [s |-> Shown(rec'), whole |-> read' = NoRecords]
  <1>1. /\ next' = {new} /\ rec' \in [Ids -> Status]
        /\ answered' \subseteq answered
        /\ rec'[id] # "none" \/ id \notin answered'
        /\ \A i \in answered' \cap Ids : rec[i] # "none" => rec'[i] # "none"
    BY LoadsFacts DEF SaveInv, Save
  <1>2. /\ mode = "loading" /\ read' = [read EXCEPT ![id] = "none"]
        /\ mode' = IF read' = NoRecords THEN "up" ELSE "loading"
        /\ busy' = busy /\ file' = file /\ failed' = failed
        /\ damaged' = damaged
    BY DEF Loads
  <1>3. \A i \in answered' : i \in Ids /\ (read'[i] # "none" \/ rec'[i] # "none")
    BY <1>1, <1>2 DEF AnswerInv, SaveInv, Types
  <1>4. read' = NoRecords => \A i \in answered' : rec'[i] # "none"
    BY <1>3 DEF NoRecords
  <1>5. new.whole => \A i \in answered' : new.s[i] # "none"
    BY <1>1, <1>3, <1>4, ShownType
  <1> HIDE DEF new
  <1> QED BY <1>1, <1>2, <1>3, <1>4, <1>5 DEF AnswerInv

LEMMA AnswerGone ==
    ASSUME SaveInv, AnswerInv, ~EndsInLoad, NEW hs, Gone(hs), Ended \/ MayEnd
    PROVE  AnswerInv'
  <1>1. /\ mode' = "down" /\ read' = NoRecords /\ damaged' = damaged
        /\ file' = file
        /\ answered' = IF failed THEN {i \in answered : file.s[i] # "none"}
                       ELSE answered
    BY DEF Gone
  <1>2. mode # "down"
    BY DEF Ended, MayEnd
  <1>3. \A i \in answered' : i \in Ids /\ file.s[i] # "none"
    <2>1. CASE failed
      BY <1>1, <2>1 DEF AnswerInv
    <2>2. CASE ~failed /\ file.whole
      BY <1>1, <1>2, <2>2 DEF AnswerInv
    <2>3. CASE ~failed /\ Ended
      <3>1. file.s = Shown(rec) /\ mode = "stopping"
        BY <2>3 DEF Ended, SaveInv, FileShowsAll
      <3> QED BY <1>1, <2>3, <3>1, ShownType DEF AnswerInv, SaveInv, Types
    <2> QED BY <2>1, <2>2, <2>3 DEF MayEnd
  <1>4. ~damaged
    BY <1>2 DEF AnswerInv
  <1> QED BY <1>1, <1>3, <1>4 DEF AnswerInv

LEMMA AnswerFileDamaged ==
    ASSUME AnswerInv, FileDamaged
    PROVE  AnswerInv'
  BY DEF AnswerInv, FileDamaged, catalogVars, recoveryVars, processVars

LEMMA AnswerStart ==
    ASSUME SaveInv, AnswerInv, Start
    PROVE  AnswerInv'
  <1>1. /\ mode = "down" /\ mode' = IF read' = NoRecords THEN "up" ELSE "loading"
        /\ rec' = rec /\ next' = next /\ busy' = busy /\ answered' = answered
        /\ damaged' = FALSE /\ failed' = failed /\ next = {} /\ busy = {}
    BY DEF Start, SaveInv, WriterInv, catalogVars
  <1>2. \A i \in answered' : i \in Ids /\ read'[i] # "none"
    BY DEF Start, AnswerInv
  <1>3. read' = NoRecords => answered' = {}
    BY <1>2 DEF NoRecords
  <1>4. file'.whole => \A i \in answered' : file'.s[i] # "none"
    BY DEF Start, AnswerInv
  <1> QED BY <1>1, <1>2, <1>3, <1>4 DEF AnswerInv

LEMMA AnswerNext ==
    ASSUME SaveInv, AnswerInv, ~EndsInLoad, [Next]_vars
    PROVE  AnswerInv'
  <1>1. Types
    BY DEF SaveInv
  <1> QED
    BY <1>1, NextKinds, AnswerCatalog, AnswerQuiet, AnswerCreateAnswers,
       AnswerLoads, AnswerWriterTakes, AnswerWrites, AnswerWriteFails,
       AnswerGone, AnswerFileDamaged, AnswerStart

\* When no daemon ends while the file holds only a part of what it read, an
\* answered session is known to this daemon and to every later one.
THEOREM AnswerOutlivesHolds == ~EndsInLoad => (Spec => []AnswerOutlives)
  <1> SUFFICES ASSUME ~EndsInLoad PROVE Spec => []AnswerOutlives
    OBVIOUS
  <1>1. SaveInv /\ AnswerInv /\ [Next]_vars => SaveInv' /\ AnswerInv'
    BY SaveNext, AnswerNext
  <1>2. SaveInv /\ AnswerInv => AnswerOutlives
    BY DEF SaveInv, Types, AnswerInv, AnswerOutlives, Known
  <1> QED BY SaveInit, AnswerInit, <1>1, <1>2, PTL DEF Spec

-----------------------------------------------------------------------------
(* The queue of exited sessions.                                           *)

\* Taking one element out of a sequence that holds each once.
LEMMA RemoveAtFacts ==
    ASSUME NEW S, NEW q \in Seq(S), NEW k \in 1..Len(q)
    PROVE  /\ RemoveAt(q, k) \in Seq(S)
           /\ Len(RemoveAt(q, k)) = Len(q) - 1
           /\ \A i \in 1..(Len(q) - 1) :
                RemoveAt(q, k)[i] = IF i < k THEN q[i] ELSE q[i + 1]
  <1> DEFINE a == SubSeq(q, 1, k - 1)
             b == SubSeq(q, k + 1, Len(q))
  <1>1. /\ a \in Seq(S) /\ Len(a) = k - 1 /\ \A i \in 1..(k - 1) : a[i] = q[i]
    OBVIOUS
  <1>2. /\ b \in Seq(S) /\ Len(b) = Len(q) - k
        /\ \A i \in 1..(Len(q) - k) : b[i] = q[k + i]
    OBVIOUS
  <1>3. RemoveAt(q, k) = a \o b
    BY DEF RemoveAt
  <1> HIDE DEF a, b
  <1>4. Len(a \o b) = Len(q) - 1 /\ a \o b \in Seq(S)
    <2>0. a \in Seq(S) /\ b \in Seq(S)
      BY <1>1, <1>2
    <2>1. a \o b \in Seq(S) /\ Len(a \o b) = Len(a) + Len(b)
      BY <2>0
    <2>2. Len(q) \in Nat /\ (k - 1) + (Len(q) - k) = Len(q) - 1
      OBVIOUS
    <2> QED BY <1>1, <1>2, <2>1, <2>2
  <1>5. ASSUME NEW i \in 1..(Len(q) - 1)
        PROVE  (a \o b)[i] = IF i < k THEN q[i] ELSE q[i + 1]
    <2>1. CASE i < k
      BY <1>1, <1>2, <2>1
    <2>2. CASE ~(i < k)
      <3>1. (a \o b)[i] = b[i - (k - 1)]
        BY <1>1, <1>2, <2>2
      <3>2. i - (k - 1) \in 1..(Len(q) - k)
        BY <2>2
      <3>3. b[i - (k - 1)] = q[k + (i - (k - 1))]
        BY <1>2, <3>2
      <3>4. k + (i - (k - 1)) = i + 1
        OBVIOUS
      <3> QED BY <2>2, <3>1, <3>3, <3>4
    <2> QED BY <2>1, <2>2
  <1> QED BY <1>3, <1>4, <1>5

LEMMA WithoutFacts ==
    ASSUME NEW S, NEW q \in Seq(S), NEW id, IsInjective(q)
    PROVE  /\ Without(q, id) \in Seq(S) /\ IsInjective(Without(q, id))
           /\ ToSet(Without(q, id)) = ToSet(q) \ {id}
           /\ Len(Without(q, id)) <= Len(q)
  <1>1. CASE ~Contains(q, id)
    <2>1. Without(q, id) = q
      BY <1>1 DEF Without
    <2>2. id \notin ToSet(q)
      BY <1>1 DEF ToSet, Contains
    <2> QED BY <2>1, <2>2
  <1>2. CASE Contains(q, id)
    <2> DEFINE k == CHOOSE i \in 1..Len(q) : q[i] = id
               r == RemoveAt(q, k)
    <2>1. k \in 1..Len(q) /\ q[k] = id
      BY <1>2 DEF Contains
    <2>2. Without(q, id) = r
      BY <1>2 DEF Without
    <2> HIDE DEF k
    <2>3. /\ r \in Seq(S) /\ Len(r) = Len(q) - 1 /\ Len(q) \in Nat
          /\ \A i \in 1..Len(r) : r[i] = IF i < k THEN q[i] ELSE q[i + 1]
      BY <2>1, RemoveAtFacts
    <2> HIDE DEF r
    <2>4. \A i, j \in 1..Len(q) : q[i] = q[j] => i = j
      BY DEF IsInjective
    <2>5. IsInjective(r)
      <3>1. SUFFICES ASSUME NEW i \in 1..Len(r), NEW j \in 1..Len(r),
                            r[i] = r[j]
                     PROVE  i = j
        BY <2>3 DEF IsInjective
      <3> QED BY <2>1, <2>3, <2>4, <3>1
    <2>6. ToSet(r) = ToSet(q) \ {id}
      <3>1. ASSUME NEW x \in ToSet(r) PROVE x \in ToSet(q) \ {id}
        <4>1. PICK i \in 1..Len(r) : x = r[i]
          BY <2>3, <3>1 DEF ToSet
        <4>2. PICK j \in 1..Len(q) : x = q[j] /\ j # k
          BY <2>1, <2>3, <4>1
        <4> QED BY <2>1, <2>4, <4>2 DEF ToSet
      <3>2. ASSUME NEW x \in ToSet(q) \ {id} PROVE x \in ToSet(r)
        <4>1. PICK j \in 1..Len(q) : x = q[j] /\ j # k
          BY <2>1, <3>2 DEF ToSet
        <4>2. PICK i \in 1..Len(r) : x = r[i]
          <5>1. CASE j < k
            BY <2>1, <2>3, <4>1, <5>1
          <5>2. CASE j > k
            <6>1. j - 1 \in 1..Len(r) /\ ~(j - 1 < k) /\ (j - 1) + 1 = j
              BY <2>1, <2>3, <4>1, <5>2
            <6> QED BY <2>3, <4>1, <6>1
          <5> QED BY <2>1, <4>1, <5>1, <5>2
        <4> QED BY <2>3, <4>2 DEF ToSet
      <3> QED BY <3>1, <3>2
    <2> QED BY <2>2, <2>3, <2>5, <2>6
  <1> QED BY <1>1, <1>2

\* Adding one that is not in it.
LEMMA AppendFacts ==
    ASSUME NEW S, NEW q \in Seq(S), NEW id \in S, IsInjective(q),
           ~Contains(q, id)
    PROVE  /\ Append(q, id) \in Seq(S) /\ IsInjective(Append(q, id))
           /\ ToSet(Append(q, id)) = ToSet(q) \cup {id}
           /\ Len(Append(q, id)) = Len(q) + 1
  <1> DEFINE r == Append(q, id)
  <1>1. /\ r \in Seq(S) /\ Len(r) = Len(q) + 1 /\ Len(q) \in Nat
        /\ \A i \in 1..Len(q) : r[i] = q[i]
        /\ r[Len(q) + 1] = id
    OBVIOUS
  <1> HIDE DEF r
  <1>2. 1..Len(r) = 1..Len(q) \cup {Len(q) + 1}
    BY <1>1
  <1>3. \A i \in 1..Len(q) : q[i] # id
    BY DEF Contains
  <1>4. \A i, j \in 1..Len(q) : q[i] = q[j] => i = j
    BY DEF IsInjective
  <1>5. DOMAIN r = 1..Len(r) /\ DOMAIN q = 1..Len(q)
    BY <1>1
  <1>6. IsInjective(r)
    BY <1>1, <1>2, <1>3, <1>4, <1>5 DEF IsInjective
  <1>7. ToSet(r) = ToSet(q) \cup {id}
    BY <1>1, <1>2, <1>5 DEF ToSet
  <1> QED BY <1>1, <1>6, <1>7 DEF r

\* Forgetting the oldest.
LEMMA TailFacts ==
    ASSUME NEW S, NEW q \in Seq(S), IsInjective(q), Len(q) > 0
    PROVE  /\ Tail(q) \in Seq(S) /\ IsInjective(Tail(q)) /\ Head(q) \in ToSet(q)
           /\ ToSet(Tail(q)) = ToSet(q) \ {Head(q)}
           /\ Len(Tail(q)) = Len(q) - 1
  <1> DEFINE r == Tail(q)
  <1>1. /\ r \in Seq(S) /\ Len(r) = Len(q) - 1 /\ Len(q) \in Nat
        /\ \A i \in 1..Len(r) : r[i] = q[i + 1]
        /\ Head(q) = q[1] /\ 1 \in 1..Len(q)
    OBVIOUS
  <1> HIDE DEF r
  <1>2. \A i, j \in 1..Len(q) : q[i] = q[j] => i = j
    BY DEF IsInjective
  <1>3. DOMAIN r = 1..Len(r) /\ DOMAIN q = 1..Len(q)
    BY <1>1
  <1>4. \A i \in 1..Len(r) : i + 1 \in 1..Len(q) /\ i + 1 # 1
    BY <1>1
  <1>5. IsInjective(r)
    BY <1>1, <1>2, <1>3, <1>4 DEF IsInjective
  <1>6. ToSet(r) = ToSet(q) \ {Head(q)}
    <2>1. ASSUME NEW x \in ToSet(r) PROVE x \in ToSet(q) \ {Head(q)}
      <3>1. PICK i \in 1..Len(r) : x = r[i]
        BY <1>3, <2>1 DEF ToSet
      <3>2. x = q[i + 1] /\ i + 1 \in 1..Len(q) /\ i + 1 # 1
        BY <1>1, <1>4, <3>1
      <3>3. x # q[1]
        BY <1>1, <1>2, <3>2
      <3> QED BY <1>1, <1>3, <3>2, <3>3 DEF ToSet
    <2>2. ASSUME NEW x \in ToSet(q) \ {Head(q)} PROVE x \in ToSet(r)
      <3>1. PICK j \in 1..Len(q) : x = q[j] /\ j # 1
        BY <1>1, <1>3, <2>2 DEF ToSet
      <3>2. j - 1 \in 1..Len(r) /\ (j - 1) + 1 = j
        BY <1>1, <3>1
      <3>3. x = r[j - 1]
        BY <1>1, <3>1, <3>2
      <3> QED BY <1>3, <3>2, <3>3 DEF ToSet
    <2> QED BY <2>1, <2>2
  <1> QED BY <1>1, <1>3, <1>5, <1>6 DEF r, ToSet

-----------------------------------------------------------------------------
(* The catalog and the queue.                                              *)

\* The queue holds each exited record once, and never too many.
QueueInv ==
    /\ exited \in Seq(Ids) /\ IsInjective(exited) /\ Len(exited) <= MaxExited
    /\ ToSet(exited) = {i \in Ids : rec[i] = "exited"}

HandleInv == handle \subseteq Ids /\ \A i \in handle : rec[i] # "none"

\* The record of `id` gets status st ("none": it goes); the queue of exited
\* records may push another one out, or this one where st is "exited".
Change(id, st, hs) ==
    /\ rec'[id] = st \/ (st = "exited" /\ rec'[id] = "none")
    /\ \A i \in Ids \ {id} :
         rec'[i] = rec[i] \/ (rec[i] = "exited" /\ rec'[i] = "none")
    /\ rec' \in [Ids -> Status] /\ QueueInv'
    /\ handle' \subseteq hs /\ (\A i \in handle' : rec'[i] # "none")
    /\ launch' \subseteq launch \cup {id} /\ answered' \subseteq answered
    /\ next' = {[s |-> Shown(rec'), whole |-> read' = NoRecords]}

LEMMA QueueFacts ==
    ASSUME Types, QueueInv, NEW id \in Ids, NEW st \in Status \ {"none"}
    PROVE  /\ Queue(id, st) \in Seq(Ids) /\ IsInjective(Queue(id, st))
           /\ Len(Queue(id, st)) <= MaxExited + 1
           /\ ToSet(Queue(id, st)) =
                {i \in Ids : i # id /\ rec[i] = "exited"}
                  \cup (IF st = "exited" THEN {id} ELSE {})
  <1> DEFINE q == Queue(id, st)
  <1>0. Len(exited) \in Nat /\ MaxExited \in Nat
    BY BoundsAssumption DEF QueueInv
  <1>1. CASE st # "exited"
    <2>1. q = Without(exited, id)
      BY <1>1 DEF Queue
    <2>2. /\ q \in Seq(Ids) /\ IsInjective(q) /\ Len(q) <= Len(exited)
          /\ ToSet(q) = ToSet(exited) \ {id}
      BY <2>1, WithoutFacts DEF QueueInv
    <2>3. Len(q) \in Nat
      BY <2>2
    <2>4. ToSet(q) = {i \in Ids : i # id /\ rec[i] = "exited"}
      BY <2>2 DEF QueueInv
    <2> HIDE DEF q
    <2>5. Len(q) <= MaxExited + 1
      BY <1>0, <2>2, <2>3 DEF QueueInv
    <2> QED BY <1>1, <2>2, <2>4, <2>5 DEF q
  <1>2. CASE st = "exited" /\ ~Contains(exited, id)
    <2>1. q = Append(exited, id)
      BY <1>2 DEF Queue
    <2>2. /\ q \in Seq(Ids) /\ IsInjective(q) /\ Len(q) = Len(exited) + 1
          /\ ToSet(q) = ToSet(exited) \cup {id}
      <3>1. exited \in Seq(Ids) /\ IsInjective(exited)
        BY DEF QueueInv
      <3>2. /\ Append(exited, id) \in Seq(Ids)
            /\ IsInjective(Append(exited, id))
            /\ Len(Append(exited, id)) = Len(exited) + 1
            /\ ToSet(Append(exited, id)) = ToSet(exited) \cup {id}
        BY <1>2, <3>1, AppendFacts
      <3> QED BY <2>1, <3>2
    <2>3. ToSet(q) = {i \in Ids : i # id /\ rec[i] = "exited"} \cup {id}
      BY <2>2 DEF QueueInv
    <2> HIDE DEF q
    <2>4. Len(q) <= MaxExited + 1
      BY <1>0, <2>2 DEF QueueInv
    <2> QED BY <1>2, <2>2, <2>3, <2>4 DEF q
  <1>3. CASE st = "exited" /\ Contains(exited, id)
    <2>1. q = exited
      BY <1>3 DEF Queue
    <2>2. id \in ToSet(exited)
      BY <1>3 DEF Contains, ToSet, QueueInv
    <2>3. ToSet(q) = {i \in Ids : i # id /\ rec[i] = "exited"} \cup {id}
      BY <2>1, <2>2 DEF QueueInv
    <2> QED BY <1>0, <1>3, <2>1, <2>3 DEF QueueInv
  <1> QED BY <1>1, <1>2, <1>3

LEMMA UpdateChange ==
    ASSUME Types, QueueInv, HandleInv, NEW id \in Ids,
           NEW st \in Status \ {"none"}, NEW hs, NEW ls, Update(id, st, hs, ls),
           hs \in {handle, handle \cup {id}}, ls \subseteq launch \cup {id}
    PROVE  Change(id, st, hs)
  <1> DEFINE q == Queue(id, st)
             old == Prunes(q)
  <1>1. /\ exited' = IF old = {} THEN q ELSE Tail(q)
        /\ rec' = [i \in Ids |-> IF i \in old THEN "none"
                                 ELSE IF i = id THEN st ELSE rec[i]]
        /\ handle' = hs \ old /\ launch' = ls \ old
        /\ answered' = answered \ old /\ Save
    BY DEF Update
  <1>2. /\ q \in Seq(Ids) /\ IsInjective(q) /\ Len(q) <= MaxExited + 1
        /\ ToSet(q) = {i \in Ids : i # id /\ rec[i] = "exited"}
                        \cup (IF st = "exited" THEN {id} ELSE {})
    BY QueueFacts
  <1>3. old = IF Len(q) > MaxExited THEN {Head(q)} ELSE {}
    BY DEF Prunes
  <1> HIDE DEF q, old
  <1>4. Len(q) \in Nat /\ MaxExited \in Nat
    BY <1>2, BoundsAssumption
  <1>5. Len(q) > MaxExited =>
          /\ Tail(q) \in Seq(Ids) /\ IsInjective(Tail(q))
          /\ Head(q) \in ToSet(q) /\ ToSet(Tail(q)) = ToSet(q) \ {Head(q)}
          /\ Len(Tail(q)) = Len(q) - 1
    BY <1>2, <1>4, TailFacts
  <1>6. old \subseteq ToSet(q)
    BY <1>3, <1>5
  <1>7. rec' \in [Ids -> Status]
    BY <1>1 DEF Types, Status
  <1>8. \A i \in Ids : rec'[i] = IF i \in old THEN "none"
                                 ELSE IF i = id THEN st ELSE rec[i]
    BY <1>1
  <1>9. /\ rec'[id] = st \/ (st = "exited" /\ rec'[id] = "none")
        /\ \A i \in Ids \ {id} :
             rec'[i] = rec[i] \/ (rec[i] = "exited" /\ rec'[i] = "none")
    BY <1>2, <1>6, <1>8
  <1>10. exited' \in Seq(Ids) /\ IsInjective(exited') /\ Len(exited') <= MaxExited
    <2>1. CASE old = {}
      <3>1. exited' = q /\ ~(Len(q) > MaxExited)
        BY <1>1, <1>3, <2>1
      <3>2. Len(q) <= MaxExited
        BY <1>4, <3>1
      <3> QED BY <1>2, <3>1, <3>2
    <2>2. CASE old # {}
      <3>1. exited' = Tail(q) /\ Len(q) > MaxExited
        BY <1>1, <1>3, <2>2
      <3>2. Len(q) - 1 <= MaxExited
        BY <1>2, <1>4
      <3> QED BY <1>5, <3>1, <3>2
    <2> QED BY <2>1, <2>2
  <1>11. ToSet(exited') = ToSet(q) \ old
    BY <1>1, <1>3, <1>5
  <1>12. {i \in Ids : rec'[i] = "exited"} = ToSet(q) \ old
    BY <1>2, <1>8
  <1>13. QueueInv'
    BY <1>10, <1>11, <1>12 DEF QueueInv
  <1>14. \A i \in handle' : rec'[i] # "none"
    BY <1>1, <1>8 DEF HandleInv
  <1>15. /\ handle' \subseteq hs /\ launch' \subseteq launch \cup {id}
         /\ answered' \subseteq answered
    BY <1>1
  <1>16. next' = {[s |-> Shown(rec'), whole |-> read' = NoRecords]}
    BY <1>1 DEF Save
  <1> QED BY <1>7, <1>9, <1>13, <1>14, <1>15, <1>16 DEF Change

LEMMA DropChange ==
    ASSUME Types, QueueInv, HandleInv, NEW id \in Ids,
           NEW ls \in SUBSET (launch \cup {id}), Drop(id, ls),
           \/ exited' = Without(exited, id)
           \/ exited' = exited /\ rec[id] # "exited"
    PROVE  Change(id, "none", handle)
  <1>1. /\ rec' = [rec EXCEPT ![id] = "none"] /\ handle' = handle \ {id}
        /\ launch' = ls /\ answered' = answered \ {id} /\ Save
    BY DEF Drop
  <1>2. rec' \in [Ids -> Status] /\ rec'[id] = "none"
        /\ \A i \in Ids \ {id} : rec'[i] = rec[i]
    BY <1>1 DEF Types, Status
  <1>3. {i \in Ids : rec'[i] = "exited"} = {i \in Ids : rec[i] = "exited"} \ {id}
    BY <1>2
  <1>4. exited' \in Seq(Ids) /\ IsInjective(exited') /\ Len(exited') <= Len(exited)
        /\ ToSet(exited') = ToSet(exited) \ {id}
    <2>1. CASE exited' = Without(exited, id)
      BY <2>1, WithoutFacts DEF QueueInv
    <2>2. CASE exited' = exited /\ rec[id] # "exited"
      BY <2>2, BoundsAssumption DEF QueueInv
    <2> QED BY <2>1, <2>2
  <1>5. Len(exited) \in Nat /\ Len(exited') \in Nat /\ MaxExited \in Nat
    BY <1>4, BoundsAssumption DEF QueueInv
  <1>6. Len(exited') <= MaxExited
    BY <1>4, <1>5 DEF QueueInv
  <1>7. QueueInv'
    BY <1>3, <1>4, <1>6 DEF QueueInv
  <1>8. next' = {[s |-> Shown(rec'), whole |-> read' = NoRecords]}
    BY <1>1 DEF Save
  <1> QED BY <1>1, <1>2, <1>7, <1>8 DEF Change, HandleInv

-----------------------------------------------------------------------------
(* Who may do what to a record.                                            *)

KeptTypes ==
    /\ launch \subseteq Ids /\ answered \subseteq Ids
    /\ Cardinality(next) <= 1 /\ Cardinality(busy) <= 1

CallTypes ==
    /\ create \in [Ids -> {"no", "entered", "spawned", "flushing", "over"}]
    /\ call \in [id : 0..NIds, at : {"idle", "looked", "checked"}]
    /\ start \subseteq Ids /\ pending \subseteq Ids /\ probed \subseteq Ids
    /\ sock \subseteq Ids /\ holder \in [Ids -> {"none", "live", "ended"}]
    /\ starts \in 0..(MaxStarts + 1) /\ faults \in 0..MaxFaults
    /\ missed \subseteq Ids

\* Nothing knows of a session that was not created yet.
Untouched ==
    \A i \in Ids : create[i] = "no" =>
        /\ rec[i] = "none" /\ read[i] = "none" /\ file.s[i] = "none"
        /\ \A snap \in next \cup busy : snap.s[i] = "none"
        /\ i \notin launch /\ i \notin sock /\ holder[i] = "none"
        /\ call.id # i

\* While a session is created its record is left alone.
Creating ==
    \A i \in Ids : create[i] \in {"entered", "spawned"} =>
        rec[i] = "running" /\ i \notin handle

\* And while it waits for its holder after a restart.
Pends ==
    \A i \in pending :
        /\ rec[i] = "detached" /\ i \notin handle
        /\ mode \in {"loading", "up"}

\* A record that is still to be entered is not in the catalog.
Unread == \A i \in Ids : read[i] # "none" => rec[i] = "none" /\ mode = "loading"

\* A wake call has in hand a record that sleeps or ended, or is gone.
Calls ==
    call.id # 0 => rec[call.id] \in {"none", "exited", "hibernated"}

\* A holder is started for a session that wakes.
Starting == \A i \in start : rec[i] = "waking"

OnlyUp ==
    mode # "up" =>
        /\ \A i \in Ids : create[i] \in {"no", "over"}
        /\ call.id = 0 /\ start = {}

Who ==
    /\ Untouched /\ Creating /\ Pends /\ Unread /\ Calls /\ Starting
    /\ OnlyUp

RecordInv == QueueInv /\ HandleInv /\ KeptTypes /\ CallTypes /\ Who

\* The change of the catalog that each action makes.
LEMMA CatalogChanges ==
    ASSUME Types, RecordInv, NEW id \in Ids
    PROVE  /\ SessionRemove(id) \/ Expire(id) \/ CreateFails(id)
                => Change(id, "none", handle)
           /\ CreateEnters(id) \/ Reconnects(id) \/ FinishWake(id)
                => Change(id, "running", handle)
           /\ CreateStarts(id) \/ Reattaches(id)
                => Change(id, "running", handle \cup {id})
           /\ LinkLost(id) => Change(id, "detached", handle)
           /\ ActorEnds(id) \/ WakeFails(id)
                => \E st \in {"exited", "hibernated"} : Change(id, st, handle)
           /\ CloseAsleep(id) \/ WakeFindsNoLaunch(id)
                => Change(id, "exited", handle)
           /\ WakeEnters(id) => Change(id, "waking", handle \cup {id})
           /\ WakeBegins(id) \/ HolderStarts(id) => Change(id, "waking", handle)
           /\ ReattachFails(id)
                => \E st \in {"none", "exited", "hibernated"},
                      hs \in {handle, handle \cup {id}} : Change(id, st, hs)
           /\ Loads(id)
                => /\ read[id] = "running" => Change(id, "detached", handle)
                   /\ read[id] # "running" =>
                        \E st \in {"exited", "hibernated"},
                           hs \in {handle, handle \cup {id}} : Change(id, st, hs)
  <1>0. QueueInv /\ HandleInv
    BY DEF RecordInv
  <1>a. {"running", "detached", "waking", "hibernated", "exited"}
          = Status \ {"none"}
    BY DEF Status
  <1>b. /\ launch \subseteq launch \cup {id}
        /\ launch \ {id} \subseteq launch \cup {id}
        /\ \A sealed \in SUBSET ({id} \cap Agents) :
             launch \cup sealed \subseteq launch \cup {id}
    OBVIOUS
  <1>c. \A st \in Status \ {"none"}, hs \in {handle, handle \cup {id}} :
          \A ls : Update(id, st, hs, ls) /\ ls \subseteq launch \cup {id}
                    => Change(id, st, hs)
    BY <1>0, UpdateChange
  <1>d. \A st \in Status \ {"none"}, hs \in {handle, handle \cup {id}} :
          Update(id, st, hs, launch) \/ Update(id, st, hs, launch \ {id})
            => Change(id, st, hs)
    BY <1>b, <1>c
  <1>e. \A st \in Status \ {"none"} :
          /\ Update(id, st, handle, launch) \/ Update(id, st, handle, launch \ {id})
               => Change(id, st, handle)
          /\ Update(id, st, handle \cup {id}, launch)
               => Change(id, st, handle \cup {id})
    BY <1>d
  <1>1. SessionRemove(id) \/ Expire(id) => Change(id, "none", handle)
    BY <1>0, DropChange DEF SessionRemove, Expire
  <1>2. CreateFails(id) => Change(id, "none", handle)
    BY <1>0, DropChange DEF CreateFails, RecordInv, Who, Creating
  <1>3. CreateEnters(id) => Change(id, "running", handle)
    BY <1>a, <1>b, <1>c DEF CreateEnters
  <1>4. Reconnects(id) \/ FinishWake(id) => Change(id, "running", handle)
    BY <1>a, <1>e DEF Reconnects, FinishWake
  <1>5. CreateStarts(id) \/ Reattaches(id)
          => Change(id, "running", handle \cup {id})
    BY <1>a, <1>e DEF CreateStarts, Reattaches
  <1>6. LinkLost(id) => Change(id, "detached", handle)
    BY <1>a, <1>e DEF LinkLost
  <1>7. ActorEnds(id) \/ WakeFails(id)
          => \E st \in {"exited", "hibernated"} : Change(id, st, handle)
    BY <1>a, <1>e DEF ActorEnds, Ends, WakeFails
  <1>8. CloseAsleep(id) \/ WakeFindsNoLaunch(id) => Change(id, "exited", handle)
    BY <1>a, <1>e DEF CloseAsleep, WakeFindsNoLaunch
  <1>9. WakeEnters(id) => Change(id, "waking", handle \cup {id})
    BY <1>a, <1>e DEF WakeEnters
  <1>10. WakeBegins(id) \/ HolderStarts(id) => Change(id, "waking", handle)
    BY <1>a, <1>e DEF WakeBegins, HolderStarts
  <1>11. ReattachFails(id)
           => \E st \in {"none", "exited", "hibernated"},
                 hs \in {handle, handle \cup {id}} : Change(id, st, hs)
    <2>1. ASSUME ReattachFails(id), exited' = exited,
                 Drop(id, launch)
          PROVE  Change(id, "none", handle)
      BY <1>0, <2>1, DropChange DEF ReattachFails, RecordInv, Who, Pends
    <2> QED BY <1>a, <1>e, <2>1 DEF ReattachFails, ReattachGivesUp
  <1>12. Loads(id)
           => /\ read[id] = "running" => Change(id, "detached", handle)
              /\ read[id] # "running" =>
                   \E st \in {"exited", "hibernated"},
                      hs \in {handle, handle \cup {id}} : Change(id, st, hs)
    BY <1>a, <1>e DEF Loads
  <1> QED BY <1>1, <1>2, <1>3, <1>4, <1>5, <1>6, <1>7, <1>8, <1>9, <1>10,
             <1>11, <1>12

-----------------------------------------------------------------------------
(* Who may do what is kept.                                                *)

\* Nothing is done to session i.
LeftAlone(i) ==
    /\ create'[i] = create[i] /\ holder'[i] = holder[i]
    /\ i \in pending' => i \in pending
    /\ i \in start' => i \in start
    /\ i \in sock' => i \in sock

\* What may be done to the session whose record gets status st, where the
\* actors are `hs` then.
Allowed(id, st, hs) ==
    /\ mode = "up" /\ mode' = "up" /\ UNCHANGED <<read, busy, file>>
    /\ \A i \in Ids \ {id} : LeftAlone(i)
    /\ create'[id] # "no"
    /\ create'[id] \in {"entered", "spawned"} => st = "running" /\ id \notin hs
    /\ id \notin pending' /\ (id \in start' => st = "waking")
    /\ call' \in {call, NoCall}
    /\ call' = call /\ call.id = id
         => st \in {"none", "exited", "hibernated"}
    /\ pending' \subseteq Ids /\ start' \subseteq Ids

LEMMA WhoChanges ==
    ASSUME Types, RecordInv, NEW id \in Ids, NEW st,
           NEW hs \in {handle, handle \cup {id}}, Change(id, st, hs),
           Allowed(id, st, hs)
    PROVE  Who'
  <1> USE DEF RecordInv, Who, LeftAlone, Allowed
  <1>1. /\ rec'[id] = st \/ (st = "exited" /\ rec'[id] = "none")
        /\ \A i \in Ids \ {id} :
             rec'[i] = rec[i] \/ (rec[i] = "exited" /\ rec'[i] = "none")
        /\ handle' \subseteq hs /\ launch' \subseteq launch \cup {id}
        /\ next' = {[s |-> Shown(rec'), whole |-> read' = NoRecords]}
    BY DEF Change
  <1>2. Untouched'
    <2>1. SUFFICES ASSUME NEW i \in Ids, create'[i] = "no"
                   PROVE  /\ rec'[i] = "none" /\ read'[i] = "none"
                          /\ file'.s[i] = "none"
                          /\ \A snap \in next' \cup busy' : snap.s[i] = "none"
                          /\ i \notin launch' /\ i \notin sock'
                          /\ holder'[i] = "none" /\ call'.id # i
      BY DEF Untouched
    <2>2. i # id /\ create[i] = "no"
      BY <2>1
    <2>3. rec'[i] = "none"
      BY <1>1, <2>2 DEF Untouched
    <2>4. Shown(rec')[i] = "none"
      BY <2>3 DEF Shown, Persisted
    <2>5. \A snap \in next' : snap.s[i] = "none"
      BY <1>1, <2>4
    <2>6. i # 0
      BY DEF Ids
    <2> QED BY <1>1, <2>2, <2>3, <2>5, <2>6 DEF Untouched, NoCall
  <1>3. Creating'
    BY <1>1 DEF Creating
  <1>4. Pends'
    BY <1>1 DEF Pends
  <1>5. Calls'
    BY <1>1 DEF Calls, NoCall, CallTypes, Untouched, Ids
  <1>6. Starting'
    BY <1>1 DEF Starting
  <1>7. OnlyUp'
    BY DEF OnlyUp
  <1>8. Unread'
    BY DEF Unread
  <1> QED BY <1>2, <1>3, <1>4, <1>5, <1>6, <1>7, <1>8

LEMMA WhoCatalogs ==
    ASSUME Types, RecordInv, NEW id \in Ids, Catalogs(id)
    PROVE  Who'
  <1> USE DEF Outside, callVars, processVars, Serves, LeftAlone, Allowed
  <1>0. /\ create \in [Ids -> {"no", "entered", "spawned", "flushing", "over"}]
        /\ call \in [id : 0..NIds, at : {"idle", "looked", "checked"}]
        /\ pending \subseteq Ids /\ start \subseteq Ids
        /\ holder \in [Ids -> {"none", "live", "ended"}]
        /\ Untouched /\ Creating /\ Pends /\ Unread /\ Calls /\ Starting /\ HandleInv
    BY DEF RecordInv, Who, CallTypes
  <1>a. rec[id] # "none" \/ call.id = id => create[id] # "no"
    BY <1>0 DEF Untouched
  <1>b. id # 0
    BY DEF Ids
  <1>c. call.id = id => rec[id] \in {"none", "exited", "hibernated"}
    BY <1>0, <1>b DEF Calls
  <1>1. CASE SessionRemove(id)
    <2>1. Allowed(id, "none", handle)
      BY <1>0, <1>a, <1>b, <1>c, <1>1
      DEF SessionRemove, Creating, Pends, Starting
    <2>2. Change(id, "none", handle)
      BY <1>1, CatalogChanges
    <2> HIDE DEF Allowed
    <2> QED BY <2>1, <2>2, WhoChanges
  <1>2. CASE Expire(id)
    <2>1. Allowed(id, "none", handle)
      BY <1>0, <1>a, <1>b, <1>c, <1>2
      DEF Expire, Creating, Pends, Starting
    <2>2. Change(id, "none", handle)
      BY <1>2, CatalogChanges
    <2> HIDE DEF Allowed
    <2> QED BY <2>1, <2>2, WhoChanges
  <1>3. CASE CreateEnters(id)
    <2>1. Allowed(id, "running", handle)
      BY <1>0, <1>a, <1>b, <1>c, <1>3
      DEF CreateEnters, Untouched, Pends, Starting, HandleInv
    <2>2. Change(id, "running", handle)
      BY <1>3, CatalogChanges
    <2> HIDE DEF Allowed
    <2> QED BY <2>1, <2>2, WhoChanges
  <1>4. CASE CreateFails(id)
    <2>1. Allowed(id, "none", handle)
      BY <1>0, <1>a, <1>b, <1>c, <1>4
      DEF CreateFails, Creating, Pends, Starting
    <2>2. Change(id, "none", handle)
      BY <1>4, CatalogChanges
    <2> HIDE DEF Allowed
    <2> QED BY <2>1, <2>2, WhoChanges
  <1>5. CASE CreateStarts(id)
    <2>1. Allowed(id, "running", handle \cup {id})
      BY <1>0, <1>a, <1>b, <1>c, <1>5
      DEF CreateStarts, Creating, Pends, Starting
    <2>2. Change(id, "running", handle \cup {id})
      BY <1>5, CatalogChanges
    <2> HIDE DEF Allowed
    <2> QED BY <2>1, <2>2, WhoChanges
  <1>6. CASE LinkLost(id)
    <2>1. Allowed(id, "detached", handle)
      BY <1>0, <1>a, <1>b, <1>c, <1>6
      DEF LinkLost, Creating, Pends, Starting
    <2>2. Change(id, "detached", handle)
      BY <1>6, CatalogChanges
    <2> HIDE DEF Allowed
    <2> QED BY <2>1, <2>2, WhoChanges
  <1>7. CASE Reconnects(id)
    <2>1. Allowed(id, "running", handle)
      BY <1>0, <1>a, <1>b, <1>c, <1>7
      DEF Reconnects, Creating, Pends, Starting
    <2>2. Change(id, "running", handle)
      BY <1>7, CatalogChanges
    <2> HIDE DEF Allowed
    <2> QED BY <2>1, <2>2, WhoChanges
  <1>8. CASE ActorEnds(id)
    <2>1. PICK st \in {"exited", "hibernated"} : Change(id, st, handle)
      BY <1>8, CatalogChanges
    <2>2. Allowed(id, st, handle)
      BY <1>0, <1>a, <1>b, <1>c, <1>8, <2>1
      DEF ActorEnds, Creating, Pends, Starting
    <2> HIDE DEF Allowed
    <2> QED BY <2>1, <2>2, WhoChanges
  <1>9. CASE CloseAsleep(id)
    <2>1. Allowed(id, "exited", handle)
      BY <1>0, <1>a, <1>b, <1>c, <1>9
      DEF CloseAsleep, Creating, Pends, Starting
    <2>2. Change(id, "exited", handle)
      BY <1>9, CatalogChanges
    <2> HIDE DEF Allowed
    <2> QED BY <2>1, <2>2, WhoChanges
  <1>10. CASE WakeFindsNoLaunch(id)
    <2>1. Allowed(id, "exited", handle)
      BY <1>0, <1>a, <1>b, <1>c, <1>10
      DEF WakeFindsNoLaunch, Creating, Pends, Starting
    <2>2. Change(id, "exited", handle)
      BY <1>10, CatalogChanges
    <2> HIDE DEF Allowed
    <2> QED BY <2>1, <2>2, WhoChanges
  <1>11. CASE WakeEnters(id)
    <2>1. Allowed(id, "waking", handle \cup {id})
      <3>1. call.id = id /\ call' = NoCall /\ NoCall.id = 0
        BY <1>11 DEF WakeEnters, NoCall
      <3>2. call' # call
        BY <1>b, <3>1
      <3> QED
        BY <1>0, <1>a, <1>b, <1>c, <1>11, <3>1, <3>2
        DEF WakeEnters, Creating, Pends
    <2>2. Change(id, "waking", handle \cup {id})
      BY <1>11, CatalogChanges
    <2> HIDE DEF Allowed
    <2> QED BY <2>1, <2>2, WhoChanges
  <1>12. CASE WakeBegins(id)
    <2>1. Allowed(id, "waking", handle)
      <3>1. call.id = id /\ call' = NoCall /\ NoCall.id = 0
        BY <1>12 DEF WakeBegins, NoCall
      <3>2. call' # call
        BY <1>b, <3>1
      <3> QED
        BY <1>0, <1>a, <1>b, <1>c, <1>12, <3>1, <3>2
        DEF WakeBegins, Creating, Pends
    <2>2. Change(id, "waking", handle)
      BY <1>12, CatalogChanges
    <2> HIDE DEF Allowed
    <2> QED BY <2>1, <2>2, WhoChanges
  <1>13. CASE HolderStarts(id)
    <2>1. Allowed(id, "waking", handle)
      BY <1>0, <1>a, <1>b, <1>c, <1>13
      DEF HolderStarts, Creating, Pends
    <2>2. Change(id, "waking", handle)
      BY <1>13, CatalogChanges
    <2> HIDE DEF Allowed
    <2> QED BY <2>1, <2>2, WhoChanges
  <1>14. CASE WakeFails(id)
    <2>1. PICK st \in {"exited", "hibernated"} : Change(id, st, handle)
      BY <1>14, CatalogChanges
    <2>2. Allowed(id, st, handle)
      BY <1>0, <1>a, <1>b, <1>c, <1>14, <2>1
      DEF WakeFails, Creating, Pends
    <2> HIDE DEF Allowed
    <2> QED BY <2>1, <2>2, WhoChanges
  <1>15. CASE FinishWake(id)
    <2>1. Allowed(id, "running", handle)
      BY <1>0, <1>a, <1>b, <1>c, <1>15
      DEF FinishWake, Creating, Pends
    <2>2. Change(id, "running", handle)
      BY <1>15, CatalogChanges
    <2> HIDE DEF Allowed
    <2> QED BY <2>1, <2>2, WhoChanges
  <1>16. CASE Reattaches(id)
    <2>1. Allowed(id, "running", handle \cup {id})
      BY <1>0, <1>a, <1>b, <1>c, <1>16
      DEF Reattaches, Creating, Pends, Starting
    <2>2. Change(id, "running", handle \cup {id})
      BY <1>16, CatalogChanges
    <2> HIDE DEF Allowed
    <2> QED BY <2>1, <2>2, WhoChanges
  <1>17. CASE ReattachFails(id)
    <2>1. PICK st \in {"none", "exited", "hibernated"},
               hs \in {handle, handle \cup {id}} : Change(id, st, hs)
      BY <1>17, CatalogChanges
    <2>2. Allowed(id, st, hs)
      BY <1>0, <1>a, <1>b, <1>c, <1>17, <2>1
      DEF ReattachFails, Creating, Pends, Starting
    <2> HIDE DEF Allowed
    <2> QED BY <2>1, <2>2, WhoChanges
  <1> QED BY <1>1, <1>2, <1>3, <1>4, <1>5, <1>6, <1>7, <1>8, <1>9, <1>10,
             <1>11, <1>12, <1>13, <1>14, <1>15, <1>16, <1>17 DEF Catalogs

\* Quiet steps touch no record.
LEMMA WhoQuiets ==
    ASSUME Types, RecordInv, NEW id \in Ids, Quiets(id)
    PROVE  Who' /\ QueueInv' /\ HandleInv'
  <1> USE DEF catalogVars, writerVars, callVars, recoveryVars, processVars,
              Serves
  <1>0. /\ create \in [Ids -> {"no", "entered", "spawned", "flushing", "over"}]
        /\ call \in [id : 0..NIds, at : {"idle", "looked", "checked"}]
        /\ holder \in [Ids -> {"none", "live", "ended"}]
        /\ QueueInv /\ HandleInv /\ id # 0 /\ NoCall.id = 0
        /\ Untouched /\ Creating /\ Pends /\ Unread /\ Calls /\ Starting /\ OnlyUp
    BY DEF RecordInv, Who, CallTypes, Ids, NoCall
  <1>1. QueueInv' /\ HandleInv'
    BY <1>0
    DEF Quiets, CreateSpawns, ActorGone, WakeLooks, WakeChecks, WakeRefused,
        HolderEnds, HolderKilled, QueueInv, HandleInv
  <1>2. CASE CreateSpawns(id)
    BY <1>0, <1>1, <1>2
    DEF CreateSpawns, Who, Untouched, Creating, Pends, Unread, Calls, Starting, OnlyUp
  <1>3. CASE ActorGone(id)
    BY <1>0, <1>1, <1>3
    DEF ActorGone, Who, Untouched, Creating, Pends, Unread, Calls, Starting, OnlyUp
  <1>4. CASE WakeLooks(id)
    <2>1. call'.id = id /\ rec[id] \in {"hibernated", "exited"}
          /\ create[id] # "no"
      BY <1>0, <1>4 DEF WakeLooks, Untouched
    <2> QED
      BY <1>0, <1>1, <1>4, <2>1
      DEF WakeLooks, Who, Untouched, Creating, Pends, Unread, Calls, Starting, OnlyUp
  <1>5. CASE WakeChecks(id)
    <2>1. call.id = id /\ call'.id \in {id, 0}
      BY <1>0, <1>5 DEF WakeChecks
    <2> QED
      BY <1>0, <1>1, <1>5, <2>1
      DEF WakeChecks, Who, Untouched, Creating, Pends, Unread, Calls, Starting, OnlyUp,
          Ids
  <1>6. CASE WakeRefused(id)
    BY <1>0, <1>1, <1>6
    DEF WakeRefused, Who, Untouched, Creating, Pends, Unread, Calls, Starting, OnlyUp,
        Ids
  <1>7. CASE HolderEnds(id)
    BY <1>0, <1>1, <1>7
    DEF HolderEnds, Who, Untouched, Creating, Pends, Unread, Calls, Starting, OnlyUp
  <1>8. CASE HolderKilled(id)
    BY <1>0, <1>1, <1>8
    DEF HolderKilled, Who, Untouched, Creating, Pends, Unread, Calls, Starting, OnlyUp
  <1> QED BY <1>1, <1>2, <1>3, <1>4, <1>5, <1>6, <1>7, <1>8 DEF Quiets

LEMMA WhoAnswersAndWrites ==
    ASSUME Types, RecordInv,
           \/ \E id \in Ids : CreateAnswers(id)
           \/ WriterTakes \/ Writes \/ WriteFails \/ FileDamaged
           \/ UNCHANGED vars
    PROVE  Who' /\ QueueInv' /\ HandleInv'
  <1> USE DEF vars, catalogVars, writerVars, callVars, recoveryVars, processVars
  <1>0. /\ create \in [Ids -> {"no", "entered", "spawned", "flushing", "over"}]
        /\ QueueInv /\ HandleInv
        /\ Untouched /\ Creating /\ Pends /\ Unread /\ Calls /\ Starting /\ OnlyUp
    BY DEF RecordInv, Who, CallTypes
  <1>1. /\ UNCHANGED <<rec, handle, exited, read, pending, launch, call, start>>
        /\ UNCHANGED <<sock, holder, mode>>
    BY DEF CreateAnswers, WriterTakes, Writes, WriteFails, FileDamaged
  <1>2. QueueInv' /\ HandleInv'
    BY <1>0, <1>1 DEF QueueInv, HandleInv
  <1>3. /\ \A i \in Ids : create'[i] # create[i]
                            => create[i] = "flushing" /\ create'[i] = "over"
                               /\ mode = "up"
        /\ next' \cup busy' \subseteq next \cup busy
        /\ file' = file \/ file' \in busy
    <2>1. CASE \E id \in Ids : CreateAnswers(id)
      BY <1>0, <2>1 DEF CreateAnswers
    <2>2. CASE WriterTakes \/ WriteFails \/ FileDamaged \/ UNCHANGED vars
      BY <2>2 DEF WriterTakes, WriteFails, FileDamaged
    <2>3. CASE Writes
      BY <2>3 DEF Writes
    <2> QED BY <2>1, <2>2, <2>3
  <1>4. Who'
    BY <1>0, <1>1, <1>3
    DEF Who, Untouched, Creating, Pends, Unread, Calls, Starting, OnlyUp
  <1> QED BY <1>2, <1>4

LEMMA WhoGone ==
    ASSUME Types, RecordInv, NEW hs, Gone(hs),
           \A i \in Ids : hs[i] \in {holder[i], "none"}
    PROVE  Who' /\ QueueInv' /\ HandleInv'
  <1> USE DEF Gone, TasksEnd
  <1>0. /\ create \in [Ids -> {"no", "entered", "spawned", "flushing", "over"}]
        /\ Untouched /\ NoCall.id = 0
        /\ MaxExited \in Nat
    BY BoundsAssumption DEF RecordInv, Who, CallTypes, NoCall
  <1>1. \A i \in Ids : NoRecords[i] = "none"
    BY DEF NoRecords
  <1>2. exited' = <<>> /\ handle' = {} /\ rec' = NoRecords
    OBVIOUS
  <1>3. IsInjective(<<>>) /\ ToSet(<<>>) = {} /\ Len(<<>>) <= MaxExited
    BY <1>0 DEF IsInjective, ToSet
  <1>4. QueueInv'
    BY <1>1, <1>2, <1>3 DEF QueueInv
  <1>5. HandleInv'
    BY <1>2 DEF HandleInv
  <1>6. Who'
    BY <1>0, <1>1
    DEF Who, Untouched, Creating, Pends, Unread, Calls, Starting, OnlyUp
  <1> QED BY <1>4, <1>5, <1>6

LEMMA WhoStop ==
    ASSUME Types, RecordInv, Stop
    PROVE  Who' /\ QueueInv' /\ HandleInv'
  <1> USE DEF Stop, TasksEnd, writerVars, processVars
  <1>0. /\ create \in [Ids -> {"no", "entered", "spawned", "flushing", "over"}]
        /\ QueueInv /\ Untouched /\ Unread /\ NoCall.id = 0
    BY DEF RecordInv, Who, CallTypes, NoCall
  <1>1. QueueInv' /\ HandleInv'
    BY <1>0 DEF QueueInv, HandleInv
  <1>2. Who'
    BY <1>0
    DEF Who, Untouched, Creating, Pends, Unread, Calls, Starting, OnlyUp, Ids
  <1> QED BY <1>1, <1>2

LEMMA WhoStart ==
    ASSUME SaveInv, RecordInv, Start
    PROVE  Who' /\ QueueInv' /\ HandleInv'
  <1> USE DEF Start, catalogVars, callVars, processVars
  <1>0. QueueInv /\ HandleInv /\ Who
    BY DEF RecordInv
  <1>1. QueueInv' /\ HandleInv'
    BY <1>0 DEF QueueInv, HandleInv
  <1>2. pending = {} /\ pending' = {}
    BY <1>0 DEF Who, Pends
  <1>3. \A i \in Ids : NoRecords[i] = "none"
    BY DEF NoRecords
  <1>a. rec' = NoRecords /\ (mode' = "loading" \/ read' = NoRecords)
    BY DEF SaveInv, WriterInv
  <1>4. \A i \in Ids : create[i] = "no" =>
            read'[i] = "none" /\ file'.s[i] = "none"
    BY <1>0, <1>3 DEF Who, Untouched
  <1>5. Who'
    BY <1>0, <1>2, <1>3, <1>a, <1>4
    DEF Who, Untouched, Creating, Pends, Unread, Calls, Starting, OnlyUp
  <1> QED BY <1>1, <1>5

LEMMA WhoLoads ==
    ASSUME Types, RecordInv, NEW id \in Ids, Loads(id)
    PROVE  Who' /\ QueueInv' /\ HandleInv'
  <1>0. /\ Untouched /\ Creating /\ Pends /\ Unread /\ Calls /\ Starting /\ OnlyUp
        /\ create \in [Ids -> {"no", "entered", "spawned", "flushing", "over"}]
        /\ pending \subseteq Ids /\ HandleInv
    BY DEF RecordInv, Who, CallTypes
  <1>1. PICK st \in {"detached", "exited", "hibernated"},
             hs \in {handle, handle \cup {id}} :
          /\ Change(id, st, hs)
          /\ read[id] = "running" => st = "detached" /\ hs = handle
    BY CatalogChanges
  <1>2. /\ mode = "loading" /\ read[id] # "none"
        /\ read' = [read EXCEPT ![id] = "none"] /\ read \in [Ids -> Saved]
        /\ mode' \in {"up", "loading"}
        /\ pending' \in {pending, pending \cup {id}}
        /\ (read[id] # "running" => pending' = pending)
        /\ UNCHANGED <<busy, file, create, call, start, sock, holder>>
    BY DEF Loads, callVars, processVars, Types
  <1>3. /\ rec'[id] = st \/ (st = "exited" /\ rec'[id] = "none")
        /\ \A i \in Ids \ {id} :
             rec'[i] = rec[i] \/ (rec[i] = "exited" /\ rec'[i] = "none")
        /\ handle' \subseteq hs /\ launch' \subseteq launch \cup {id}
        /\ next' = {[s |-> Shown(rec'), whole |-> read' = NoRecords]}
        /\ QueueInv' /\ \A i \in handle' : rec'[i] # "none"
    BY <1>1 DEF Change
  <1>4. HandleInv'
    BY <1>0, <1>3 DEF HandleInv
  <1>a. \A i \in Ids : NoRecords[i] = "none"
    BY DEF NoRecords
  <1>c. mode' = "up" => read' = NoRecords
    BY DEF Loads
  <1>d. Unread'
    BY <1>0, <1>2, <1>3, <1>a, <1>c DEF Unread
  <1>5. create[id] # "no" /\ id \notin pending /\ id \notin handle
    BY <1>0, <1>2 DEF Untouched, Pends, Unread, HandleInv
  <1>6. Untouched'
    <2>1. \A i \in Ids : create[i] = "no" => i # id /\ rec'[i] = "none"
      BY <1>0, <1>3, <1>5 DEF Untouched
    <2>2. \A i \in Ids : create[i] = "no" =>
            \A snap \in next' : snap.s[i] = "none"
      BY <1>3, <2>1 DEF Shown, Persisted
    <2> QED BY <1>0, <1>2, <1>3, <2>1, <2>2 DEF Untouched
  <1>7. Creating' /\ Calls' /\ Starting' /\ OnlyUp'
    BY <1>0, <1>2 DEF Creating, Calls, Starting, OnlyUp
  <1>8. handle' \subseteq handle \/ id \notin pending'
    BY <1>1, <1>2, <1>3, <1>5
  <1>9. Pends'
    BY <1>0, <1>1, <1>2, <1>3, <1>5, <1>8 DEF Pends
  <1> QED BY <1>3, <1>4, <1>d, <1>6, <1>7, <1>9 DEF Who

-----------------------------------------------------------------------------
(* The types of the rest.                                                  *)

\* The catalog, its snapshot and its launches, after a change.
LEMMA ChangeTypes ==
    ASSUME Types, RecordInv, NEW id \in Ids, NEW st,
           NEW hs \in {handle, handle \cup {id}}, Change(id, st, hs),
           busy' = busy
    PROVE  KeptTypes' /\ QueueInv' /\ HandleInv'
  <1> DEFINE new == [s |-> Shown(rec'), whole |-> read' = NoRecords]
  <1>1. /\ next' = {new} /\ launch' \subseteq launch \cup {id}
        /\ answered' \subseteq answered /\ QueueInv'
        /\ handle' \subseteq hs /\ \A i \in handle' : rec'[i] # "none"
    BY DEF Change
  <1> HIDE DEF new
  <1>2. Cardinality({new}) = 1
    BY FS_Singleton
  <1>3. Cardinality(next') <= 1
    BY <1>1, <1>2
  <1> QED BY <1>1, <1>3 DEF RecordInv, KeptTypes, HandleInv

LEMMA CatalogsTypes ==
    ASSUME Types, RecordInv, NEW id \in Ids, Catalogs(id) \/ Loads(id)
    PROVE  KeptTypes' /\ QueueInv' /\ HandleInv'
  <1>1. \E st, hs : hs \in {handle, handle \cup {id}} /\ Change(id, st, hs)
    <2>1. \E st \in Status, hs \in {handle, handle \cup {id}} : Change(id, st, hs)
      BY CatalogChanges DEF Catalogs, Status
    <2> QED BY <2>1
  <1>2. busy' = busy
    BY DEF Catalogs, Loads, SessionRemove, Expire, CreateEnters, CreateFails,
           CreateStarts, LinkLost, Reconnects, ActorEnds, CloseAsleep,
           WakeFindsNoLaunch, WakeEnters, WakeBegins, HolderStarts, WakeFails,
           FinishWake, Reattaches, ReattachFails, Outside
  <1> QED BY <1>1, <1>2, ChangeTypes

LEMMA CallsTypes ==
    ASSUME CallTypes, NEW id \in Ids, Catalogs(id) \/ Quiets(id) \/ Loads(id)
    PROVE  CallTypes'
  <1> USE DEF CallTypes, Outside, callVars, processVars, recoveryVars
  <1>1. id \in 0..NIds /\ 0 \in 0..NIds /\ faults + 1 \in Int
    BY BoundsAssumption DEF Ids
  <1>2. faults < MaxFaults => faults + 1 \in 0..MaxFaults
    BY BoundsAssumption
  <1>3. NoCall \in [id : 0..NIds, at : {"idle", "looked", "checked"}]
    BY <1>1 DEF NoCall
  <1>4. CASE SessionRemove(id) \/ Expire(id)
    BY <1>4 DEF SessionRemove, Expire
  <1>5. CASE CreateEnters(id) \/ CreateFails(id) \/ CreateStarts(id)
    BY <1>5 DEF CreateEnters, CreateFails, CreateStarts
  <1>6. CASE LinkLost(id) \/ Reconnects(id)
    BY <1>2, <1>6 DEF LinkLost, Reconnects
  <1>7. CASE ActorEnds(id) \/ CloseAsleep(id) \/ WakeFindsNoLaunch(id)
    BY <1>7 DEF ActorEnds, CloseAsleep, WakeFindsNoLaunch
  <1>8. CASE WakeEnters(id) \/ WakeBegins(id)
    BY <1>3, <1>8 DEF WakeEnters, WakeBegins
  <1>9. CASE HolderStarts(id) \/ WakeFails(id) \/ FinishWake(id)
    BY <1>9 DEF HolderStarts, WakeFails, FinishWake
  <1>10. CASE Reattaches(id)
    BY <1>10 DEF Reattaches
  <1>11. CASE ReattachFails(id)
    BY <1>2, <1>11 DEF ReattachFails
  <1>12. CASE CreateSpawns(id)
    BY <1>12 DEF CreateSpawns
  <1>13. CASE ActorGone(id) \/ WakeLooks(id) \/ WakeChecks(id) \/ WakeRefused(id)
    <2>1. /\ call' \in [id : 0..NIds, at : {"idle", "looked", "checked"}]
          /\ UNCHANGED <<create, start, recoveryVars, processVars, starts,
                         faults>>
      BY <1>1, <1>3, <1>13 DEF ActorGone, WakeLooks, WakeChecks, WakeRefused
    <2> QED BY <2>1
  <1>14. CASE HolderEnds(id)
    BY <1>14 DEF HolderEnds
  <1>15. CASE HolderKilled(id)
    BY <1>2, <1>15 DEF HolderKilled
  <1>16. CASE Loads(id)
    BY <1>16 DEF Loads
  <1> QED BY <1>4, <1>5, <1>6, <1>7, <1>8, <1>9, <1>10, <1>11, <1>12, <1>13,
             <1>14, <1>15, <1>16 DEF Catalogs, Quiets

LEMMA OtherTypes ==
    ASSUME Types, RecordInv,
           \/ \E id \in Ids : CreateAnswers(id) \/ Quiets(id)
           \/ WriterTakes \/ Writes \/ WriteFails \/ Stop \/ FileDamaged \/ Start
           \/ UNCHANGED vars
    PROVE  KeptTypes'
  <1>0. KeptTypes /\ Cardinality({}) = 0
    BY FS_EmptySet DEF RecordInv
  <1>1. CASE \E id \in Ids : CreateAnswers(id)
    BY <1>0, <1>1 DEF CreateAnswers, KeptTypes, writerVars
  <1>2. CASE \E id \in Ids : Quiets(id)
    BY <1>0, <1>2
    DEF Quiets, CreateSpawns, ActorGone, WakeLooks, WakeChecks, WakeRefused,
        HolderEnds, HolderKilled, KeptTypes, writerVars
  <1>3. CASE WriterTakes \/ Writes \/ WriteFails
    BY <1>0, <1>3 DEF WriterTakes, Writes, WriteFails, KeptTypes
  <1>4. CASE Stop \/ FileDamaged \/ Start \/ UNCHANGED vars
    BY <1>0, <1>4 DEF Stop, FileDamaged, Start, vars, writerVars, KeptTypes
  <1> QED BY <1>1, <1>2, <1>3, <1>4

LEMMA OtherCallTypes ==
    ASSUME Types, CallTypes,
           \/ \E id \in Ids : CreateAnswers(id)
           \/ WriterTakes \/ Writes \/ WriteFails \/ Stop \/ FileDamaged \/ Start
           \/ UNCHANGED vars
    PROVE  CallTypes'
  <1> USE DEF CallTypes, callVars, processVars, recoveryVars
  <1>1. faults < MaxFaults => faults + 1 \in 0..MaxFaults
    BY BoundsAssumption
  <1>2. NoCall \in [id : 0..NIds, at : {"idle", "looked", "checked"}]
    BY BoundsAssumption DEF NoCall
  <1>3. CASE \E id \in Ids : CreateAnswers(id)
    BY <1>3 DEF CreateAnswers
  <1>4. CASE WriterTakes \/ Writes
    BY <1>4 DEF WriterTakes, Writes
  <1>5. CASE WriteFails \/ FileDamaged
    BY <1>1, <1>5 DEF WriteFails, FileDamaged
  <1>6. CASE Stop
    BY <1>2, <1>6 DEF Stop, TasksEnd
  <1>7. CASE Start
    BY <1>7, BoundsAssumption DEF Start
  <1>8. CASE UNCHANGED vars
    BY <1>8 DEF vars
  <1> QED BY <1>3, <1>4, <1>5, <1>6, <1>7, <1>8

\* The three ends of a daemon.
LEMMA GoneFacts ==
    ASSUME CallTypes, Ended \/ Crash \/ Reboot
    PROVE  \E hs \in [Ids -> {"none", "live", "ended"}] :
             /\ Gone(hs) /\ (Ended \/ MayEnd)
             /\ \A i \in Ids : hs[i] \in {holder[i], "none"}
             /\ CallTypes'
  <1>1. faults < MaxFaults => faults + 1 \in 0..MaxFaults
    BY BoundsAssumption DEF CallTypes
  <1>2. NoCall \in [id : 0..NIds, at : {"idle", "looked", "checked"}]
    BY BoundsAssumption DEF NoCall
  <1>3. PICK hs : /\ hs \in [Ids -> {"none", "live", "ended"}]
                  /\ Gone(hs) /\ (Ended \/ MayEnd)
                  /\ \A i \in Ids : hs[i] \in {holder[i], "none"}
                  /\ faults' \in 0..MaxFaults
    <2>1. CASE Ended \/ Crash
      BY <2>1 DEF Ended, Crash, CallTypes
    <2>2. CASE Reboot
      BY <1>1, <2>2 DEF Reboot, CallTypes
    <2> QED BY <2>1, <2>2
  <1>4. CallTypes'
    BY <1>2, <1>3 DEF CallTypes, Gone, TasksEnd
  <1> QED BY <1>3, <1>4

LEMMA RecordInit == Init => RecordInv
  <1> SUFFICES ASSUME Init PROVE RecordInv
    OBVIOUS
  <1> USE DEF Init
  <1>0. MaxExited \in Nat /\ MaxStarts \in Nat /\ MaxFaults \in Nat /\ NIds \in Nat
    BY BoundsAssumption
  <1>1. \A i \in Ids : NoRecords[i] = "none"
    BY DEF NoRecords
  <1>2. IsInjective(<<>>) /\ ToSet(<<>>) = {} /\ Len(<<>>) <= MaxExited
    BY <1>0 DEF IsInjective, ToSet
  <1>3. QueueInv
    BY <1>1, <1>2 DEF QueueInv
  <1>4. HandleInv
    BY DEF HandleInv
  <1>5. KeptTypes
    BY FS_EmptySet DEF KeptTypes
  <1>6. CallTypes
    BY <1>0 DEF CallTypes, NoCall
  <1>7. Who
    BY <1>1
    DEF Who, Untouched, Creating, Pends, Unread, Calls, Starting, OnlyUp,
        NoCall, Ids
  <1> QED BY <1>3, <1>4, <1>5, <1>6, <1>7 DEF RecordInv

LEMMA RecordNext ==
    ASSUME SaveInv, RecordInv, [Next]_vars
    PROVE  RecordInv'
  <1>0. Types /\ CallTypes
    BY DEF SaveInv, RecordInv
  <1>1. CASE \E id \in Ids : Catalogs(id)
    BY <1>0, <1>1, WhoCatalogs, CatalogsTypes, CallsTypes DEF RecordInv
  <1>2. CASE \E id \in Ids : Quiets(id)
    BY <1>0, <1>2, WhoQuiets, OtherTypes, CallsTypes DEF RecordInv
  <1>3. CASE \E id \in Ids : Loads(id)
    BY <1>0, <1>3, WhoLoads, CatalogsTypes, CallsTypes DEF RecordInv
  <1>4. CASE \/ \E id \in Ids : CreateAnswers(id)
             \/ WriterTakes \/ Writes \/ WriteFails \/ FileDamaged
             \/ UNCHANGED vars
    BY <1>0, <1>4, WhoAnswersAndWrites, OtherTypes, OtherCallTypes
    DEF RecordInv
  <1>5. CASE Stop
    BY <1>0, <1>5, WhoStop, OtherTypes, OtherCallTypes DEF RecordInv
  <1>6. CASE Start
    BY <1>0, <1>6, WhoStart, OtherTypes, OtherCallTypes DEF RecordInv
  <1>7. CASE Ended \/ Crash \/ Reboot
    <2>1. PICK hs : /\ Gone(hs) /\ CallTypes'
                    /\ \A i \in Ids : hs[i] \in {holder[i], "none"}
      BY <1>0, <1>7, GoneFacts
    <2>2. KeptTypes'
      BY <1>0, <2>1, FS_EmptySet DEF RecordInv, KeptTypes, Gone
    <2> QED BY <1>0, <2>1, <2>2, WhoGone DEF RecordInv
  <1> QED BY <1>1, <1>2, <1>3, <1>4, <1>5, <1>6, <1>7
          DEF Next, Catalogs, Quiets

LEMMA RecordInvariant == Spec => [](SaveInv /\ RecordInv)
  <1>1. SaveInv /\ RecordInv /\ [Next]_vars => SaveInv' /\ RecordInv'
    BY SaveNext, RecordNext
  <1> QED BY SaveInit, RecordInit, <1>1, PTL DEF Spec

\* The queue of exited sessions holds each exited record once and never more
\* than MAX_EXITED of them, over any number of sessions and restarts.
THEOREM TypeCorrect == Spec => []TypeOK
  <1>1. SaveInv /\ RecordInv => TypeOK
    BY DEF SaveInv, Types, RecordInv, QueueInv, HandleInv, KeptTypes, CallTypes,
           TypeOK
  <1> QED BY RecordInvariant, <1>1, PTL

-----------------------------------------------------------------------------
(* An agent runs only behind a record that says so.                        *)

Process == {"running", "detached", "waking"}

\* A holder that is started replaces one that was missed, or none.
StartsAlone == \A i \in start : holder[i] = "live" => i \in missed

\* A holder that is there can be found by its socket.
HoldersHaveSockets == \A i \in Ids : holder[i] # "none" => i \in sock

\* Until it shows a part, the file shows every process the daemon knows of.
FileShowsProcesses ==
    mode = "loading" =>
        /\ \A snap \in next \cup busy : ~snap.whole
        /\ file.whole => \A i \in Ids : HasProcess(i) => file.s[i] = "running"

AgentInv ==
    /\ AgentOnRecord /\ StartsAlone /\ HoldersHaveSockets /\ FileShowsProcesses
    /\ damaged => mode = "down"

\* What may become of the holder of the session whose record gets status st.
HolderAllowed(id, st) ==
    /\ mode' = "up" /\ damaged' = damaged
    /\ \A i \in Ids \ {id} :
         /\ holder'[i] = holder[i] /\ (i \in missed' <=> i \in missed)
         /\ (i \in start' => i \in start) /\ (i \in sock => i \in sock')
    /\ holder'[id] = "live" /\ id \notin missed' => st \in Process
    /\ id \in start' /\ holder'[id] = "live" => id \in missed'
    /\ holder'[id] # "none" => id \in sock'
    /\ start' \subseteq Ids

LEMMA AgentChanges ==
    ASSUME AgentInv, mode = "up", NEW id \in Ids, NEW st, NEW hs,
           Change(id, st, hs), HolderAllowed(id, st)
    PROVE  AgentInv'
  <1> USE DEF AgentInv, HolderAllowed
  <1>1. /\ rec'[id] = st \/ (st = "exited" /\ rec'[id] = "none")
        /\ \A i \in Ids \ {id} :
             rec'[i] = rec[i] \/ (rec[i] = "exited" /\ rec'[i] = "none")
    BY DEF Change
  <1>2. \A i \in Ids : holder'[i] = "live" /\ i \notin missed'
                         => rec'[i] \in Process
    BY <1>1 DEF AgentOnRecord, HasProcess, Process
  <1>3. AgentOnRecord'
    BY <1>2 DEF AgentOnRecord, HasProcess, Process
  <1>4. StartsAlone'
    BY DEF StartsAlone
  <1>5. HoldersHaveSockets'
    BY DEF HoldersHaveSockets
  <1>6. FileShowsProcesses' /\ ~damaged'
    BY DEF FileShowsProcesses
  <1> QED BY <1>3, <1>4, <1>5, <1>6

LEMMA AgentCatalogs ==
    ASSUME Types, RecordInv, AgentInv, NEW id \in Ids, Catalogs(id)
    PROVE  AgentInv'
  <1> USE DEF Outside, callVars, processVars, Serves, HolderAllowed, Process
  <1>0. /\ holder \in [Ids -> {"none", "live", "ended"}] /\ start \subseteq Ids
        /\ Creating /\ Pends /\ Starting /\ StartsAlone /\ HoldersHaveSockets
    BY DEF RecordInv, Who, CallTypes, AgentInv
  <1>a. mode = "up" /\ holder[id] = "live" /\ id \notin missed
          => rec[id] \in Process
    BY DEF AgentInv, AgentOnRecord, HasProcess
  <1>b. id # 0 /\ (call.id = id => rec[id] \in {"none", "exited", "hibernated"})
    BY DEF RecordInv, Who, Calls, Ids
  <1>1. CASE SessionRemove(id)
    <2>1. mode = "up" /\ HolderAllowed(id, "none")
      BY <1>0, <1>a, <1>b, <1>1
      DEF SessionRemove, StartsAlone, HoldersHaveSockets, Starting
    <2>2. Change(id, "none", handle)
      BY <1>1, CatalogChanges
    <2> HIDE DEF HolderAllowed
    <2> QED BY <2>1, <2>2, AgentChanges
  <1>2. CASE Expire(id)
    <2>1. mode = "up" /\ HolderAllowed(id, "none")
      BY <1>0, <1>a, <1>b, <1>2
      DEF Expire, StartsAlone, HoldersHaveSockets, Starting
    <2>2. Change(id, "none", handle)
      BY <1>2, CatalogChanges
    <2> HIDE DEF HolderAllowed
    <2> QED BY <2>1, <2>2, AgentChanges
  <1>3. CASE CreateEnters(id)
    <2>1. mode = "up" /\ HolderAllowed(id, "running")
      BY <1>0, <1>a, <1>b, <1>3
      DEF CreateEnters, StartsAlone, HoldersHaveSockets, Starting
    <2>2. Change(id, "running", handle)
      BY <1>3, CatalogChanges
    <2> HIDE DEF HolderAllowed
    <2> QED BY <2>1, <2>2, AgentChanges
  <1>4. CASE CreateFails(id)
    <2>1. mode = "up" /\ HolderAllowed(id, "none")
      BY <1>0, <1>a, <1>b, <1>4
      DEF CreateFails, StartsAlone, HoldersHaveSockets, Starting
    <2>2. Change(id, "none", handle)
      BY <1>4, CatalogChanges
    <2> HIDE DEF HolderAllowed
    <2> QED BY <2>1, <2>2, AgentChanges
  <1>5. CASE CreateStarts(id)
    <2>1. mode = "up" /\ HolderAllowed(id, "running")
      BY <1>0, <1>a, <1>b, <1>5
      DEF CreateStarts, StartsAlone, HoldersHaveSockets, Starting
    <2>2. Change(id, "running", handle \cup {id})
      BY <1>5, CatalogChanges
    <2> HIDE DEF HolderAllowed
    <2> QED BY <2>1, <2>2, AgentChanges
  <1>6. CASE LinkLost(id)
    <2>1. mode = "up" /\ HolderAllowed(id, "detached")
      BY <1>0, <1>a, <1>b, <1>6
      DEF LinkLost, StartsAlone, HoldersHaveSockets, Starting
    <2>2. Change(id, "detached", handle)
      BY <1>6, CatalogChanges
    <2> HIDE DEF HolderAllowed
    <2> QED BY <2>1, <2>2, AgentChanges
  <1>7. CASE Reconnects(id)
    <2>1. mode = "up" /\ HolderAllowed(id, "running")
      BY <1>0, <1>a, <1>b, <1>7
      DEF Reconnects, StartsAlone, HoldersHaveSockets, Starting
    <2>2. Change(id, "running", handle)
      BY <1>7, CatalogChanges
    <2> HIDE DEF HolderAllowed
    <2> QED BY <2>1, <2>2, AgentChanges
  <1>8. CASE ActorEnds(id)
    <2>1. PICK st \in {"exited", "hibernated"} : Change(id, st, handle)
      BY <1>8, CatalogChanges
    <2>2. mode = "up" /\ HolderAllowed(id, st)
      BY <1>0, <1>a, <1>8, <2>1
      DEF ActorEnds, StartsAlone, HoldersHaveSockets, Starting
    <2> HIDE DEF HolderAllowed
    <2> QED BY <2>1, <2>2, AgentChanges
  <1>9. CASE CloseAsleep(id)
    <2>1. mode = "up" /\ HolderAllowed(id, "exited")
      BY <1>0, <1>a, <1>b, <1>9
      DEF CloseAsleep, StartsAlone, HoldersHaveSockets, Starting
    <2>2. Change(id, "exited", handle)
      BY <1>9, CatalogChanges
    <2> HIDE DEF HolderAllowed
    <2> QED BY <2>1, <2>2, AgentChanges
  <1>10. CASE WakeFindsNoLaunch(id)
    <2>1. mode = "up" /\ HolderAllowed(id, "exited")
      BY <1>0, <1>a, <1>b, <1>10
      DEF WakeFindsNoLaunch, StartsAlone, HoldersHaveSockets, Starting
    <2>2. Change(id, "exited", handle)
      BY <1>10, CatalogChanges
    <2> HIDE DEF HolderAllowed
    <2> QED BY <2>1, <2>2, AgentChanges
  <1>11. CASE WakeEnters(id)
    <2>1. mode = "up" /\ HolderAllowed(id, "waking")
      BY <1>0, <1>a, <1>b, <1>11
      DEF WakeEnters, StartsAlone, HoldersHaveSockets, Starting
    <2>2. Change(id, "waking", handle \cup {id})
      BY <1>11, CatalogChanges
    <2> HIDE DEF HolderAllowed
    <2> QED BY <2>1, <2>2, AgentChanges
  <1>12. CASE WakeBegins(id)
    <2>1. mode = "up" /\ HolderAllowed(id, "waking")
      BY <1>0, <1>a, <1>b, <1>12
      DEF WakeBegins, StartsAlone, HoldersHaveSockets, Starting
    <2>2. Change(id, "waking", handle)
      BY <1>12, CatalogChanges
    <2> HIDE DEF HolderAllowed
    <2> QED BY <2>1, <2>2, AgentChanges
  <1>13. CASE HolderStarts(id)
    <2>1. mode = "up" /\ HolderAllowed(id, "waking")
      BY <1>0, <1>a, <1>b, <1>13
      DEF HolderStarts, StartsAlone, HoldersHaveSockets, Starting
    <2>2. Change(id, "waking", handle)
      BY <1>13, CatalogChanges
    <2> HIDE DEF HolderAllowed
    <2> QED BY <2>1, <2>2, AgentChanges
  <1>14. CASE WakeFails(id)
    <2>1. PICK st \in {"exited", "hibernated"} : Change(id, st, handle)
      BY <1>14, CatalogChanges
    <2>2. mode = "up" /\ HolderAllowed(id, st)
      BY <1>0, <1>a, <1>14, <2>1
      DEF WakeFails, StartsAlone, HoldersHaveSockets, Starting
    <2> HIDE DEF HolderAllowed
    <2> QED BY <2>1, <2>2, AgentChanges
  <1>15. CASE FinishWake(id)
    <2>1. mode = "up" /\ HolderAllowed(id, "running")
      BY <1>0, <1>a, <1>b, <1>15
      DEF FinishWake, StartsAlone, HoldersHaveSockets, Starting
    <2>2. Change(id, "running", handle)
      BY <1>15, CatalogChanges
    <2> HIDE DEF HolderAllowed
    <2> QED BY <2>1, <2>2, AgentChanges
  <1>16. CASE Reattaches(id)
    <2>1. mode = "up" /\ HolderAllowed(id, "running")
      BY <1>0, <1>a, <1>b, <1>16
      DEF Reattaches, StartsAlone, HoldersHaveSockets, Starting
    <2>2. Change(id, "running", handle \cup {id})
      BY <1>16, CatalogChanges
    <2> HIDE DEF HolderAllowed
    <2> QED BY <2>1, <2>2, AgentChanges
  <1>17. CASE ReattachFails(id)
    <2>1. PICK st \in {"none", "exited", "hibernated"},
               hs \in {handle, handle \cup {id}} : Change(id, st, hs)
      BY <1>17, CatalogChanges
    <2>2. mode = "up" /\ HolderAllowed(id, st)
      BY <1>0, <1>a, <1>17, <2>1
      DEF ReattachFails, StartsAlone, HoldersHaveSockets, Starting
    <2> HIDE DEF HolderAllowed
    <2> QED BY <2>1, <2>2, AgentChanges
  <1> QED BY <1>1, <1>2, <1>3, <1>4, <1>5, <1>6, <1>7, <1>8, <1>9, <1>10,
             <1>11, <1>12, <1>13, <1>14, <1>15, <1>16, <1>17 DEF Catalogs

\* The holders, while the catalog and the writer rest.
LEMMA AgentRests ==
    ASSUME AgentInv, UNCHANGED <<rec, read, damaged>>,
           \/ mode' = mode /\ file'.s = file.s
           \/ mode' = mode /\ mode # "down"
           \/ mode = "up" /\ mode' = "stopping",
           mode = "loading" => next' \cup busy' \subseteq next \cup busy,
           mode = "loading" =>
             file' = file \/ ~file'.whole,
           \A i \in Ids :
             /\ holder'[i] = "live" /\ i \notin missed' =>
                  \/ holder[i] = "live" /\ i \notin missed
                  \/ mode = "up" /\ rec[i] = "running"
             /\ i \in start' /\ holder'[i] = "live" => i \in missed'
             /\ holder'[i] # "none" => i \in sock',
           start' \subseteq Ids
    PROVE  AgentInv'
  <1>1. mode' \in {mode, "stopping"}
    OBVIOUS
  <1>2. \A i \in Ids : HasProcess(i) => HasProcess(i)'
    BY DEF HasProcess
  <1>3. \A i \in Ids : mode = "up" /\ rec[i] = "running" => HasProcess(i)'
    BY DEF HasProcess
  <1>4. AgentOnRecord'
    BY <1>2, <1>3 DEF AgentInv, AgentOnRecord
  <1>5. StartsAlone' /\ HoldersHaveSockets'
    BY DEF StartsAlone, HoldersHaveSockets
  <1>6. mode' = "loading" => \A i \in Ids : HasProcess(i)' => HasProcess(i)
    BY DEF HasProcess
  <1>7. FileShowsProcesses'
    BY <1>1, <1>6 DEF AgentInv, FileShowsProcesses
  <1> QED BY <1>4, <1>5, <1>7 DEF AgentInv

LEMMA AgentQuiets ==
    ASSUME RecordInv, AgentInv, NEW id \in Ids, Quiets(id)
    PROVE  AgentInv'
  <1> USE DEF catalogVars, writerVars, callVars, recoveryVars, processVars
  <1>0. /\ holder \in [Ids -> {"none", "live", "ended"}] /\ start \subseteq Ids
        /\ Creating /\ Starting /\ StartsAlone /\ HoldersHaveSockets
    BY DEF RecordInv, Who, CallTypes, AgentInv
  <1>1. /\ UNCHANGED <<rec, read, damaged, file, next, busy, mode, start>>
        /\ \A i \in Ids \ {id} :
             /\ holder'[i] = holder[i] /\ (i \in missed' <=> i \in missed)
             /\ (i \in sock => i \in sock')
        /\ \/ holder'[id] = holder[id] /\ (id \in missed' <=> id \in missed)
              /\ (id \in sock => id \in sock')
           \/ holder[id] # "none" /\ holder'[id] # "live" /\ sock' = sock
           \/ mode = "up" /\ rec[id] = "running" /\ id \notin start
              /\ id \in sock'
    <2>1. CASE CreateSpawns(id)
      BY <1>0, <2>1 DEF CreateSpawns, Creating, Starting
    <2>2. CASE ActorGone(id) \/ WakeLooks(id) \/ WakeChecks(id) \/ WakeRefused(id)
      BY <1>0, <2>2 DEF ActorGone, WakeLooks, WakeChecks, WakeRefused
    <2>3. CASE HolderEnds(id) \/ HolderKilled(id)
      BY <1>0, <2>3 DEF HolderEnds, HolderKilled
    <2> QED BY <2>1, <2>2, <2>3 DEF Quiets
  <1>2. \A i \in Ids :
          /\ holder'[i] = "live" /\ i \notin missed' =>
               \/ holder[i] = "live" /\ i \notin missed
               \/ mode = "up" /\ rec[i] = "running"
          /\ i \in start' /\ holder'[i] = "live" => i \in missed'
          /\ holder'[i] # "none" => i \in sock'
    BY <1>0, <1>1 DEF StartsAlone, HoldersHaveSockets
  <1> QED BY <1>0, <1>1, <1>2, AgentRests

LEMMA AgentAnswersAndWrites ==
    ASSUME Types, RecordInv, AgentInv,
           \/ \E id \in Ids : CreateAnswers(id)
           \/ WriterTakes \/ Writes \/ WriteFails \/ Stop \/ UNCHANGED vars
    PROVE  AgentInv'
  <1> USE DEF vars, catalogVars, writerVars, callVars, recoveryVars, processVars
  <1>0. /\ start \subseteq Ids /\ StartsAlone /\ HoldersHaveSockets
        /\ mode = "loading" => \A snap \in busy : ~snap.whole
    BY DEF RecordInv, CallTypes, AgentInv, FileShowsProcesses
  <1>1. /\ UNCHANGED <<rec, read, damaged, holder, missed, sock>>
        /\ start' \in {start, {}}
        /\ \/ mode' = mode /\ file' = file
           \/ mode' = mode /\ mode # "down"
           \/ mode = "up" /\ mode' = "stopping"
        /\ next' \cup busy' \subseteq next \cup busy
        /\ file' = file \/ file' \in busy
    <2>1. CASE \E id \in Ids : CreateAnswers(id)
      BY <2>1 DEF CreateAnswers
    <2>2. CASE WriterTakes \/ WriteFails \/ UNCHANGED vars
      BY <2>2 DEF WriterTakes, WriteFails
    <2>3. CASE Writes
      BY <2>3 DEF Writes
    <2>4. CASE Stop
      BY <2>4 DEF Stop, TasksEnd
    <2> QED BY <2>1, <2>2, <2>3, <2>4
  <1>2. \A i \in Ids :
          /\ holder'[i] = "live" /\ i \notin missed' =>
               holder[i] = "live" /\ i \notin missed
          /\ i \in start' /\ holder'[i] = "live" => i \in missed'
          /\ holder'[i] # "none" => i \in sock'
    BY <1>0, <1>1 DEF StartsAlone, HoldersHaveSockets
  <1>3. \/ mode' = mode /\ file'.s = file.s
        \/ mode' = mode /\ mode # "down"
        \/ mode = "up" /\ mode' = "stopping"
    BY <1>1
  <1>4. mode = "loading" => file' = file \/ ~file'.whole
    BY <1>0, <1>1
  <1> QED BY <1>0, <1>1, <1>2, <1>3, <1>4, AgentRests

\* A holder that outlives its daemon is in the file, or the next daemon misses
\* it.
LEMMA AgentGone ==
    ASSUME ~EndsInLoad, SaveInv, AgentInv, NEW hs, Gone(hs), Ended \/ MayEnd,
           \A i \in Ids : hs[i] \in {holder[i], "none"}
    PROVE  AgentInv'
  <1>1. /\ mode' = "down" /\ holder' = hs /\ start' = {}
        /\ UNCHANGED <<file, damaged, sock>>
        /\ missed' = {i \in Ids : /\ hs[i] = "live"
                                  /\ \/ i \in missed
                                     \/ Behind /\ file.s[i] # "running"}
    BY DEF Gone, TasksEnd
  <1>2. mode # "down" /\ (mode = "loading" => file.whole)
    BY DEF Ended, MayEnd
  <1>3. ASSUME NEW i \in Ids, HasProcess(i), ~Behind
        PROVE  file.s[i] = "running"
    <2>1. CASE mode = "loading"
      BY <1>2, <1>3, <2>1 DEF AgentInv, FileShowsProcesses
    <2>2. CASE mode \in {"up", "stopping"}
      <3>1. file.s = Shown(rec)
        BY <1>3, <2>2 DEF SaveInv, FileShowsAll, Behind
      <3>2. rec[i] \in Process
        BY <1>3, <2>2 DEF HasProcess, Process
      <3> QED BY <3>1, <3>2 DEF Shown, Persisted, Process
    <2> QED BY <1>2, <2>1, <2>2 DEF SaveInv, Types
  <1>4. ASSUME NEW i \in Ids, hs[i] = "live", i \notin missed'
        PROVE  file.s[i] = "running"
    <2>1. holder[i] = "live" /\ i \notin missed
          /\ (~Behind \/ file.s[i] = "running")
      BY <1>1, <1>4
    <2>2. HasProcess(i)
      BY <2>1 DEF AgentInv, AgentOnRecord
    <2> QED BY <1>3, <2>1, <2>2
  <1>5. AgentOnRecord'
    BY <1>1, <1>4 DEF AgentOnRecord, HasProcess
  <1>6. HoldersHaveSockets'
    BY <1>1 DEF AgentInv, HoldersHaveSockets
  <1> QED BY <1>1, <1>5, <1>6 DEF AgentInv, StartsAlone, FileShowsProcesses

LEMMA AgentFileDamaged ==
    ASSUME AgentInv, FileDamaged
    PROVE  AgentInv'
  <1>1. /\ mode = "down" /\ mode' = "down" /\ damaged'
        /\ UNCHANGED <<start, holder, missed, sock>>
    BY DEF FileDamaged, callVars, processVars
  <1> QED BY <1>1 DEF AgentInv, AgentOnRecord, HasProcess, StartsAlone,
                     HoldersHaveSockets, FileShowsProcesses

\* A damaged file is replaced by what the sockets show: every holder has one.
LEMMA AgentStart ==
    ASSUME SaveInv, RecordInv, AgentInv, Start
    PROVE  AgentInv'
  <1>1. /\ mode = "down" /\ ~damaged'
        /\ mode' = IF read' = NoRecords THEN "up" ELSE "loading"
        /\ UNCHANGED <<rec, next, busy, start, holder, missed, sock>>
    BY DEF Start, catalogVars, callVars, processVars
  <1>2. rec = NoRecords /\ next = {} /\ busy = {} /\ start = {}
    BY <1>1 DEF SaveInv, WriterInv, RecordInv, Who, OnlyUp
  <1>3. \A i \in Ids : NoRecords[i] = "none"
    BY DEF NoRecords
  <1>4. ASSUME NEW i \in Ids, holder[i] = "live", i \notin missed
        PROVE  read'[i] = "running"
    <2>1. damaged \/ file.s[i] = "running"
      BY <1>1, <1>4 DEF AgentInv, AgentOnRecord, HasProcess
    <2>2. i \in sock
      BY <1>4 DEF AgentInv, HoldersHaveSockets
    <2> QED BY <2>1, <2>2 DEF Start
  <1>5. AgentOnRecord'
    BY <1>1, <1>3, <1>4 DEF AgentOnRecord, HasProcess
  <1>6. ASSUME mode' = "loading", file'.whole
        PROVE  \A i \in Ids : HasProcess(i)' => file'.s[i] = "running"
    <2>1. ~damaged
      <3>1. SUFFICES ASSUME damaged PROVE FALSE
        OBVIOUS
      <3>2. sock = {}
        BY <1>6, <3>1 DEF Start
      <3>3. read' = NoRecords
        BY <3>1, <3>2 DEF Start, NoRecords
      <3> QED BY <1>1, <1>6, <3>3
    <2>2. read' = file.s /\ file' = file
      BY <2>1 DEF Start
    <2> QED BY <1>1, <1>2, <1>3, <1>6, <2>2 DEF HasProcess
  <1>7. FileShowsProcesses'
    BY <1>1, <1>2, <1>6 DEF FileShowsProcesses
  <1>8. StartsAlone' /\ HoldersHaveSockets'
    BY <1>1, <1>2 DEF AgentInv, StartsAlone, HoldersHaveSockets
  <1> QED BY <1>1, <1>5, <1>7, <1>8 DEF AgentInv

LEMMA AgentLoads ==
    ASSUME Types, RecordInv, AgentInv, NEW id \in Ids, Loads(id)
    PROVE  AgentInv'
  <1>1. PICK st \in {"detached", "exited", "hibernated"},
             hs \in {handle, handle \cup {id}} :
          /\ Change(id, st, hs)
          /\ read[id] = "running" <=> st = "detached"
    BY CatalogChanges
  <1>2. /\ rec'[id] = st \/ (st = "exited" /\ rec'[id] = "none")
        /\ \A i \in Ids \ {id} :
             rec'[i] = rec[i] \/ (rec[i] = "exited" /\ rec'[i] = "none")
        /\ next' = {[s |-> Shown(rec'), whole |-> read' = NoRecords]}
    BY <1>1 DEF Change
  <1>3. /\ mode = "loading" /\ read[id] # "none" /\ ~damaged
        /\ read' = [read EXCEPT ![id] = "none"] /\ read \in [Ids -> Saved]
        /\ mode' = IF read' = NoRecords THEN "up" ELSE "loading"
        /\ UNCHANGED <<busy, file, damaged, start, sock, holder, missed>>
    BY DEF Loads, callVars, processVars, Types, AgentInv
  <1>4. start = {} /\ \A i \in Ids : NoRecords[i] = "none"
    BY <1>3 DEF RecordInv, Who, OnlyUp, NoRecords
  <1>a. mode' \in {"up", "loading"} /\ (mode' = "up" => read' = NoRecords)
    BY <1>3
  <1>b. \A i \in Ids \ {id} : read'[i] = read[i]
    BY <1>3
  <1>5. \A i \in Ids \ {id} : HasProcess(i)' <=> HasProcess(i)
    BY <1>2, <1>3, <1>4, <1>a, <1>b DEF HasProcess
  <1>6. HasProcess(id)' <=> HasProcess(id)
    <2>1. read'[id] = "none"
      BY <1>3
    <2>2. HasProcess(id) <=> read[id] = "running"
      BY <1>3 DEF HasProcess
    <2>3. HasProcess(id)' <=> rec'[id] \in {"running", "detached", "waking"}
      BY <1>a, <2>1, <1>3 DEF HasProcess
    <2> QED BY <1>1, <1>2, <2>2, <2>3
  <1>7. AgentOnRecord'
    BY <1>3, <1>5, <1>6 DEF AgentInv, AgentOnRecord
  <1>8. mode' = "loading" => \A snap \in next' \cup busy' : ~snap.whole
    <2>1. SUFFICES ASSUME mode' = "loading", NEW snap \in next' \cup busy'
                   PROVE  ~snap.whole
      OBVIOUS
    <2>2. read' # NoRecords
      BY <1>3, <2>1
    <2>3. CASE snap = [s |-> Shown(rec'), whole |-> read' = NoRecords]
      BY <2>2, <2>3
    <2>4. CASE snap \in busy
      BY <1>3, <2>4 DEF AgentInv, FileShowsProcesses
    <2> QED BY <1>2, <1>3, <2>1, <2>3, <2>4
  <1>9. FileShowsProcesses'
    BY <1>3, <1>5, <1>6, <1>8 DEF AgentInv, FileShowsProcesses
  <1>10. StartsAlone' /\ HoldersHaveSockets' /\ ~damaged'
    BY <1>3, <1>4 DEF AgentInv, StartsAlone, HoldersHaveSockets
  <1> QED BY <1>7, <1>9, <1>10 DEF AgentInv

LEMMA AgentInit == Init => AgentInv
  BY DEF Init, AgentInv, AgentOnRecord, StartsAlone, HoldersHaveSockets,
         FileShowsProcesses

LEMMA AgentNext ==
    ASSUME ~EndsInLoad, SaveInv, RecordInv, AgentInv, [Next]_vars
    PROVE  AgentInv'
  <1>0. Types /\ CallTypes
    BY DEF SaveInv, RecordInv
  <1>1. CASE \E id \in Ids : Catalogs(id)
    BY <1>0, <1>1, AgentCatalogs
  <1>2. CASE \E id \in Ids : Quiets(id)
    BY <1>2, AgentQuiets
  <1>3. CASE \E id \in Ids : Loads(id)
    BY <1>0, <1>3, AgentLoads
  <1>4. CASE \/ \E id \in Ids : CreateAnswers(id)
             \/ WriterTakes \/ Writes \/ WriteFails \/ Stop
             \/ UNCHANGED vars
    BY <1>0, <1>4, AgentAnswersAndWrites
  <1>5. CASE FileDamaged
    BY <1>5, AgentFileDamaged
  <1>6. CASE Start
    BY <1>6, AgentStart
  <1>7. CASE Ended \/ Crash \/ Reboot
    <2>1. PICK hs : /\ Gone(hs) /\ (Ended \/ MayEnd)
                    /\ \A i \in Ids : hs[i] \in {holder[i], "none"}
      BY <1>0, <1>7, GoneFacts
    <2> QED BY <2>1, AgentGone
  <1> QED BY <1>1, <1>2, <1>3, <1>4, <1>5, <1>6, <1>7
          DEF Next, Catalogs, Quiets

\* An agent runs only behind a record, or a saved record, that says the
\* session has a process, over any number of sessions, restarts and faults,
\* where no daemon ends while the file holds a part of what it read.
THEOREM AgentsAreOnRecord == ~EndsInLoad => (Spec => []AgentOnRecord)
  <1> SUFFICES ASSUME ~EndsInLoad PROVE Spec => []AgentOnRecord
    OBVIOUS
  <1>1. SaveInv /\ RecordInv /\ AgentInv /\ [Next]_vars => AgentInv'
    BY AgentNext
  <1>2. AgentInv => AgentOnRecord
    BY DEF AgentInv
  <1>3. Init => AgentInv
    BY AgentInit
  <1> QED BY RecordInvariant, <1>1, <1>2, <1>3, PTL DEF Spec

==============================================================================
