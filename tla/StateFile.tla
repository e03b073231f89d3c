------------------------------ MODULE StateFile ------------------------------
(***************************************************************************)
(* The session registry of sushiai-daemon, the state file that mirrors it, *)
(* and what a daemon makes of both when it starts (registry.rs, lib.rs,    *)
(* server.rs create_new, wake.rs).                                         *)
(*                                                                         *)
(* The actor of a session is here only for what it does to its record; its *)
(* insides are SessionActor.  A holder outlives the daemon.                *)
(*                                                                         *)
(* Out of the model: projects and groups, titles, the key of a create, the *)
(* saved screens, and the replies of calls other than session.create.      *)
(***************************************************************************)
EXTENDS Integers, Sequences, SequencesExt, FiniteSets

CONSTANTS
    NIds,       \* bound: sessions ever created
    Agents,     \* bound: those that can have a sealed launch
    MaxExited,  \* MAX_EXITED: exited records that are kept
    MaxStarts,  \* bound: starts of a daemon
    MaxFaults,  \* bound: failed writes, damaged files, holders killed or slow to
                \* answer, connections lost, reboots
    EndsInLoad  \* the daemon may end before it has saved all it has read

ASSUME BoundsAssumption ==
    /\ NIds \in Nat /\ Agents \subseteq 1..NIds /\ MaxExited \in Nat /\ MaxExited > 0
    /\ MaxStarts \in Nat /\ MaxFaults \in Nat /\ EndsInLoad \in BOOLEAN

Ids == 1..NIds

VARIABLES
    \* the daemon: down, reading its state, serving, or ending
    mode,
    \* the catalog: status and handle of each record, exited ids oldest first
    rec, handle, exited,
    \* Writer.slot, and the snapshot in the hands of the writer thread
    next, busy,
    \* calls under way: creates, the wake call, ids whose holder starts
    create, call, start,
    \* recovery: records read and not yet entered, and not yet reattached
    read, pending,
    \* on disk: the state file, sealed launches, sockets; the holders
    file, damaged, launch, sock, holder,
    \* ids found by their socket alone: such a record has no agent
    probed,
    \* bounds and observations
    starts, faults, failed, answered, missed

catalogVars == <<rec, handle, exited>>
writerVars == <<next, busy, file, damaged, failed>>
callVars == <<create, call, start>>
recoveryVars == <<read, pending, probed>>
processVars == <<sock, holder, missed>>
vars == <<mode, catalogVars, writerVars, callVars, recoveryVars, launch,
          processVars, starts, faults, answered>>

Status == {"none", "running", "detached", "waking", "hibernated", "exited"}
Saved == {"none", "running", "hibernated", "exited"}

\* A snapshot; `whole` tells that it was not taken in the middle of a load.
Snapshot == [s : [Ids -> Saved], whole : BOOLEAN]
NoRecords == [i \in Ids |-> "none"]
NoCall == [id |-> 0, at |-> "idle"]

\* Variant: only a detached session is saved as running.
PersistedWakingSleeps(st) ==
    CASE st = "detached" -> "running"
      [] st = "waking" -> "hibernated"
      [] OTHER -> st

\* persisted(): a detached or waking session has a process.
Persisted(st) == IF st \in {"detached", "waking"} THEN "running" ELSE st

Shown(r) == [i \in Ids |-> Persisted(r[i])]

\* Variant: the write under way is not waited for.
FlushedEarly == next = {}

\* Writer::flush returns.
Flushed == next = {} /\ busy = {}

-----------------------------------------------------------------------------
Init ==
    /\ mode = "up"
    /\ rec = NoRecords /\ handle = {} /\ exited = <<>>
    /\ next = {} /\ busy = {} /\ failed = FALSE
    /\ file = [s |-> NoRecords, whole |-> TRUE] /\ damaged = FALSE
    /\ create = [i \in Ids |-> "no"] /\ call = NoCall
    /\ start = {}
    /\ read = NoRecords /\ pending = {} /\ probed = {}
    /\ launch = {} /\ sock = {} /\ missed = {}
    /\ holder = [i \in Ids |-> "none"]
    /\ starts = 1 /\ faults = 0 /\ answered = {}

-----------------------------------------------------------------------------
(* The registry, under its lock.  Every change is submitted to the writer. *)

\* save(): the snapshot that waits is replaced.
Save == next' = {[s |-> Shown(rec'), whole |-> read' = NoRecords]}

\* retain() over a queue that holds an id at most once.
Without(q, id) ==
    IF Contains(q, id) THEN RemoveAt(q, CHOOSE i \in 1..Len(q) : q[i] = id)
    ELSE q

\* The queue of exited ids once `id` has status st.
Queue(id, st) ==
    CASE st # "exited" -> Without(exited, id)
      [] st = "exited" /\ ~Contains(exited, id) -> Append(exited, id)
      [] OTHER -> exited

\* Variant: one more exited record is kept.
PrunesLate(q) == IF Len(q) > MaxExited + 1 THEN {Head(q)} ELSE {}

\* The exited records that are one too many: the oldest.
Prunes(q) == IF Len(q) > MaxExited THEN {Head(q)} ELSE {}

\* update(): the record is inserted or replaced and the oldest exited one
\* forgotten, with its launch.  `hs` and `ls` are the handles and launches
\* that the caller leaves.
Update(id, st, hs, ls) ==
    LET q == Queue(id, st) old == Prunes(q)
    IN  /\ exited' = IF old = {} THEN q ELSE Tail(q)
        /\ rec' = [i \in Ids |-> IF i \in old THEN "none"
                                 ELSE IF i = id THEN st ELSE rec[i]]
        /\ handle' = hs \ old /\ launch' = ls \ old
        /\ answered' = answered \ old
        /\ Save

\* Variant: the state file is not rewritten.
DropUnsaved(id, ls) ==
    /\ rec' = [rec EXCEPT ![id] = "none"]
    /\ handle' = handle \ {id} /\ launch' = ls
    /\ answered' = answered \ {id}
    /\ UNCHANGED next

\* forget(), remove_hibernated() and remove().  `ls` are the launches that the
\* caller leaves.
Drop(id, ls) ==
    /\ rec' = [rec EXCEPT ![id] = "none"]
    /\ handle' = handle \ {id} /\ launch' = ls
    /\ answered' = answered \ {id}
    /\ Save

\* What a change of the catalog leaves alone.
Outside == UNCHANGED <<mode, busy, file, damaged, failed, probed, starts>>

\* session.remove of an exited session.
SessionRemove(id) ==
    /\ mode = "up" /\ rec[id] = "exited"
    /\ exited' = Without(exited, id) /\ UNCHANGED <<read, pending>>
    /\ Drop(id, launch \ {id})
    /\ Outside /\ UNCHANGED <<callVars, processVars, faults>>

\* prune_hibernated(): a session that slept 30 days is removed, and its
\* actor ends.
Expire(id) ==
    /\ mode = "up" /\ rec[id] = "hibernated" /\ id \in handle
    /\ UNCHANGED <<exited, read, pending>> /\ Drop(id, launch \ {id})
    /\ Outside /\ UNCHANGED <<callVars, processVars, faults>>

-----------------------------------------------------------------------------
(* The writer thread.                                                      *)

WriterTakes ==
    /\ mode # "down" /\ next # {} /\ busy = {}
    /\ busy' = next /\ next' = {}
    /\ UNCHANGED <<mode, catalogVars, file, damaged, failed, callVars,
                   recoveryVars, launch, processVars, starts, faults, answered>>

\* write_atomic(): the old file or the new one.
Writes ==
    /\ mode # "down" /\ busy # {}
    /\ file' = (CHOOSE snap \in busy : TRUE) /\ busy' = {} /\ failed' = FALSE
    /\ UNCHANGED <<mode, catalogVars, next, damaged, callVars, recoveryVars,
                   launch, processVars, starts, faults, answered>>

\* A failed write is a line in the log.
WriteFails ==
    /\ mode # "down" /\ busy # {} /\ faults < MaxFaults
    /\ busy' = {} /\ failed' = TRUE /\ faults' = faults + 1
    /\ UNCHANGED <<mode, catalogVars, next, file, damaged, callVars,
                   recoveryVars, launch, processVars, starts, answered>>

-----------------------------------------------------------------------------
(* session.create.                                                         *)

\* The launch of an agent is sealed, then the record is entered.
CreateEnters(id) ==
    /\ mode = "up" /\ create[id] = "no"
    /\ \A i \in Ids : i < id => create[i] = "over"
    /\ create' = [create EXCEPT ![id] = "entered"] /\ UNCHANGED <<read, pending>>
    /\ \E sealed \in SUBSET ({id} \cap Agents) :
         Update(id, "running", handle, launch \cup sealed)
    /\ Outside /\ UNCHANGED <<call, start, processVars, faults>>

\* holder::spawn: the holder is up and its socket exists.
CreateSpawns(id) ==
    /\ mode = "up" /\ create[id] = "entered"
    /\ create' = [create EXCEPT ![id] = "spawned"]
    /\ holder' = [holder EXCEPT ![id] = "live"] /\ sock' = sock \cup {id}
    /\ UNCHANGED <<mode, catalogVars, writerVars, call, start, recoveryVars,
                   launch, missed, starts, faults, answered>>

\* The holder did not start, or could not be attached to and is killed.
CreateFails(id) ==
    /\ mode = "up" /\ create[id] \in {"entered", "spawned"}
    /\ create' = [create EXCEPT ![id] = "over"]
    /\ holder' = [holder EXCEPT ![id] = "none"] /\ sock' = sock \ {id}
    /\ UNCHANGED <<exited, read, pending>> /\ Drop(id, launch \ {id})
    /\ Outside /\ UNCHANGED <<call, start, missed, faults>>

\* spawn_actor() enters the record once more, and then its handle.
CreateStarts(id) ==
    /\ mode = "up" /\ create[id] = "spawned" /\ holder[id] # "none"
    /\ create' = [create EXCEPT ![id] = "flushing"] /\ UNCHANGED <<read, pending>>
    /\ Update(id, "running", handle \cup {id}, launch)
    /\ Outside /\ UNCHANGED <<call, start, processVars, faults>>

\* The answer waits for the state file.
CreateAnswers(id) ==
    /\ mode = "up" /\ create[id] = "flushing" /\ Flushed
    /\ create' = [create EXCEPT ![id] = "over"]
    /\ answered' = IF rec[id] = "none" THEN answered ELSE answered \cup {id}
    /\ UNCHANGED <<mode, catalogVars, writerVars, call, start, recoveryVars,
                   launch, processVars, starts, faults>>

-----------------------------------------------------------------------------
(* What an actor does to the record of its session.                        *)

Serves(id) == mode = "up" /\ id \in handle

\* holder_lost(): saved as running all the same.
LinkLost(id) ==
    /\ Serves(id) /\ rec[id] = "running"
    /\ \/ holder[id] = "none" /\ UNCHANGED faults
       \/ holder[id] # "none" /\ faults < MaxFaults /\ faults' = faults + 1
    /\ UNCHANGED <<read, pending>> /\ Update(id, "detached", handle, launch)
    /\ Outside /\ UNCHANGED <<callVars, processVars>>

\* reconnect() and the answer to hold.attach.
Reconnects(id) ==
    /\ Serves(id) /\ rec[id] = "detached" /\ holder[id] # "none"
    /\ UNCHANGED <<read, pending>> /\ Update(id, "running", handle, launch)
    /\ Outside /\ UNCHANGED <<callVars, processVars, faults>>

\* exited(): the session ends, closed or not, or it was going to sleep.
Ends(id) ==
    \/ Update(id, "exited", handle, launch)
    \/ Update(id, "exited", handle, launch \ {id})
    \/ /\ id \in launch /\ id \notin probed
       /\ Update(id, "hibernated", handle, launch)

\* The holder reported its exit, or reconnect() found it gone.  It has
\* removed its socket, or the actor does.
ActorEnds(id) ==
    /\ Serves(id) /\ id \notin start
    /\ \/ rec[id] \in {"running", "waking"} /\ holder[id] = "ended"
       \/ rec[id] \in {"detached", "waking"} /\ holder[id] = "none"
    /\ UNCHANGED <<read, pending>> /\ Ends(id)
    /\ holder' = [holder EXCEPT ![id] = "none"] /\ sock' = sock \ {id}
    /\ Outside /\ UNCHANGED <<callVars, missed, faults>>

\* Cmd::Close of a session that sleeps.
CloseAsleep(id) ==
    /\ Serves(id) /\ rec[id] = "hibernated"
    /\ UNCHANGED <<read, pending>>
    /\ Update(id, "exited", handle, launch \ {id})
    /\ Outside /\ UNCHANGED <<callVars, processVars, faults>>

\* The actor of an exited session is done once nobody is attached.
ActorGone(id) ==
    /\ Serves(id) /\ rec[id] = "exited"
    /\ handle' = handle \ {id}
    /\ UNCHANGED <<mode, rec, exited, writerVars, callVars, recoveryVars,
                   launch, processVars, starts, faults, answered>>

-----------------------------------------------------------------------------
(* wake(): one call at a time.                                             *)

\* The record is read, and its launch opened.
WakeLooks(id) ==
    /\ mode = "up" /\ call = NoCall /\ rec[id] \in {"hibernated", "exited"}
    /\ id \notin probed /\ id \in launch
    /\ call' = [id |-> id, at |-> "looked"]
    /\ UNCHANGED <<mode, catalogVars, writerVars, create, start, recoveryVars,
                   launch, processVars, starts, faults, answered>>

\* launch_lost(): the launch is gone or does not open; the record ends.
WakeFindsNoLaunch(id) ==
    /\ mode = "up" /\ call = NoCall /\ rec[id] = "hibernated"
    /\ UNCHANGED <<read, pending>>
    /\ Update(id, "exited", handle, launch \ {id})
    /\ Outside /\ UNCHANGED <<callVars, processVars, faults>>

\* A record without an actor: a close that came meanwhile must not be undone.
WakeChecks(id) ==
    /\ mode = "up" /\ call = [id |-> id, at |-> "looked"] /\ id \notin handle
    /\ call' = IF id \in launch THEN [id |-> id, at |-> "checked"] ELSE NoCall
    /\ UNCHANGED <<mode, catalogVars, writerVars, create, start, recoveryVars,
                   launch, processVars, starts, faults, answered>>

\* start_hibernated() and begin_wake() of the record read by the call.
\* Another thread may have removed it since the check.
WakeEnters(id) ==
    /\ mode = "up" /\ call = [id |-> id, at |-> "checked"]
    /\ call' = NoCall /\ start' = start \cup {id} /\ UNCHANGED <<read, pending>>
    /\ Update(id, "waking", handle \cup {id}, launch)
    /\ Outside /\ UNCHANGED <<create, processVars, faults>>

\* begin_wake(), unless the session was closed: its launch is gone then.
WakeBegins(id) ==
    /\ Serves(id) /\ rec[id] \in {"hibernated", "exited"}
    /\ call = [id |-> id, at |-> "looked"] /\ id \in launch
    /\ call' = NoCall /\ start' = start \cup {id} /\ UNCHANGED <<read, pending>>
    /\ Update(id, "waking", handle, launch)
    /\ Outside /\ UNCHANGED <<create, processVars, faults>>

\* The session was closed meanwhile.
WakeRefused(id) ==
    /\ Serves(id) /\ call = [id |-> id, at |-> "looked"] /\ id \notin launch
    /\ call' = NoCall
    /\ UNCHANGED <<mode, catalogVars, writerVars, create, start, recoveryVars,
                   launch, processVars, starts, faults, answered>>

\* start_holder() and spawned(): a holder that is there already loses its
\* socket to this one.  The record gets the pid of the holder.
HolderStarts(id) ==
    /\ Serves(id) /\ id \in start /\ rec[id] = "waking"
    /\ start' = start \ {id}
    /\ holder' = [holder EXCEPT ![id] = "live"] /\ sock' = sock \cup {id}
    /\ UNCHANGED <<read, pending>> /\ Update(id, "waking", handle, launch)
    /\ Outside /\ UNCHANGED <<create, call, missed, faults>>

\* wake_failed(): back to sleep, or the end of a session closed meanwhile.
WakeFails(id) ==
    /\ Serves(id) /\ id \in start /\ rec[id] = "waking"
    /\ start' = start \ {id}
    /\ UNCHANGED <<read, pending>>
    /\ \/ Update(id, "hibernated", handle, launch)
       \/ Update(id, "exited", handle, launch \ {id})
    /\ Outside /\ UNCHANGED <<create, call, processVars, faults>>

FinishWake(id) ==
    /\ Serves(id) /\ id \notin start /\ rec[id] = "waking"
    /\ UNCHANGED <<read, pending>> /\ Update(id, "running", handle, launch)
    /\ Outside /\ UNCHANGED <<callVars, processVars, faults>>

-----------------------------------------------------------------------------
(* Holders.                                                                *)

\* The agent ends; its holder keeps the exit for the next client.
HolderEnds(id) ==
    /\ holder[id] = "live"
    /\ holder' = [holder EXCEPT ![id] = "ended"] /\ missed' = missed \ {id}
    /\ UNCHANGED <<mode, catalogVars, writerVars, callVars, recoveryVars,
                   launch, sock, starts, faults, answered>>

\* A holder killed from outside leaves its socket file behind.
HolderKilled(id) ==
    /\ holder[id] # "none" /\ faults < MaxFaults
    /\ holder' = [holder EXCEPT ![id] = "none"] /\ missed' = missed \ {id}
    /\ faults' = faults + 1
    /\ UNCHANGED <<mode, catalogVars, writerVars, callVars, recoveryVars,
                   launch, sock, starts, answered>>

-----------------------------------------------------------------------------
(* The end of the daemon and the next one.                                 *)

\* What the daemon was doing is not finished.
TasksEnd ==
    /\ create' = [i \in Ids |-> IF create[i] = "no" THEN "no" ELSE "over"]
    /\ call' = NoCall /\ start' = {} /\ pending' = {}

\* daemon.shutdown or a signal: the runtime drops every task, then the state
\* file is flushed.
Stop ==
    /\ mode = "up" /\ mode' = "stopping"
    /\ TasksEnd /\ handle' = {}
    /\ UNCHANGED <<rec, exited, writerVars, read, probed, launch, processVars,
                   starts, faults, answered>>

\* Snapshots that never got to the disk.
Behind == ~Flushed \/ failed

\* The daemon is gone, with all it kept in memory.  A holder that the file
\* does not show is missed by the next one; after a write that failed so may
\* be a session that was answered.
Gone(hs) ==
    /\ mode' = "down"
    /\ rec' = NoRecords /\ handle' = {} /\ exited' = <<>>
    /\ next' = {} /\ busy' = {} /\ failed' = FALSE
    /\ TasksEnd /\ read' = NoRecords /\ holder' = hs
    /\ missed' = {i \in Ids : /\ hs[i] = "live"
                              /\ \/ i \in missed
                                 \/ Behind /\ file.s[i] # "running"}
    /\ answered' = IF failed THEN {i \in answered : file.s[i] # "none"}
                   ELSE answered
    /\ UNCHANGED <<file, damaged, probed, launch, sock, starts>>

MayEnd == mode # "down" /\ (EndsInLoad \/ file.whole)

Ended == mode = "stopping" /\ Flushed /\ Gone(holder) /\ UNCHANGED faults

Crash == MayEnd /\ Gone(holder) /\ UNCHANGED faults

\* The machine goes down: no holder is left, only its socket file.
Reboot ==
    /\ MayEnd /\ faults < MaxFaults /\ faults' = faults + 1
    /\ Gone([i \in Ids |-> "none"])

\* The state file is damaged while no daemon runs.  What it knew besides the
\* ids of the sockets is lost.
FileDamaged ==
    /\ mode = "down" /\ ~damaged /\ faults < MaxFaults
    /\ damaged' = TRUE /\ faults' = faults + 1
    /\ answered' = answered \cap sock
    /\ UNCHANGED <<mode, catalogVars, next, busy, file, failed, callVars,
                   recoveryVars, launch, processVars, starts>>

\* load_state(): the file is read, or set aside and the sockets looked at.
Start ==
    /\ mode = "down" /\ starts < MaxStarts /\ starts' = starts + 1
    /\ read' = IF damaged
               THEN [i \in Ids |-> IF i \in sock THEN "running" ELSE "none"]
               ELSE file.s
    /\ mode' = IF read' = NoRecords THEN "up" ELSE "loading"
    /\ file' = IF damaged THEN [s |-> NoRecords, whole |-> sock = {}] ELSE file
    /\ probed' = IF damaged THEN sock ELSE probed
    /\ damaged' = FALSE
    /\ UNCHANGED <<catalogVars, next, busy, failed, callVars, pending, launch,
                   processVars, faults, answered>>

\* One record is entered: a running one waits for its holder, a hibernated
\* one gets its actor if it can wake at all.
Loads(id) ==
    /\ mode = "loading" /\ read[id] # "none"
    /\ \A i \in Ids : i < id => read[i] = "none"
    /\ read' = [read EXCEPT ![id] = "none"]
    /\ mode' = IF read' = NoRecords THEN "up" ELSE "loading"
    /\ \/ /\ read[id] = "running" /\ pending' = pending \cup {id}
          /\ Update(id, "detached", handle, launch)
       \/ /\ read[id] = "hibernated" /\ id \in launch /\ UNCHANGED pending
          /\ Update(id, "hibernated", handle \cup {id}, launch)
       \/ /\ read[id] = "hibernated" /\ id \notin launch /\ UNCHANGED pending
          /\ Update(id, "exited", handle, launch)
       \/ /\ read[id] = "exited" /\ UNCHANGED pending
          /\ Update(id, "exited", handle, launch)
    /\ UNCHANGED <<busy, file, damaged, failed, callVars, probed, processVars,
                   starts, faults>>

\* reattach(): the holder answers and the session gets its actor.
Reattaches(id) ==
    /\ mode = "up" /\ id \in pending /\ holder[id] # "none"
    /\ pending' = pending \ {id} /\ UNCHANGED read
    /\ Update(id, "running", handle \cup {id}, launch)
    /\ Outside /\ UNCHANGED <<callVars, processVars, faults>>

\* Variant: a session that cannot sleep stays as it was listed.
ReattachLeaves(id) ==
    \/ /\ id \in probed /\ UNCHANGED exited /\ Drop(id, launch)
    \/ /\ id \notin probed /\ id \in launch
       /\ Update(id, "hibernated", handle \cup {id}, launch)
    \/ /\ id \notin probed /\ id \notin launch
       /\ Update(id, "detached", handle, launch)

\* Nobody answers: a probed session was a leftover (its files stay), one that
\* can be woken sleeps, any other has ended.
ReattachGivesUp(id) ==
    \/ /\ id \in probed /\ UNCHANGED exited /\ Drop(id, launch)
    \/ /\ id \notin probed /\ id \in launch
       /\ Update(id, "hibernated", handle \cup {id}, launch)
    \/ /\ id \notin probed /\ id \notin launch
       /\ Update(id, "exited", handle, launch)

\* A holder that does not answer in time counts as gone.
ReattachFails(id) ==
    /\ mode = "up" /\ id \in pending
    /\ pending' = pending \ {id} /\ UNCHANGED read
    /\ \/ holder[id] = "none" /\ UNCHANGED <<missed, faults>>
       \/ /\ holder[id] # "none" /\ faults < MaxFaults /\ faults' = faults + 1
          /\ missed' = IF holder[id] = "live" THEN missed \cup {id} ELSE missed
    /\ ReattachGivesUp(id)
    /\ Outside /\ UNCHANGED <<callVars, sock, holder>>

-----------------------------------------------------------------------------
Next ==
    \/ \E id \in Ids :
         \/ SessionRemove(id) \/ Expire(id)
         \/ CreateEnters(id) \/ CreateSpawns(id) \/ CreateFails(id)
         \/ CreateStarts(id) \/ CreateAnswers(id)
         \/ LinkLost(id) \/ Reconnects(id) \/ ActorEnds(id) \/ CloseAsleep(id)
         \/ ActorGone(id)
         \/ WakeLooks(id) \/ WakeFindsNoLaunch(id) \/ WakeChecks(id)
         \/ WakeEnters(id) \/ WakeBegins(id) \/ WakeRefused(id)
         \/ HolderStarts(id) \/ WakeFails(id) \/ FinishWake(id)
         \/ HolderEnds(id) \/ HolderKilled(id)
         \/ Loads(id) \/ Reattaches(id) \/ ReattachFails(id)
    \/ WriterTakes \/ Writes \/ WriteFails
    \/ Stop \/ Ended \/ Crash \/ Reboot \/ FileDamaged \/ Start

Spec == Init /\ [][Next]_vars

\* A create attaches to its holder or fails, in bounded time, and a restored
\* session is reattached or given up on after at most 10 s.
Fairness ==
    \A id \in Ids :
        /\ WF_vars(CreateSpawns(id) \/ CreateFails(id) \/ CreateStarts(id))
        /\ WF_vars(Reattaches(id) \/ ReattachFails(id))

FairSpec == Spec /\ Fairness

-----------------------------------------------------------------------------
\* The queue of exited sessions holds each exited record once, and never
\* more than MAX_EXITED of them.
TypeOK ==
    /\ mode \in {"down", "loading", "up", "stopping"}
    /\ rec \in [Ids -> Status] /\ handle \subseteq Ids
    /\ \A i \in handle : rec[i] # "none"
    /\ IsInjective(exited) /\ Len(exited) <= MaxExited
    /\ ToSet(exited) = {i \in Ids : rec[i] = "exited"}
    /\ next \in SUBSET Snapshot /\ Cardinality(next) <= 1
    /\ busy \in SUBSET Snapshot /\ Cardinality(busy) <= 1
    /\ file \in Snapshot /\ damaged \in BOOLEAN /\ failed \in BOOLEAN
    /\ create \in [Ids -> {"no", "entered", "spawned", "flushing", "over"}]
    /\ call \in [id : 0..NIds, at : {"idle", "looked", "checked"}]
    /\ start \subseteq Ids
    /\ read \in [Ids -> Saved] /\ pending \subseteq Ids /\ probed \subseteq Ids
    /\ launch \subseteq Ids /\ sock \subseteq Ids
    /\ holder \in [Ids -> {"none", "live", "ended"}]
    /\ starts \in 0..(MaxStarts + 1) /\ faults \in 0..MaxFaults
    /\ answered \subseteq Ids /\ missed \subseteq Ids

\* Once no snapshot waits and none is being written, the state file shows
\* the catalog, every change of it, unless the last write failed
\* (registry.rs flush: "Blocks until the state file shows every change made
\* so far").
FileShowsAll ==
    mode \in {"up", "stopping"} /\ Flushed /\ ~failed => file.s = Shown(rec)

\* What the daemon, or the next one, knows of a session.
Known(id) ==
    CASE mode = "down" -> damaged \/ file.s[id] # "none"
      [] mode = "loading" -> read[id] # "none" \/ rec[id] # "none"
      [] OTHER -> rec[id] # "none"

\* A session whose create was answered is known to this daemon and to every
\* later one until it is removed, forgotten as one exited session too many,
\* or lost to a write that failed or a damaged file (server.rs create_new:
\* "The answer promises a session that outlives a daemon crash").
AnswerOutlives == \A id \in answered : Known(id)

\* The record, or what was saved of it, says that the session has a process.
HasProcess(id) ==
    CASE mode = "down" -> damaged \/ file.s[id] = "running"
      [] mode = "loading" /\ read[id] # "none" -> read[id] = "running"
      [] OTHER -> rec[id] \in {"running", "detached", "waking"}

\* An agent runs only behind a record that says so, so a wake, which starts
\* an agent for a record that sleeps or ended, never starts a second one; not
\* where a restart missed the holder (wake.rs, lib.rs load_state).
AgentOnRecord ==
    \A id \in Ids : holder[id] = "live" /\ id \notin missed => HasProcess(id)

\* A listed session that has no actor yet and has not ended.
Awaiting(id) ==
    mode = "up" /\ rec[id] \notin {"none", "exited"} /\ id \notin handle

\* Whatever sessions wait for an actor, in a create or after a restart, there
\* comes a time when none does: each got one or ended, so a request that
\* waits for its session goes on (registry.rs awaiting_actor, lib.rs
\* reattach_all).
Settles == (\E id \in Ids : Awaiting(id)) ~> (\A id \in Ids : ~Awaiting(id))

==============================================================================
