----------------------------- MODULE Scheduler ------------------------------
(***************************************************************************)
(* The scheduler of sushiai-daemon (scheduler.rs): the engine behind its   *)
(* mutex, the drivers that carry out its decisions (the tick, and one task *)
(* per schedule.fire), the keyed session.create they go through, and the   *)
(* end and restart of the daemon between any two of their steps.           *)
(*                                                                         *)
(* A call of the engine is one action: it runs under the mutex and awaits  *)
(* nothing.  Everything a driver awaits comes between two actions.         *)
(*                                                                         *)
(* Out of the model: cron expressions (a plan lists its slots), last_fired *)
(* and the events sent to clients, which nothing in the daemon reads.      *)
(***************************************************************************)
EXTENDS Naturals, FiniteSets

CONSTANTS
    NEntries,     \* ids of entries, in the order of the engine's map
    Plans,        \* what schedule.set may ask for
    Jitter, Late, Window,
    MaxNow,       \* bound: the last time the clock shows
    MaxSessions,  \* bound: sessions ever started for entries
    Fires,        \* bound: schedule.fire requests at one time
    MaxFaults,    \* bound: saves of the file that fail
    MaxRestarts,  \* bound: ends of the daemon
    MaxRemoves    \* bound: entries removed

Entries == 1..NEntries
Times == 0..MaxNow
Sessions == 1..MaxSessions
TickDriver == 0
Drivers == 0..Fires

\* `timeout` 0: the plan sets none.
Plan == [slots : SUBSET Times, timeout : Nat, enabled : BOOLEAN]

ASSUME SchedulerAssumption ==
    /\ NEntries \in Nat \ {0} /\ MaxNow \in Nat /\ MaxSessions \in Nat
    /\ Fires \in Nat /\ MaxFaults \in Nat /\ MaxRestarts \in Nat
    /\ MaxRemoves \in Nat
    /\ Jitter \in Nat /\ Late \in Nat /\ Window \in Nat
    /\ Plans \subseteq Plan

VARIABLES
    now,
    \* the engine: its entries (a function on the ids in use), `booted`
    items, booted,
    \* schedules.json, and whether its last write failed
    file, unsaved,
    \* per driver: the steps it still has to carry out, entry by entry, the
    \* closes its launches led to, where its launch is, the session it made
    todo, ends, at, made,
    \* the keyed_create mutex: a driver or None
    keyLock,
    \* sessions: state, key (entry and slot), open asks
    st, key, asks,
    daemon,
    \* bounds and observations
    faults, restarts, removes, cut

engineVars == <<items, booted>>
fileVars == <<file, unsaved, faults>>
driverVars == <<todo, ends, at, made, keyLock>>
sessionVars == <<st, key, asks>>
vars == <<now, engineVars, fileVars, driverVars, sessionVars, daemon,
          restarts, removes, cut>>

\* `run` 0: no run.  `pending` is never in the file.
Item == [plan : Plans, anchor : Times, pending : BOOLEAN,
         run : 0..MaxSessions, started : Times, seen : Times, paused : Nat]

\* What one entry makes a driver do: close a session, then start one.
Work == [close : 0..MaxSessions, launch : BOOLEAN, slot : Times]
NoWork == [close |-> 0, launch |-> FALSE, slot |-> 0]
NothingToDo == [e \in Entries |-> NoWork]

None == Fires + 1

\* "lost": its holder runs, but no record of it is left.
SessionState == {"none", "up", "closing", "ended", "forgotten", "lost"}
Known == {s \in Sessions : st[s] \in {"up", "closing", "ended"}}

\* RegistryHost::probe
Alive(s) == st[s] \in {"up", "closing"}

HasRun(it) == it.run # 0
WithoutRun(it) == [it EXCEPT !.run = 0, !.started = 0, !.seen = 0, !.paused = 0]

Minus(a, b) == IF a > b THEN a - b ELSE 0

-----------------------------------------------------------------------------
(* The file.                                                               *)

\* What a write of the entries would put into the file.
Stored(its) == [e \in DOMAIN its |-> [its[e] EXCEPT !.pending = FALSE]]

\* save_logged(): a failed write leaves the old file.
Saved(its) ==
    \/ file' = Stored(its) /\ unsaved' = FALSE /\ UNCHANGED faults
    \/ /\ faults < MaxFaults /\ faults' = faults + 1
       /\ unsaved' = TRUE /\ UNCHANGED file

NotSaved == UNCHANGED fileVars

-----------------------------------------------------------------------------
(* Item::track                                                             *)

PausedNow(it) ==
    it.paused + (IF it.run \in asks THEN Minus(now, it.seen) ELSE 0)

TimedOut(it) ==
    /\ it.plan.timeout > 0
    /\ Minus(Minus(now, it.started), PausedNow(it)) >= it.plan.timeout

\* The entry forgets its run.
Settles(it, first) ==
    HasRun(it) /\ (first \/ ~Alive(it.run) \/ TimedOut(it))

\* Variant: a survivor of the last daemon is not closed.
ClosesTimedOut(it, first) == HasRun(it) /\ Alive(it.run) /\ TimedOut(it)

\* Variant: a run over its timeout is only forgotten.
ClosesSurvivor(it, first) == HasRun(it) /\ Alive(it.run) /\ first

\* ... and its session is closed.
ClosesRun(it, first) ==
    HasRun(it) /\ Alive(it.run) /\ (first \/ TimedOut(it))

Tracked(it, first) ==
    IF Settles(it, first) THEN WithoutRun(it)
    ELSE IF HasRun(it) THEN [it EXCEPT !.seen = now, !.paused = PausedNow(it)]
    ELSE it

-----------------------------------------------------------------------------
(* Item::due                                                               *)

\* The slots that passed since the last one that was dealt with.
Passed(it) == {t \in it.plan.slots : it.anchor < t /\ t + Jitter <= now}

Due(it) == it.plan.enabled /\ Passed(it) # {}

\* They collapse into the latest.
Slot(it) == CHOOSE t \in Passed(it) : \A u \in Passed(it) : u <= t

TooOld(it) ==
    now - (Slot(it) + Jitter) > Late /\ now - Slot(it) > Window

\* Variant: a start that is under way does not count.
BusyRunning(it) == HasRun(it)

\* Variant: only a start that is under way counts.
BusyPending(it) == it.pending

Busy(it) == HasRun(it) \/ it.pending

Starts(it) == Due(it) /\ ~TooOld(it) /\ ~Busy(it)

\* Run, skipped or dropped: the slot is dealt with.
Handled(it) ==
    IF Due(it)
    THEN [it EXCEPT !.anchor = Slot(it), !.pending = @ \/ Starts(it)]
    ELSE it

-----------------------------------------------------------------------------
Init ==
    /\ now = 0
    /\ items = [e \in {} |-> NoWork] /\ file = items
    /\ booted = FALSE /\ unsaved = FALSE
    /\ todo = [d \in Drivers |-> NothingToDo]
    /\ ends = [d \in Drivers |-> {}]
    /\ at = [d \in Drivers |-> "next"] /\ made = [d \in Drivers |-> 0]
    /\ keyLock = None
    /\ st = [s \in Sessions |-> "none"]
    /\ key = [s \in Sessions |-> <<1, 0>>]
    /\ asks = {}
    /\ daemon = "up"
    /\ faults = 0 /\ restarts = 0 /\ removes = 0 /\ cut = {}

-----------------------------------------------------------------------------
(* Requests of clients.                                                    *)

With(its, e, it) ==
    [x \in DOMAIN its \cup {e} |-> IF x = e THEN it ELSE its[x]]

\* Variant: an entry that is set owes every slot.
AnchorAlwaysFresh(e, plan) == 0

\* The same cron keeps the last handled slot, another one starts from now.
KeptAnchor(e, plan) ==
    IF e \in DOMAIN items /\ items[e].plan.slots = plan.slots
    THEN items[e].anchor ELSE now

NewItem(e, plan) ==
    IF e \in DOMAIN items
    THEN [items[e] EXCEPT !.plan = plan, !.anchor = KeptAnchor(e, plan)]
    ELSE [plan |-> plan, anchor |-> KeptAnchor(e, plan), pending |-> FALSE,
          run |-> 0, started |-> 0, seen |-> 0, paused |-> 0]

\* Engine::set.  A failed save is rolled back and reported.
Set(e, plan) ==
    /\ daemon = "up"
    /\ \/ /\ items' = With(items, e, NewItem(e, plan))
          /\ file' = Stored(items') /\ unsaved' = FALSE /\ UNCHANGED faults
       \/ /\ faults < MaxFaults /\ faults' = faults + 1
          /\ UNCHANGED <<items, file, unsaved>>
    /\ UNCHANGED <<now, booted, driverVars, sessionVars, daemon, restarts,
                   removes, cut>>

\* Engine::remove.  The session of the entry keeps running.
Remove(e) ==
    /\ daemon = "up" /\ e \in DOMAIN items
    /\ removes < MaxRemoves /\ removes' = removes + 1
    /\ items' = [x \in DOMAIN items \ {e} |-> items[x]]
    /\ Saved(items')
    /\ UNCHANGED <<now, booted, driverVars, sessionVars, daemon, restarts, cut>>

-----------------------------------------------------------------------------
(* The engine's decisions.                                                 *)

HasWork(d, e) == todo[d][e] # NoWork
Idle(d) == at[d] = "next" /\ todo[d] = NothingToDo /\ ends[d] = {}

\* Variant: what track() changed does not count.
DirtyByDue(it, first) == Due(Tracked(it, first))

\* What is stored changed, as track() and due() report it.
Dirty(it, first) == Settles(it, first) \/ Due(Tracked(it, first))

TickWork(it, first) ==
    LET tracked == Tracked(it, first) IN
    [close |-> IF ClosesRun(it, first) THEN it.run ELSE 0,
     launch |-> Starts(tracked),
     slot |-> IF Starts(tracked) THEN Slot(tracked) ELSE 0]

\* Scheduler::tick: once a second, after the last pass has done its steps.
\* The first one treats recorded runs as interrupted.
Tick ==
    /\ daemon = "up" /\ Idle(TickDriver)
    /\ items' = [e \in DOMAIN items |-> Handled(Tracked(items[e], ~booted))]
    /\ todo' = [todo EXCEPT ![TickDriver] =
           [e \in Entries |-> IF e \in DOMAIN items
                              THEN TickWork(items[e], ~booted) ELSE NoWork]]
    /\ IF \E e \in DOMAIN items : Dirty(items[e], ~booted)
       THEN Saved(items') ELSE NotSaved
    /\ booted' = TRUE
    /\ UNCHANGED <<now, ends, at, made, keyLock, sessionVars, daemon, restarts,
                   removes, cut>>

\* Unless the entry is busy, a start is under way from now on.
Fired(it) == [Tracked(it, FALSE) EXCEPT !.pending = @ \/ ~Busy(Tracked(it, FALSE))]

FireWork(it) ==
    LET starts == ~Busy(Tracked(it, FALSE)) IN
    [close |-> IF ClosesRun(it, FALSE) THEN it.run ELSE 0,
     launch |-> starts, slot |-> IF starts THEN now ELSE 0]

\* Scheduler::fire: outside the cron, on the task of the request.
Fire(d, e) ==
    /\ daemon = "up" /\ d # TickDriver /\ Idle(d) /\ e \in DOMAIN items
    /\ items' = [items EXCEPT ![e] = Fired(@)]
    /\ todo' = [todo EXCEPT ![d][e] = FireWork(items[e])]
    /\ Saved(items')
    /\ UNCHANGED <<now, booted, ends, at, made, keyLock, sessionVars, daemon,
                   restarts, removes, cut>>

-----------------------------------------------------------------------------
(* Scheduler::run: a driver carries out its steps, one after the other.    *)

Turn(d, e) ==
    /\ daemon # "down" /\ HasWork(d, e)
    /\ \A x \in Entries : HasWork(d, x) => e <= x

\* RegistryHost::close: a TERM for the session, if it still runs, and a KILL
\* after the grace.
Closes(s) == st' = IF st[s] = "up" THEN [st EXCEPT ![s] = "closing"] ELSE st

CloseRun(d, e) ==
    /\ at[d] = "next" /\ Turn(d, e) /\ todo[d][e].close # 0
    /\ Closes(todo[d][e].close)
    /\ todo' = [todo EXCEPT ![d][e].close = 0]
    /\ UNCHANGED <<now, engineVars, fileVars, ends, at, made, keyLock,
                   key, asks, daemon, restarts, removes, cut>>

\* The session of an entry that was removed while it started.
CloseUntracked(d, s) ==
    /\ daemon # "down" /\ at[d] = "next" /\ todo[d] = NothingToDo
    /\ s \in ends[d]
    /\ Closes(s)
    /\ ends' = [ends EXCEPT ![d] = @ \ {s}]
    /\ UNCHANGED <<now, engineVars, fileVars, todo, at, made, keyLock,
                   key, asks, daemon, restarts, removes, cut>>

\* Variant: only a session that still runs is found.
RunningByKey(k) == {s \in Known : key[s] = k /\ Alive(s)}

\* Registry::by_key
ByKey(k) == {s \in Known : key[s] = k}

\* server::create: one keyed create at a time; a known key is not started
\* again, and a stopping daemon starts nothing.
CreateBegins(d, e) ==
    /\ at[d] = "next" /\ Turn(d, e)
    /\ todo[d][e].close = 0 /\ todo[d][e].launch
    /\ keyLock = None
    /\ \/ /\ daemon = "stopping"
          /\ at' = [at EXCEPT ![d] = "report"] /\ UNCHANGED <<made, keyLock>>
       \/ /\ daemon = "up"
          /\ \E s \in ByKey(<<e, todo[d][e].slot>>) :
                 made' = [made EXCEPT ![d] = s]
          /\ at' = [at EXCEPT ![d] = "report"] /\ UNCHANGED keyLock
       \/ /\ daemon = "up" /\ ByKey(<<e, todo[d][e].slot>>) = {}
          /\ at' = [at EXCEPT ![d] = "making"] /\ keyLock' = d
          /\ UNCHANGED made
    /\ UNCHANGED <<now, engineVars, fileVars, todo, ends, sessionVars, daemon,
                   restarts, removes, cut>>

\* create_new(): the record is there before the child runs.
CreateRegisters(d, e) ==
    /\ at[d] = "making" /\ Turn(d, e)
    /\ \E s \in Sessions :
           /\ st[s] = "none" /\ \A x \in Sessions : x < s => st[x] # "none"
           /\ st' = [st EXCEPT ![s] = "up"]
           /\ key' = [key EXCEPT ![s] = <<e, todo[d][e].slot>>]
           /\ made' = [made EXCEPT ![d] = s]
    /\ at' = [at EXCEPT ![d] = "made"]
    /\ UNCHANGED <<now, engineVars, fileVars, todo, ends, keyLock, asks,
                   daemon, restarts, removes, cut>>

\* Variant: a create that fails keeps the lock.
CreateFailsLocked(d) ==
    /\ daemon # "down" /\ at[d] \in {"making", "made"}
    /\ st' = IF at[d] = "made"
             THEN [st EXCEPT ![made[d]] = "forgotten"] ELSE st
    /\ at' = [at EXCEPT ![d] = "report"] /\ made' = [made EXCEPT ![d] = 0]
    /\ UNCHANGED <<now, engineVars, fileVars, todo, ends, keyLock, key, asks,
                   daemon, restarts, removes, cut>>

\* It cannot be prepared or sealed, the child does not start, or nobody can
\* attach to it: a record that was made is forgotten, its holder killed.
CreateFails(d) ==
    /\ daemon # "down" /\ at[d] \in {"making", "made"}
    /\ st' = IF at[d] = "made"
             THEN [st EXCEPT ![made[d]] = "forgotten"] ELSE st
    /\ at' = [at EXCEPT ![d] = "report"] /\ made' = [made EXCEPT ![d] = 0]
    /\ keyLock' = None
    /\ UNCHANGED <<now, engineVars, fileVars, todo, ends, key, asks,
                   daemon, restarts, removes, cut>>

\* The state file is flushed before the create is answered.
CreateDone(d) ==
    /\ daemon # "down" /\ at[d] = "made"
    /\ at' = [at EXCEPT ![d] = "report"] /\ keyLock' = None
    /\ UNCHANGED <<now, engineVars, fileVars, todo, ends, made, st, key, asks,
                   daemon, restarts, removes, cut>>

\* Variant: a start that failed is still under way.
ReportedOk(it, s) ==
    IF s = 0 THEN it
    ELSE [it EXCEPT !.pending = FALSE, !.run = s, !.started = now,
                    !.seen = now, !.paused = 0]

Reported(it, s) ==
    IF s = 0 THEN [it EXCEPT !.pending = FALSE]
    ELSE [it EXCEPT !.pending = FALSE, !.run = s, !.started = now,
                    !.seen = now, !.paused = 0]

\* Engine::launched.  The entry may have been removed meanwhile, and may
\* even be another one with the same id.
Launched(d, e) ==
    /\ at[d] = "report" /\ Turn(d, e)
    /\ IF e \in DOMAIN items
       THEN items' = [items EXCEPT ![e] = Reported(@, made[d])] /\ UNCHANGED ends
       ELSE /\ ends' = [ends EXCEPT ![d] = @ \cup ({made[d]} \ {0})]
            /\ UNCHANGED items
    /\ Saved(items')
    /\ todo' = [todo EXCEPT ![d][e] = NoWork]
    /\ at' = [at EXCEPT ![d] = "next"] /\ made' = [made EXCEPT ![d] = 0]
    /\ UNCHANGED <<now, booted, keyLock, sessionVars, daemon, restarts,
                   removes, cut>>

-----------------------------------------------------------------------------
(* Sessions, the clock, and the daemon itself.                             *)

\* The agent ends by itself or by a close.
SessionEnds(s) ==
    /\ Alive(s) /\ \A d \in Drivers : at[d] = "made" => made[d] # s
    /\ st' = [st EXCEPT ![s] = "ended"] /\ asks' = asks \ {s}
    /\ UNCHANGED <<now, engineVars, fileVars, driverVars, key,
                   daemon, restarts, removes, cut>>

\* An ask of the session is opened or answered.
Ask(s) ==
    /\ Alive(s)
    /\ asks' = IF s \in asks THEN asks \ {s} ELSE asks \cup {s}
    /\ UNCHANGED <<now, engineVars, fileVars, driverVars, st, key,
                   daemon, restarts, removes, cut>>

\* session.remove, or the record is one of too many that ended.
Forget(s) ==
    /\ daemon = "up" /\ st[s] = "ended"
    /\ st' = [st EXCEPT ![s] = "forgotten"]
    /\ UNCHANGED <<now, engineVars, fileVars, driverVars, key, asks,
                   daemon, restarts, removes, cut>>

Pass ==
    /\ now < MaxNow /\ now' = now + 1
    /\ UNCHANGED <<engineVars, fileVars, driverVars, sessionVars, daemon,
                   restarts, removes, cut>>

RequestStop ==
    /\ daemon = "up" /\ restarts < MaxRestarts /\ daemon' = "stopping"
    /\ UNCHANGED <<now, engineVars, fileVars, driverVars, sessionVars,
                   restarts, removes, cut>>

\* Their records may not have reached the state file yet.
BeingMade == {made[d] : d \in {x \in Drivers : at[x] = "made"}}

\* The daemon ends, as asked or not: its tasks are dropped where they are,
\* with the KILL of a close whose grace is not over; the record of a session
\* that is being created may be missing from the state file; the next daemon
\* reads what the files say.
Stop ==
    /\ daemon # "down" /\ restarts < MaxRestarts
    /\ daemon' = "down" /\ restarts' = restarts + 1
    /\ items' = file /\ booted' = FALSE /\ unsaved' = FALSE
    /\ todo' = [d \in Drivers |-> NothingToDo]
    /\ ends' = [d \in Drivers |-> {}]
    /\ at' = [d \in Drivers |-> "next"] /\ made' = [d \in Drivers |-> 0]
    /\ keyLock' = None
    /\ \E missing \in SUBSET BeingMade :
           st' = [s \in Sessions |->
                     IF s \in missing THEN "lost"
                     ELSE IF st[s] = "closing" THEN "up" ELSE st[s]]
    /\ cut' = cut \cup {s \in Sessions : /\ Alive(s)
                            /\ \A e \in DOMAIN file : file[e].run # s}
    /\ UNCHANGED <<now, file, faults, key, asks, removes>>

\* Engine::load was part of Stop: nobody writes the file in between.
Start ==
    /\ daemon = "down" /\ daemon' = "up"
    /\ UNCHANGED <<now, engineVars, fileVars, driverVars, sessionVars,
                   restarts, removes, cut>>

-----------------------------------------------------------------------------
DriverStep(d) ==
    \/ \E e \in Entries :
           CloseRun(d, e) \/ CreateBegins(d, e) \/ CreateRegisters(d, e)
           \/ Launched(d, e)
    \/ \E s \in Sessions : CloseUntracked(d, s)
    \/ CreateFails(d) \/ CreateDone(d)

Next ==
    \/ \E e \in Entries, plan \in Plans : Set(e, plan)
    \/ \E e \in Entries : Remove(e)
    \/ Tick
    \/ \E d \in Drivers, e \in Entries : Fire(d, e)
    \/ \E d \in Drivers : DriverStep(d)
    \/ \E s \in Sessions : SessionEnds(s) \/ Ask(s) \/ Forget(s)
    \/ Pass \/ RequestStop \/ Stop \/ Start

Spec == Init /\ [][Next]_vars

\* Drivers run on their own; the mutex of the keyed create is a queue; a
\* session that is being closed ends.
Fairness ==
    /\ WF_vars(Tick)
    /\ \A d \in Drivers : SF_vars(DriverStep(d))
    /\ \A s \in Sessions : WF_vars(st[s] = "closing" /\ SessionEnds(s))

FairSpec == Spec /\ Fairness

-----------------------------------------------------------------------------
(* Properties.                                                             *)

EngineType ==
    /\ now \in Times /\ booted \in BOOLEAN /\ unsaved \in BOOLEAN
    /\ DOMAIN items \subseteq Entries
    /\ \A e \in DOMAIN items : items[e] \in Item
    /\ DOMAIN file \subseteq Entries
    /\ \A e \in DOMAIN file : file[e] \in Item /\ ~file[e].pending

DriverType ==
    /\ todo \in [Drivers -> [Entries -> Work]]
    /\ ends \in [Drivers -> SUBSET Sessions]
    /\ at \in [Drivers -> {"next", "making", "made", "report"}]
    /\ made \in [Drivers -> 0..MaxSessions]
    /\ keyLock \in Drivers \cup {None}

SessionType ==
    /\ st \in [Sessions -> SessionState]
    /\ key \in [Sessions -> Entries \X Times]
    /\ asks \subseteq Sessions

BoundType ==
    /\ daemon \in {"up", "stopping", "down"}
    /\ faults \in 0..MaxFaults /\ restarts \in 0..MaxRestarts
    /\ removes \in 0..MaxRemoves /\ cut \subseteq Sessions

\* Who holds the lock of the keyed create is creating.
LockHeld ==
    /\ \A d \in Drivers : (keyLock = d) <=> (at[d] \in {"making", "made"})
    /\ \A d \in Drivers : at[d] = "made" => made[d] # 0

\* Types, and what the phases of a create mean for its lock and its session.
TypeOK == EngineType /\ DriverType /\ SessionType /\ BoundType /\ LockHeld

\* A slot never has two sessions among those the daemon has a record of, not
\* even when the daemon ends between a start and its report, a save of the
\* anchor fails, or two drivers start for one slot: schedule:<id>:<slot> is
\* started once (scheduler.rs:576-582, server.rs:754-784).
OnePerSlot ==
    \A s, t \in Known : key[s] = key[t] => s = t

\* The last handled slot of an entry never moves back, whatever is set again
\* and whenever the daemon restarts, unless its save had failed: a slot that
\* was run, skipped or dropped is not looked at again (scheduler.rs:355-403).
AnchorsAdvance ==
    [][\A e \in DOMAIN items \cap DOMAIN items' :
           items'[e].anchor >= items[e].anchor \/ unsaved]_vars

\* What of an entry a restart must find.
Essence(it) == <<it.plan, it.anchor, it.run, it.started>>

\* Every change of an entry, its handled slot and its run reaches the file
\* with the call that made it: the `dirty` of a tick misses none of them.
FileIsCurrent ==
    ~unsaved =>
        /\ DOMAIN file = DOMAIN items
        /\ \A e \in DOMAIN items : Essence(file[e]) = Essence(items[e])

\* A driver is going to report or to close session s.
InHand(s) ==
    \E d \in Drivers : \/ made[d] = s \/ s \in ends[d]
                       \/ \E e \in Entries : todo[d][e].close = s

HasEntry(s) == \E e \in DOMAIN items : items[e].run = s

\* As long as no entry is removed, every session that runs is the run of its
\* entry or in the hands of a driver that will report or close it, except
\* for those an end of the daemon cut off.
RunsAreTracked ==
    removes = 0 =>
        \A s \in Sessions : st[s] = "up" => HasEntry(s) \/ InHand(s) \/ s \in cut

Closing(s) ==
    \E d \in Drivers : \/ s \in ends[d]
                       \/ \E e \in Entries : todo[d][e].close = s

\* An entry never has two sessions that run and that nobody is about to
\* close: a slot or a fire that finds a run, or a start under way, is skipped
\* (scheduler.rs:13).
NoOverlap ==
    removes = 0 =>
        \A s, t \in Sessions \ cut :
            /\ st[s] = "up" /\ ~Closing(s) /\ st[t] = "up" /\ ~Closing(t)
            /\ key[s][1] = key[t][1]
            => s = t

\* From the first tick of a daemon on, nothing runs without an entry that
\* tracks it (scheduler.rs:194-195).
NothingUntracked ==
    booted =>
        \A s \in Sessions : st[s] = "up" => HasEntry(s) \/ InHand(s)

\* A session over its timeout, and not waiting for an answer, is closed,
\* unless its entry was removed meanwhile.
Overdue(e, s) ==
    /\ daemon = "up" /\ e \in DOMAIN items /\ items[e].run = s
    /\ st[s] = "up" /\ s \notin asks /\ TimedOut(items[e])

TimeoutEnforced ==
    \A e \in Entries, s \in Sessions :
        Overdue(e, s) ~>
            \/ st[s] # "up" \/ daemon # "up" \/ s \in asks
            \/ e \in DOMAIN items /\ items[e].run = s /\ ~TimedOut(items[e])
            \/ removes > 0

\* A slot of an enabled entry that has come is run, skipped or dropped, and
\* the start it may have led to is reported: the entry is free for its next
\* slot, even when the start fails (scheduler.rs:511-514).
DueIsHandled ==
    \A e \in Entries :
        (daemon = "up" /\ e \in DOMAIN items /\ Due(items[e]))
            ~> \/ daemon # "up" \/ e \notin DOMAIN items
               \/ ~Due(items[e]) /\ ~items[e].pending

\* A run of the last daemon that survived it is closed by the new one,
\* unless its entry was removed meanwhile.
SurvivorsClosed ==
    \A e \in Entries, s \in Sessions :
        (/\ daemon = "up" /\ ~booted /\ e \in DOMAIN items
         /\ items[e].run = s /\ st[s] = "up")
            ~> st[s] # "up" \/ daemon # "up" \/ e \notin DOMAIN items
=============================================================================
