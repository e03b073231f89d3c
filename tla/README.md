# sushiAI: specifications and proofs

TLA+ specifications of the concurrent core of sushiAI, the TLC runs that check
them and the TLAPS proofs about them. Paths below are relative to the
repository; `daemon/` stands for `crates/sushiai-daemon/src/`.

## 1. The system

sushiAI is a desktop workspace for coding agents. A Rust daemon keeps terminal
sessions alive; every session's process runs under its own small *holder*
process, which survives the daemon. The desktop (Electron) and the command line
are clients of the daemon. On top of sessions sit schedules, routines and an
orchestrator of agent tasks.

| Component | State it keeps | Operations | What makes it correct |
|---|---|---|---|
| session actor, `daemon/session.rs` | the record (status, pid, agent), connection to the holder, timers, input queues, close flags | commands from clients (input, close, hook, hibernate, wake, ...), frames of the holder, timers | one agent per conversation; a closed session stays closed; typed input is kept in order; every close, sleep and wake ends |
| wake call, `daemon/wake.rs` | `wake_lock`; launch read so far | wake, launch_lost | one wake at a time; a close in between wins |
| holder, `crates/sushiai-hold` | child, ring of output, one client, exit code, socket path | attach, input, resize, close, exit | the exit is delivered once to an attached client; the last bytes are kept |
| launch store, `daemon/launch_store.rs` | sealed launch per session | seal, open, exists, delete | what sleeps can be opened |
| registry and state file, `daemon/registry.rs` | catalog of records and handles, snapshot for the writer thread, focus, settings | update, remove, prune, flush, sync of projects | the file is never older than a flush; no record is lost or revived |
| daemon start and stop, `daemon/lib.rs` | list of sessions that wait for an actor | load_state, probe_holders, reattach_all, prune loop, shutdown | after a crash every holder has one record and every record one state |
| client server, `daemon/server.rs` | connections, attached streams | create (with an idempotency key), attach, requests | one session per key; a stream without gaps |
| scheduler, `daemon/scheduler.rs` | entries, their anchor, current run, file | tick, fire, set, remove, launched | a slot runs once; runs of an entry do not overlap; a run is tracked until it ends |
| agent status, `crates/sushiai-agents/src/status.rs` | status, turns, asks, last hook | hooks, screen reads, exit, sweep | late or reordered hooks do not move the status back |
| hibernation rules, `crates/sushiai-core/src/hibernate.rs` | none, `BusyMeter` | decide, observe | no sleep with open asks, focus or pin |
| routines, `crates/sushiai-routines` | definitions, runs, asks | start, retry, settle, answer | one run at a time, retries bounded, asks answered once |
| orchestrator, `crates/sushiai-orch` | tasks, attempts, leases, graph, store | plan, run, verify, land, recover | no two tasks hold one path; a task lands once; recovery resumes each task in one place |
| desktop, `electron/` | client connections, terminals with flow credit, vault, projects | connect, attach, resync, ack | credit is never lost; a reconnect shows every byte |

**How they interact.** A client request reaches the server, which looks up the
actor's handle in the registry and sends it a command over a channel of 64. The
actor is one task with one `select!`: it takes a command, a frame of its
holder, or a timer, and handles it without awaiting anything (`reconnect` is
the exception). It talks to its holder over a Unix socket through a writer task
with a bounded queue. A wake spawns a task that waits for the old holder to be
gone, starts a new one and reports back with `Cmd::Spawned`. The end of a sleep
may spawn a wake call, which takes the lock that all wakes take. The registry
is shared state under a mutex.

**What is hard.** Reports that arrive after the state they belong to is over
(a late `Spawned`, a late exit, a kill timer of the last process, a wake that
was overtaken by a close); connections that drop while the process lives;
input between two processes; and everything that crosses a restart of the
daemon. `PROJECT.json` lists these hazards with their lines and the properties
that cover them. A hazard with no property is one the code does not handle, or
one the model does not reach; its note says which. Where a property covers a
hazard in part, the note says what it leaves out.

## 2. Plan

Done, in this order:

1. **`SessionActor`**: one session, its wake calls and its holders, with the
   abstract life `SessionLife` it implements, `SessionActorProofs` and, for the
   input, `SessionInputProofs`.
2. **`Scheduler`**: the engine under its mutex, the drivers of the tick and of
   `schedule.fire`, daemon restarts between any two steps, entries removed and
   set again; `SchedulerProofs`.
3. **`StateFile`**: the catalog, the writer thread, create and wake, a daemon
   that ends anywhere and what the next one makes of the file, the sockets and
   the holders; `StateFileProofs`.
4. **`OutputStream`**: ring, replay, the offset shift of a wake, the screen of an
   attached client; `OutputStreamProofs`.
5. **`TerminalFlow`**: the desktop's terminals with their credit, overflow and
   re-attach; `TerminalFlowProofs`.
6. **`Routines`**: one routine on top of the schedule, with its runs, retry,
   pause, lost events, restarts and the calls of its owner; `RoutinesProofs` and
   `RoutinesEndsProofs`.

Every invariant and every action property a passing run checks is also a
theorem; the liveness properties are only model-checked.  Left, in this order:

1. `AgentStatus`: the reducer of hooks and screen reads as a function, against a
   reference definition over bounded inputs.
2. `Leases`, then the task graph and landing of the orchestrator.
3. Dry runs, deletion, asks and approvals of routines.

`SessionActor`, `OutputStream` and `StateFile` are three views of one session:
`SessionActor` has every handler of the actor and one bit of output;
`OutputStream` has the bytes and of the actor only what moves them; `StateFile`
has the record and of the actor only what changes it, for several sessions.
Handlers that occur in two of them (begin_wake, exited, holder_lost, reconnect,
wake_failed) are modelled from the same lines. Runs are kept to a few per
module: one for safety, one for liveness where something must happen and the
state space asks for a smaller instance, one per disagreement found.

## 3. `SessionActor`

### State

| Variable | Code |
|---|---|
| `status`, `pid` | `info.status`, `info.holder_pid` (after a sleep: `dead_holder`) |
| `actor` | the task runs and its handle is in the registry |
| `link` | `holder` (0 for None), `holder_open`, `attaching`, and the frames not read yet: answer and exit |
| `killAt`, `retry`, `closePending` | `kill_at`, `retry`, `close_pending` |
| `hibernating`, `closing`, `closed`, `hasLaunch`, `wakeAsked` | fields of the same names |
| `sleepQueue`, `wake` | `sleep_queue`; `Wake`: hooked, output seen, queue |
| `launch` | the sealed file: sealed, damaged or none |
| `call`, `sleepWake`, `dropMsg` | how far the wake call is; the task at the end of a sleep; its `SleepInputDropped` |
| `gen`, `hold`, `client`, `sock`, `waitFor`, `spawned`, `killed` | holders by number, their one client, the socket path, the start tasks, children that got a KILL |
| `faults`, `typed`, `got`, `lost`, `dropped`, `ownerClosed` | bounds and observations |

Each handler is one action, with every call it makes. The actor awaits nothing
inside a handler, so a handler is atomic with respect to the session's own
state. The wake call is split where it awaits: asking the actor of a session
that runs (`Cmd::WakeAsked`, `WakeAsks`), reading the launch, preparing it,
starting an actor, sending `Cmd::Wake`. Frames on one connection keep their
order: the answer to an attach, then the exit, then the end of the connection.
A timer is armed or not and may fire at any time, with one exception: the cap
of a wake (20 s) comes after the start of a holder was reported (3 s and 10 s
at most) and after frames that can be read at once (`SpawnSettled`). Without a
watcher a wake therefore ends only after its start was reported, and a start
that is reported too late (`SpawnedTooLate`) is reached only in the runs with a
watcher. A start that was reported may still fail when the attach is sent over a
connection that broke meanwhile (`SpawnedBroken`).

`Watched` says whether a client may stay attached while a session exits; a
headless session that is kept for 120 s behaves the same. Without a watcher the
actor of an exited session ends, and most of what could go wrong goes with it.

### What is abstracted

Output is one bit (seen in this wake or not). A piece of input is a number.
Queues of requests do not fill up, so a TERM or an input put into a full queue
is not modelled, nor are `MAX_PENDING` and the 64 KiB limits. The decision to
sleep is free whenever the session may sleep. A removal by another thread
between the second look at the launch and the start of an actor (no await in
between) is in `StateFile` (`WakeChecks`, `WakeEnters`). Asks, foreground, screen, tail, resize: not modelled.

### Runs

| Run | Bounds | Shows |
|---|---|---|
| `session_owner` | 3 holders, 1 input, 1 fault, not watched | `TypeOK`, `OneAgent`, `NoOrphan`, `NoRevival`, `LifeSpec` |
| `session_input` | 2 holders, 2 inputs, 1 fault, watched | `KeptOnce`, `InOrder`, `NoStrayKill` |
| `session_live` | 2 holders, 2 inputs, no fault, not watched, fair | `CloseEnds`, `SleepEnds`, `WakeEnds`, `SleepInputSettles` |
| `session_watched_close` | 2 holders, watched, fair | `CloseEnds` is violated |

Three holders are the create and two wakes: the second wake is where leftovers
of the first would show. Two pieces of input are enough for one to overtake the
other. One fault drops a connection, kills a holder or damages the launch at
any point; a second one mostly repeats the first. `CHECK_DEADLOCK FALSE` is set
because a removed session has nothing left to do.

**Fairness.** `select!` picks among ready branches at random, so each branch of
the actor is weakly fair; the tasks that start holders, the holder's own
threads and the wake call run on their own; the mutex of the wake call is a
queue, so a task that waits for it gets it (strong fairness). A child that got
a KILL ends. No fairness for clients, for an agent that was only asked to end,
or for its output.

### Findings

- `session_watched_close`: after an exit in front of a watcher the dead
  connection stays in `holder`, and handlers that ask `holder.is_none()` take
  it for the new one. A KILL during the wake is lost while `closed` is set for
  good. With a watcher `OneAgent`, `NoOrphan`, `NoRevival` and
  `SleepsWithLaunch` fail for the same reason: the end of the old
  connection during a wake starts a reconnect, the reconnect finds no socket
  and ends the wake, while the new holder is still being started.
- Beside the runs: the KILL that ends the grace of a sleep is sent over whatever
  connection there is (`session.rs:520-526`). If that was lost at this moment
  nothing repeats it, `reconnect()` does not look at `hibernating`, and the
  session runs on, marked as going to sleep, and keeps its input for a sleep
  that never comes. With `MaxFaults = 1` in `session_live.cfg` TLC finds
  `SleepEnds` violated by it.
- Beside the runs: a client's wake that finds the session running sends
  `Cmd::WakeAsked` (`wake.rs:53-58`). If the actor reads it after the process of
  a sleep has ended, the session is asleep, `hibernating` is no longer set, and
  the wake is answered with Ok (`session.rs:701-704`) although the session stays
  asleep. No property speaks of this; the next wake finds it asleep and wakes it.

### Proofs (`SessionActorProofs`, `SessionInputProofs`)

All are for any number of holders, pieces of input and faults.

- `TypeCorrect`: `Spec => []TypeOK`. One lemma per action; the endings that
  several handlers share (`Exited`, `WakeFailed`, `FinishWake`) have lemmas of
  their own. `TypeOK` contains what the types alone do not give but need: there
  is a wake only while the session wakes.
- `KillsNeverStray`: `Spec => NoStrayKill`, through `KillsAreMeant`: while the
  kill timer runs, or a close is remembered, the owner closed the session or it
  is on its way to sleep. No assumption on watchers.
- `LifeInvariant`: `~Watched` implies `Spec => []LifeInv`. `LifeInv` says what
  the parts know of each other: a session without an actor has ended
  (`NoActorIsOver`); an open connection or a retry has a holder, a sleeper has
  none (`LinkSound`); only the newest holder is being started, for a session
  that wakes and has no connection (`StartIsCurrent`); the actor knows of the
  owner's close and a session that ended by it has no launch (`CloseKnown`);
  what sleeps or wakes has its launch (`LaunchKept`); the launch is read only
  at rest (`ReadsAtRest`). Each is needed: a start reported late would break
  `LinkSound` without `StartIsCurrent`, and the refinement needs `CloseKnown`
  and `LaunchKept` at every ending.
- From it: `SleepersKeepTheirLaunch`, `ActorImplementsLife` (the refinement of
  `SessionLife`, one step per action), `ClosedStaysClosed` (from the
  refinement: a step of `SessionLife` cannot leave `exited` when the session is
  closed and its launch gone).
- `OneAgentAtATime` and `NoAgentLeftBehind`: `~Watched` implies
  `Spec => []OneAgent` and `Spec => []NoOrphan`. On top of `LifeInv` they need
  what the actor cannot see (`HoldersInv`): the socket path belongs to the
  holder that is up, so an older one that ends late cannot unlink the path of a
  newer (`PathIsHeld`); a holder that is up is the newest, or the newest waits
  for it and its agent has ended (`UpIsNewest`); a session at rest has no agent
  and remembers the pid of the holder the next wake must wait for
  (`RestsAlone`); a connection, once there is one, leads to the newest holder
  (`LinkIsNewest`, `ClientIsLink`); an exit that is read has happened
  (`ExitIsTrue`); a start that failed left no holder (`ErrIsGone`). `RestsAlone`
  holds across an ending only by `PathIsHeld`, since `reconnect()` concludes
  from a missing path that nobody is left; and with a watcher `LinkIsNewest` is
  false (see the finding).
- `InputKeptOnce` and `InputInOrder`: `Spec => []KeptOnce` and
  `Spec => []InOrder`, whoever watches. Nine ways in which input moves (`Moves`:
  typed to the agent, to the sleep's queue or to the wake's, delivered, lost,
  dropped, taken over by a wake, or left alone) preserve `InputInv`: the queues
  and what was received ascend, what was received is below what waits, every
  piece is in one place, and the two queues are not filled together
  (`OneQueue`; without it what was typed during a sleep could be delivered
  behind what was typed in the wake). Each action is then one such move. That
  nothing is forgotten needs two more facts: input that waits for a sleep has an
  actor that keeps it and a process that still ends or no way back to one
  (`SleepersInput`), and once the session sleeps a task or a message is on its
  way (`WakeIsOwed`), also while another wake call still asks the actor: the task
  of the sleep has been spawned before that call can be answered.

Assumed: `BoundsAssumption` (naturals, at least one holder) and, where said,
`~Watched`. Only model-checked: everything with fairness, which is out of the
prover's reach.

## 4. `Scheduler`

### State

| Variable | Code |
|---|---|
| `now` | the clock, in seconds |
| `items`, `booted` | `Engine::items` (plan, anchor, `running` with its pauses, `pending`), `Engine::booted` |
| `file`, `unsaved` | `schedules.json`; whether its last write failed |
| `todo`, `ends`, `at`, `made` | per driver: the steps of its queue, entry by entry; the closes its launches led to; how far its launch is; the session it got |
| `keyLock` | the mutex `keyed_create` |
| `st`, `key`, `asks` | sessions by number: state, idempotency key (entry and slot), whether an ask is open |
| `daemon` | up, stopping, down |
| `faults`, `restarts`, `removes`, `cut` | bounds and observations |

A driver is the task of the tick or one request of `schedule.fire`. A call of
the engine (`set`, `remove`, `tick`, `fire_now`, `launched`) is one action: it
runs under the mutex and awaits nothing. Between two actions of a driver is
what it awaits: closing a session, and the create, which is split into taking
the lock (`CreateBegins`), the record and the start of the holder
(`CreateRegisters`), failure or flush (`CreateFails`, `CreateDone`) and the
report (`Launched`). A driver works through its entries in the order of the
map, the close of an entry before its launch, and the closes its launches led
to at the end, as `queue.extend` has it.

`Stop` may come at any point, also without a request: `select!` in `lib.rs`
drops the tick and its create where they are, and a crash does the same to
every task. The next daemon has what `schedules.json` and the state file say.
A session whose record had not been flushed may be lost to it (`lost`); a close
whose grace is not over loses its KILL, so the session may run on.

### What is abstracted

Cron and time zones: a plan is the set of its slots, and two plans have the
same cron if they have the same slots. Jitter is one number. `LOOKBACK_SECS`
and `MAX_SLOTS_PER_TICK`, events to clients and `last_fired_at` are left out.
The clock does not go back. One second may hold any number of steps. A session
sleeps or runs ("up"); that a close waits 12 s for the actor of a session that
is being restored, and then gives up, is not modelled. A session that ended or
was removed just before a crash is not revived: what an unflushed record does
belongs to `StateFile`. `MaxSessions` is a bound on the starts that work; more
starts fail, as they may at any time.

### Runs

| Run | Bounds | Shows |
|---|---|---|
| `scheduler_runs` | 1 entry with 2 slots and a timeout of 1 s, clock to 2, 2 sessions, 1 fire, 1 failed save, 1 restart, 1 removal | `TypeOK`, `OnePerSlot`, `FileIsCurrent`, `RunsAreTracked`, `NoOverlap` |
| `scheduler_live` | 2 plans for the entry, clock to 3, 1 session, 1 fire, 1 restart, fair | `TimeoutEnforced`, `DueIsHandled`, `SurvivorsClosed`, `AnchorsAdvance` |
| `scheduler_untracked` | as the first, without removal and failed save | `NothingUntracked` is violated |

What can go wrong is between the tick, a fire and a restart for one entry;
entries share only the file, the lock and the order of a driver's queue. Two
slots and two sessions are the least with which a run can overlap another or a
slot can be run twice. With `Late` 0, `Window` 1 and the clock at 3, a
slot at 2 is late but inside the window and a slot at 1 is too old. `CHECK_DEADLOCK` stays on: a session may
always be asked or the daemon started. One removal is enough for an entry to
be removed and set again while its session starts.

**Fairness.** The loop of the tick runs every second (weak); each driver is a
task, and the keyed lock is a queue, so a driver that waits for it gets it
(strong); a session that is being closed gets a KILL after the grace and ends
(weak). None for clients, asks, the clock, failures and restarts.

### Finding

- `scheduler_untracked`: a daemon that ends while a session of an entry is
  being started leaves a session that no later daemon closes or times out, as
  the run is recorded only after the create has returned; the comment in
  `scheduler.rs` promises the opposite. `RunsAreTracked` and `NoOverlap` leave
  out those sessions (`cut`) and runs in which an entry was removed: set again
  while its session starts, the new entry does not know of that start, and the
  second report overwrites the first run.

### Proofs (`SchedulerProofs`)

All are for any number of entries, sessions and fires, any plans, any clock,
and any number of failed saves, restarts and removals. Assumed:
`SchedulerAssumption` (the types of the constants, at least one entry).

- `TypeCorrect`: `Spec => []TypeOK`, one lemma per action. `TypeOK` contains
  what the create needs beside types: a driver has the lock exactly while it
  creates (`LockHeld`), and the file has no start under way. That the latest
  of the slots that passed exists (`Largest`) is by well-founded `<`.
- `SlotsRunOnce`: `Spec => []OnePerSlot`. `OnePerSlot` is not inductive: the
  driver looks for the key once and registers the session later. `MakingKeyFree`
  says that the look stays true, and it does because no other driver registers
  while the lock is taken.
- `FileStaysCurrent`: `Spec => []FileIsCurrent`, inductive with the types. Its
  one hard step is a tick that saves nothing: `CleanEntry` shows that an entry
  which `Dirty` leaves out has not changed in anything that is stored.
- `SlotsStayHandled`: `Spec => AnchorsAdvance`, from `AnchorsPast` (no slot is
  handled before it comes, so the fresh anchor of another cron is not behind
  the old one) and `FileStaysCurrent` (what a restart reads back).
- `RunsStayTracked` and `RunsNeverOverlap`: `Spec => []RunsAreTracked` and
  `Spec => []NoOverlap`, from `RunInv`. A driver past the start of its step has
  one launch in hand, and the session it got is of that entry (`HandInv`); a
  recorded run was started for its entry (`RecordInv`); an entry has a run, or
  one start in the hands of one driver, or neither (`OneAtATime`); a session
  that runs and is not about to be closed is recorded or about to be
  (`Accounted`). `OneAtATime` is what a report needs so as not to overwrite
  another run, and `Accounted` holds only with it. Both need that no entry was
  removed: a report for an entry that is gone, or is another one with the same
  id, breaks them (see the finding).

Only model-checked: the three liveness properties, which are out of the prover's
reach.

## 5. `StateFile`

### State

| Variable | Code |
|---|---|
| `mode` | the daemon is down, in `load_state`, serving, or past its last task with the final flush to do |
| `rec`, `handle` | `Catalog::sessions`: status of each record, and which have an actor's handle |
| `exited` | `Catalog::exited`, oldest first |
| `next`, `busy` | `Slot::next`, and the snapshot the writer thread has taken: sets of at most one |
| `create` | how far each `session.create` is: record entered, holder spawned, flush, over |
| `call`, `start` | the one wake call behind `wake_lock`; ids whose new holder is being started |
| `read`, `pending` | records of the file not yet entered; those that wait for `reattach` |
| `file`, `damaged`, `launch`, `sock`, `holder` | state file, sealed launches, socket files, holders (none, live, ended and not yet reported) |
| `probed` | ids known from their socket alone |
| `starts`, `faults`, `failed`, `answered`, `missed` | bounds and observations: last write failed, creates that were answered, holders a restart could not know of |

Every call of the registry is one action: it runs under the catalog's mutex and
ends with `save` (`Update`, `Drop`). The writer takes a snapshot and writes it
later (`WriterTakes`, `Writes`, `WriteFails`), so any change may be between the
two. `create_new` is split where it awaits, the wake call where it awaits and
once more between its second look at the launch and the entry of the record,
where another thread may remove it. Of the actor there is only what changes the
record, each handler as one action. `load_state` enters one record at a time,
as the writer runs beside it. A daemon may end between any two actions: by
`Stop` (the runtime drops its tasks, then a flush), by a crash or by a reboot
that takes the holders with it.

### What is abstracted

Titles, projects, groups, focus and the catalog file. The order of ids is the
order of creation. A record that goes takes its launch along, except that of a session
found by its socket alone whose holder does not answer: `forget_announced`
leaves its files (`Drop`). The report of a start (`Cmd::Spawned`) is one step with the
start itself; its races are those of `SessionActor`. A rename that is visible
counts as written: this is about daemons that end, not about disks that lose
what was renamed. `Expire` may come at any time. The hourly prune has no other
effect.

### Runs

| Run | Bounds | Shows |
|---|---|---|
| `statefile` | 2 sessions, 1 of them with a launch, 1 exited record kept, 2 daemons, 1 fault, no end in a load | `TypeOK`, `FileShowsAll`, `AnswerOutlives`, `AgentOnRecord`, `Settles` |
| `statefile_load` | 2 sessions, no launch, no fault, a daemon may end anywhere | `AnswerOutlives` is violated |

Two sessions are the least with which one record pushes another out of the
exited queue, or a snapshot shows one and not the other. A fault is a failed
write, a damaged file, a holder killed or too slow to answer, a connection
lost, or a reboot; a daemon that crashes costs nothing, so every fault meets a
crash at every point. `CHECK_DEADLOCK FALSE` because after the last daemon
nothing is left to do.

**Fairness.** A create gets an answer from the holder or fails
(`STARTUP_TIMEOUT`, and the connect after it); a reattach is answered or given
up on. Nothing else is fair: in particular not the writer, as `Settles` does not
need it.

**Left out of the properties.** `FileShowsAll` holds while the last write did
not fail: a failed write is a line in the log, `flush` returns and the create is
answered all the same. `AnswerOutlives` leaves out what only a failed write or a
damaged file knew. `AgentOnRecord` leaves out holders a restart could not know
of (`missed`): the daemon died while the snapshot with the running record was
still on its way, or the holder did not answer its reattach in time and the
record ended. A later wake of such a session starts a second agent next to the
first; nothing in the code rules that out.

### Findings

- `statefile_load`: `load_state` enters the records it read one after the other,
  and each entry submits a snapshot of those entered so far. A daemon that ends
  before the last of them is written leaves a state file without the rest.
- Beside the runs: the queue of exited sessions is "oldest first", but
  `load_state` enters records in the order of the file, which is by id, so after
  a restart the next one to be forgotten is not the oldest. `session.remove` of
  an exited session whose actor is still there, between the look-up of the
  handle and the actor reading `Cmd::Wake`, lets the actor's `update` insert the
  record again, without a handle. `closed` is not in the record: a restart
  forgets it, and only the deleted launch keeps the session from waking.

### Proofs (`StateFileProofs`)

For any number of sessions, launches, kept records, starts and faults. Assumed:
`BoundsAssumption` and, for `AnswerOutlivesHolds` and `AgentsAreOnRecord`,
`~EndsInLoad`.

- `FileShowsAllHolds`: `Spec => []FileShowsAll`. The invariant behind it
  follows the newest snapshot on its way: it is in `next`, else in `busy`, else
  in the file, and shows the catalog. A load is what makes it more than that:
  there the file may hold more than the catalog, until the last record is in.
- `AnswerOutlivesHolds`: `~EndsInLoad => (Spec => []AnswerOutlives)`. Every
  snapshot on its way to the disk has every session that was answered, and so
  does the file; a create is answered only once its record has reached the file
  or a later snapshot has, as `Flushed` says. Without `~EndsInLoad` a partial
  snapshot breaks it (the finding).

- `TypeCorrect`: `Spec => []TypeOK`. Most of it is the queue of exited
  sessions (`QueueInv`: each exited record once, in a sequence without
  duplicates, at most `MaxExited`). What `retain`, a push and a pop from the
  front do to such a sequence are lemmas (`WithoutFacts`, `AppendFacts`,
  `TailFacts`). `DropChange` shows why the other half of the invariant is
  needed: an id may leave the catalog without leaving the queue only if its
  record has not ended, and for a create that fails or a session that was
  looked for by its socket alone this is known from `Who`: while a session is
  created, and while it waits for its holder after a restart, nobody else
  changes its record (`Creating`, `Pends`), since no actor and no wake call has
  it in hand (`Calls`, `Starting`) and nothing knows of an id that was not yet
  created (`Untouched`).
- `AgentsAreOnRecord`: `~EndsInLoad => (Spec => []AgentOnRecord)`, by
  `AgentInv`. Besides the property it says that every holder can be found by
  its socket (a damaged file is replaced by what the sockets show), that a
  holder which is started replaces none, or one a restart missed
  (`StartsAlone`), and that in a load the file, while it is whole, shows every
  process there is (`FileShowsProcesses`). At the end of a daemon `FileShowsAll`
  says that the file has what the record had, or the holder counts as missed.
  Without `~EndsInLoad` it is false, and TLC has the counterexample: the file is
  damaged, the next daemon finds a holder by its socket, and a crash before that
  record is saved leaves a file without it.

Each action is first put into one of a few kinds (`CatalogStep`, `QuietStep`,
the writer's, the daemon's; `Change` for what happens to one record), and an
invariant is shown once per kind.

Only model-checked: `Settles`, which is liveness.

## 6. `OutputStream`

### State

| Variable | Code |
|---|---|
| `first`, `written`, `ended` | bytes of the session's earlier processes, of this one (`Ring::end`), and whether it has ended |
| `link` | the actor's connection: open at the holder's end, `hold.attach` asked or answered, frames on their way |
| `agent`, `sleeping`, `log`, `base`, `tail` | `info.status`, `hibernating`, what the screen was fed by offset (`seq` is its length), `base`, the tail file |
| `requests`, `serving`, `stream`, `wire` | one client connection of the server: requests, the attach under way, the stream task with its broadcast receiver, the outbox |
| `client`, `calls` | `attached` of `client.cjs`: the call, the next offset, what the screen shows, whether it waits for a snapshot |
| `life`, `restarts` | bounds |

A byte is its number over all processes, so a byte at the wrong offset, twice or
missing is told apart from the right one. The actor's handlers, the holder's
enqueue (a client whose queue is full is dropped in the middle of its frames),
the receiver that lags (`StreamResyncs`), and the client's reading of a frame
and of an answer, which is applied in a later microtask, are actions of their
own. `applySnapshot` first takes the snapshot (`Applied`), then goes through the
output that waited for it, a frame per `DeliverQueued`; the client does nothing
else while it is `Draining`, and what the daemon does meanwhile it does not see.
A ring keeps at least one byte (`RingCap > 0`; `RING_BYTES` is 2 MiB).

### What is abstracted

Sizes and their marks; the screen is the list of what it was fed since the last
reset, and a byte the ring had dropped has its place in it, although it leaves no
trace on a real screen: two screens are then the same only if they miss the same. Every exit is that of a session put to sleep, a wake starts from a
session that sleeps with its connection gone, and no holder is killed: the other
orders are those of `SessionActor`. Output of a process that outlives the agent,
write timeouts, a restart in the middle of a sleep or a wake, and the moment
between the abort of a stream task and its end are left out.

### Run

`stream`: two bytes, a ring of one, a holder queue of two, a backlog and an
outbox of one, two processes (one sleep and wake), two attaches and one restart.
With two bytes and a ring of one a reader can be too late for a byte; with
queues of one or two each of them can be full; the second attach may find the
stream of the first. It checks `TypeOK`, `FeedIsWhole`, `ScreenIsRight` and
`CatchesUp`. `CHECK_DEADLOCK FALSE`: once everything was written and read
nothing is left to do.

**Fairness.** The holder's threads, the tasks of the daemon and the reading of
the client run (weak). None for output, calls of the client, timeouts, lost
connections, sleeps and restarts.

**Left out of the properties.** `ScreenIsRight` leaves out a client that was
*overtaken*: the answer to an attach is applied in a microtask of its own, a
pushed `session.snapshot` when its frame is read, so when both are read together
the older one is applied last and output between them is missing until the next
snapshot, although `client.cjs` says "The daemon guarantees gapless output".

### Proofs (`OutputStreamProofs`)

For any ring, queues, output, number of processes, attaches and restarts;
assumed is `StreamAssumption`. The invariant has four parts, each over those before:

- `FeedInv` and `LinkInv`, from holder to screen. The frames on their way each
  begin no later than what comes before them reaches, or where the ring begins
  (`LinkIn`); so skipping what was seen and filling what is missing puts every
  byte at its offset, and only what the ring dropped is filled. An exit comes
  after everything that was written.
  `BytesOnScreenOnce`: `Spec => []FeedIsWhole`.
- `ServerInv`, the data of the server and the client: every chunk lies in the
  stream and has no reset among bytes (`ChunkIn`), every snapshot shows what
  the screen showed at its offset or was taken of a session that slept there
  (`RightIn`), and messages on the wire begin no later than where the one before
  ended (`WireIn`). It holds of a stream that goes on because of `Goes`: entries
  are only added, and after a sleep only a wake adds, which begins with a reset.
  `TypeCorrect`: `Spec => []TypeOK`.
- `OrderInv`, the requests: attaches are served and answered in their order, so
  an answer on the wire is of the call that waits or of one given up before, and
  a later answer shows a later offset.
- `ClientInv`, the client: what comes next on its way to an attached client
  begins no later than where the client is once it has taken its queue (`Joins`),
  and a client that waits will be able to join the snapshot that is served or on
  the wire (`Waits`), unless it has newer output already, which is what
  `overtaken` stands for. Once it has its answer no other is on its way
  (`NothingAsked`). `ScreenFollowsTheFeed`: `Spec => []ScreenIsRight`.
  `TailEndsWithTheWake` says what `ScreenIsRight` leaves open of a client that
  shows the tail of a sleep: the session sleeps and has nothing more for it, or
  what comes next clears its screen.

`FeedIsWhole` and `ScreenIsRight` say nothing of frames on their way, which is
why none of them is inductive. The one fact about screens that is needed
(`Fed` of a screen and a chunk is the screen of both) rests on the place of the
last reset; that there is a last one is shown by well-founded order on the
distances to the end, like `Largest` in `SchedulerProofs`.

The proof asked for two changes of the model. The output that waited for a
snapshot was applied in one step by a fold; what a fold computes is out of the
prover's reach, so the loop is now an action per frame. And the guards of
`OnFrame` overlapped: a client with no terminal attached could, by the meaning of
`CASE`, also take the branch of the message's kind. TLC takes the first branch,
so no run could show it; the guards are now exclusive, as the code's returns are.

Only model-checked: `CatchesUp`, which is liveness.

## 7. `TerminalFlow`

### State

| Variable | Code (`electron/daemon/terminals.cjs`) |
|---|---|
| `panel`, `entry`, `at` | `panels.get(panelId)`: the call of `attachPanel` whose entry it is; the entry each call made; where each call stands |
| `entry[c].from`, `.to` | the queue, as the interval of output it holds |
| `inFlight`, `stale`, `scheduled`, `resyncing`, `resyncDue`, `exitPending`, `closed` | fields of the same names; `due`: `reattach` was scheduled with `setImmediate`; `carry`: made by an overflow |
| `stream` | `attached` of `client.cjs`: the call that has the session's stream |
| `out`, `session`, `hostUp` | bytes and exit as far as this process has heard, and whether the host is still there |
| `mounted`, `owes`, `shown`, `told` | the renderer: is there a terminal, bytes it got and has not acked, the position it shows, was it told of the end |
| `exitAt`, `lost`, `overlapped`, `resyncs` | observations and bounds |

One action is one turn of the event loop: a call runs up to its `await`, and
other calls, output, acks and events come in between. `attachPanel` is split at
the answer to its detach (`Detached`) and at that to its attach (`Attached`,
`Refused`).

### What is abstracted

A flush is one message; a byte is one unit of credit (a character of several
bytes is not split). A reconnect by the manager is a snapshot that arrives
(`Resync`). Resize, attachments and ssh are left out.

### Run

`terminal_flow`: credit of two, a queue limit of one, snapshots of one byte,
four bytes of output, four calls of `attachPanel` of which three may be mounts,
one snapshot by itself, the host may be removed. The credit can run out in the
middle of a queue, a queue overflows while the old window is unacked, and an
overflow can follow an overflow. It checks `TypeOK`, `NoTear`, `Accounted`,
`ExitComesLast`, `Drains` and `ExitIsTold`.

**Fairness.** The event loop turns, the daemon answers or the call times out,
and the renderer acks what it has parsed (weak). None for output, mounts, exits
and the removal of the host.

**Left out of the properties**, each a way the code does not do what its
comments say:

- Acks that come while the re-attach of an overflow waits for the answer to its
  detach find no entry and are dropped (`lost`), while the new entry still
  counts their bytes in `stale`. `terminals.cjs:199-201` says of these bytes
  "they come back as acks". From then on a later ack is taken for one of the old
  window, the credit stays too low, and a resync may wait for a `stale` that
  never gets to 0. One mount and one overflow are enough for it.
- Two calls of `attachPanel` for one panel that overlap (`overlapped`): the
  second overwrites the entry of the first, or is refused as already attached.
- An exit that arrives while the re-attach of an overflow waits for the answer
  to its attach is told before the snapshot: the new entry is not `resyncing`.
- `session.exited` that arrives while the panel has no entry is not kept; the
  next attach has to find out.
- An unmount while a re-attach awaits its detach does not cancel it.

### Proofs (`TerminalFlowProofs`)

For any credit, queue limit, snapshot size, output and number of calls; assumed
is `FlowAssumption` only. `TypeOK`, `NoTear`, `Accounted` and `ExitComesLast`
follow from one invariant, `FlowInv == Base /\ (~overlapped => Alone)`:

- `Base` holds whatever calls meet: a queue is an interval that ends at or
  before `out`; an entry that is closed or has no stream yet has nothing to
  send (`Idle`); the panel's entry is live; only the call that has the session's
  stream is (`StreamOf`); the queue of an open entry that is not `resyncing`
  ends at `out` (`Current`).
- `Alone` holds until calls meet: one call at most awaits the daemon, a live
  entry is the panel's, its credit adds up (`Owed`), and the screen stands where
  its queue begins (`ShownIsFrom`). `Owed` must also speak of the entry of a call
  that awaits the answer to its detach, when the panel has none: that is how the
  credit gets across a re-attach, and where dropped acks (`lost`) come in.

Most actions change one entry in one of five ways, and the invariant is shown
once for each: bytes are sent (`SendStep`: flush, ack, exit), a snapshot arrives
(`SnapStep`), the panel's entry is closed (`CloseStep`), a call begins or goes on
(`AsksStep`, `AttachPanelStep`), a call is over (`OverStep`).

Only model-checked: `Drains` and `ExitIsTold`, which are liveness.

## 8. `Routines`

### State

| Variable | Code |
|---|---|
| `entry`, `booted`, `sess` | the daemon's entry `routine.<id>` (there, enabled, its run), `Engine::booted`, sessions by number: first those of slots, then those of retries |
| `conn`, `wire` | the connection of `listen()` and the `schedule.event`s on it |
| `enabled`, `failures`, `runs`, `proposal` | `routine.json`, `state.json`, the run records (session, retry session, status), what became of a session's queued proposals |
| `queue`, `claimed`, `retrying`, `due` | `Inner::events`, `Inner::claimed`, `Inner::retrying`; a resync that waits for `sync` |
| `job`, `now` | where the two threads stand: the worker of the events, and whoever holds `sync`; where `run_now` stands, which holds nothing |
| `upsets`, `untold`, `loose` | bound and observations |

A step is one call of the daemon, one write of a file or one critical section;
between any two of them another thread, the daemon or a fault may come in.
`conclude_as` is a chain of steps that either thread runs: claim the run and
settle its proposals, mark the record, count the failure, write the count, turn
the routine off, remove its entry (`Settles` to `Unschedules`). The worker gets
there from an event, or after a retry that it awaits; the caller from
`cancel_running` and from `reconcile`, one run after the other; both read the
list of runs in a step of their own, `cancel_running` after the entry went
(`Lists`). A retry first sets `retrying` (`RetryOnce`) and then creates its
session (`StartsRetry`); a slot may be accepted before either.

The code looks only at the newest records of a routine: 5 to find the run of a
session (`find_run`), 5 for what to cancel, 3 for what to settle after a restart.
These windows are the constants `FindRuns`, `CancelRuns` and `SettleRuns`.

The daemon is as
much of `Scheduler` as a routine sees: an entry fires when it has no run, tells
of the end or the timeout of its run, and on its first tick closes what it ran
before.

### What is abstracted

The answer of a session is a success, a failure or not valid, whatever it
printed; `done` stands for `noop` and `needs_you` too. A call that must fail
before it changes anything is one that does not happen. The timeouts are free.
A session that loses the connection to its holder shows as detached only after
a restart here. `retry_once` looks up the session of the agent between the mark
of the record and `retrying`, and the three are one step, since what comes in
between meets neither. Dry runs (whose records also take places in the windows),
deletion, the pruning of all but 30 records (`KEEP_RUNS`), asks and approvals
(with the entry `record_accepted` sets again, `service.rs:1896-1898`), worktrees,
and files that cannot be read or written are not modelled.

### Run

`routines`: two slots, one retry, a pause after two failures (three in the
code), windows of one record (5, 5 and 3 in the code; with two slots a wider one
would never bite), and two upsets: each is a call of the owner, a restart, a lost
connection, a lost event, or a failing call of a pause or a resync. A call of
the daemon that fails inside a call of the owner is free. Two slots are the
least with which a run can be concluded while another is under way, a retry can
meet a slot, and failures can add up to a pause; with two upsets a call can
meet a restart, a lost connection or another call. `CHECK_DEADLOCK FALSE`: at
the bounds nothing is left to do. No fairness is stated: `NoneForgotten` says
that somebody is going to conclude each run, which is what liveness would need.

- `ConcludedOnce`: worker, owner and reconcile may all reach the end of a run;
  its record is settled once, and its proposals before that.
- `EntryFollowsStore`: when nobody is at work on it, the entry fires exactly
  while the routine is on.
- `NoneForgotten`: a recorded run that is under way has somebody who is going to
  hear of its end.  It leaves out a run that ended and that newer ones pushed out
  of the window of a reconcile.

**Left out of the properties**, each a way the code does not do what its
comments say, or that it leaves to the next resync:

- `loose`: a pause is not under `sync` (`service.rs:1924`). A save that has read
  the routine as on, then the pause, then the save's write turns the routine on
  again, although `service.rs:561` says "A save never turns a routine on"; a
  resync or `run_now` in the place of the save leaves an entry for a routine
  that is off. `suspend` takes the entry away on purpose. A removal that fails
  in a pause, a resync or after a save is only logged or reported.
- `untold`: the last word about a session is lost when it has not ended and the
  connection drops (the reconcile pass sees it run and leaves it), when a reader
  lags (`listen()` ignores the `session.resync` that tells of it), or when its
  entry is removed by a changed save or by a pause while it runs, or before its
  `fired` event was handled, or for a call that cancels only the newest five
  runs: nobody hears of its end or enforces its timeout until a later connection.
- A run whose end was lost is found by the next reconcile only while it is one of
  the three newest (`service.rs:1449`). When three newer runs are recorded before
  the resync gets `sync`, the old one stays "running" for good: no later pass
  looks at it.

Beside the properties, TLC shows in this model: after a mere lost connection
during a retry the reconcile pass concludes the run as "daemon restarted" while
its retry runs on (`service.rs:1441` speaks of "a daemon that stopped"); a slot
that is accepted just before `retrying` is set runs next to the retry; the slot
that is skipped for a retry ends with an event for which `run_for` makes a record
that may count as a failure.

### Proofs (`RoutinesProofs`, `RoutinesEndsProofs`)

For any number of slots and retries, any `PauseAfter` and any number of calls and
faults, and any width of the three windows from one record up; assumed is
`RoutinesAssumption` only. All four properties of the run are
theorems, from three invariants, each of which rests on the ones before it:

- `Inv == Types /\ Claims` gives `TypeOK` and `ConcludedOnce`. `Claims` says that a
  run is in `claimed` exactly while one thread stands between claim and mark
  with it, that this run is still running, and that the runs a thread works on
  have a record. `ConcludedOnce` needs it at `Marks`: the write of the record
  has no guard of its own, and only the claim says that nobody has written it
  since. `StepSafe` shows the invariant and the action property together.
- `Follows == Shape /\ (~loose => Agrees)` gives `EntryFollowsStore`. Away from the
  threads entry and store agree; `Agrees` says what holds at each step of a
  call, of a pause and of `run_now` instead: what is set already, what is yet to
  be written, and that what the thread decided (`keep`, `then`, `now`) is still
  true. `Shape` says where a caller concludes runs: in its two loops only.
- `Handed` gives `NoneForgotten`, which is not inductive for two reasons. A thread
  that has marked a run still names it, so `Handed` counts a thread only at a
  step from which it concludes the run (`AtIt`), and a thread that finds its run
  claimed by the other leaves it to that one (`NotClaimed`, from `Claims`). And
  an event may name a session that has no record yet: when its record is
  written, the run must already be in somebody's hands, so `Handed` says it of
  the sessions the events name, and that a session has one record. With a window
  of one record the last needs an argument: an event that names a session whose
  record is out of the window of `find_run` would have a second one made. `InOrder`
  rules that out. Events and records come in the order of their sessions, so an
  event on its way names the newest record, one that is final already, or a
  session that has none.

Nothing of `Routines` is only model-checked; the liveness that would follow from
`NoneForgotten` (each run is concluded) is not stated.
