---------------------------- MODULE SessionActor ----------------------------
(***************************************************************************)
(* The life of one session of sushiai-daemon: the actor that serves it     *)
(* (session.rs), the wake call that starts its agent again (wake.rs), and  *)
(* the holder processes the actor talks to (sushiai-hold).                 *)
(*                                                                         *)
(* Holders are numbered in the order they are started: holder 1 belongs to *)
(* the create, every wake starts the next one.  Timers (kill_at, retry,    *)
(* the wake cap) fire at any moment while they are armed.                  *)
(*                                                                         *)
(* Out of the model: the screen and its offsets, resizes, permission asks, *)
(* the agent's own status, and the replies a client waits for.             *)
(***************************************************************************)
EXTENDS Naturals, Sequences, FiniteSets

CONSTANTS
    MaxGen,    \* bound: holders ever started for the session
    MaxInput,  \* bound: pieces of input clients type
    MaxFaults, \* bound: connections dropped and holders killed from outside
    Watched    \* a client may stay attached to the session while it exits

ASSUME BoundsAssumption ==
    /\ MaxGen \in Nat /\ MaxGen > 0 /\ MaxInput \in Nat /\ MaxFaults \in Nat
    /\ Watched \in BOOLEAN

Gens == 1..MaxGen

VARIABLES
    \* the record, and what the actor keeps in memory
    status, actor, pid, link, killAt, retry, closePending, hibernating,
    closing, closed, hasLaunch, wakeAsked, sleepQueue, wake,
    \* the sealed launch file, the wake call (wake.rs) and its messages
    launch, call, sleepWake, dropMsg,
    \* holders: process, current client, socket path, start task
    gen, hold, client, sock, waitFor, spawned, killed,
    \* bounds and observations
    faults, typed, got, lost, dropped, ownerClosed

actorVars == <<status, actor, pid, link, killAt, retry, closePending,
               hibernating, closing, closed, hasLaunch, wakeAsked>>
inputVars == <<typed, got, lost, dropped>>
wakeCallVars == <<launch, call, sleepWake, dropMsg>>
holdVars == <<gen, hold, client, sock, waitFor, spawned, killed>>
vars == <<actorVars, sleepQueue, wake, wakeCallVars, holdVars, inputVars,
          faults, ownerClosed>>

Status == {"running", "detached", "hibernated", "waking", "exited", "removed"}
HoldState ==
    {"none", "waiting", "serving", "ended", "reported", "gone", "killed"}

\* The actor's connection: the holder it leads to (0: `holder` is None),
\* holder_open, attaching, and the frames that wait to be read from it.
Link == [gen : 0..MaxGen, open : BOOLEAN, attaching : BOOLEAN,
         answered : BOOLEAN, exit : BOOLEAN]
NoLink == [gen |-> 0, open |-> FALSE, attaching |-> FALSE,
           answered |-> FALSE, exit |-> FALSE]
NewLink(g) == [gen |-> g, open |-> TRUE, attaching |-> TRUE,
               answered |-> FALSE, exit |-> FALSE]

\* `Option<Wake>` is Some exactly while the status is "waking".
NoWake == [hooked |-> FALSE, output |-> FALSE, queue |-> <<>>]

Elems(q) == {q[i] : i \in 1..Len(q)}

\* The task of an exited session ends at once unless somebody is attached.
Serves == actor /\ (status \in {"exited", "removed"} => Watched)

LinkUp == link.gen # 0 /\ client[link.gen] \in {"actor", "attached"}

\* A holder process is there, whatever its child does.
Up(g) == hold[g] \in {"serving", "ended", "reported"}

\* The actor drops its connection; holder g loses a client that was it.
ClientsWithoutLink ==
    [g \in Gens |-> IF g = link.gen THEN "none" ELSE client[g]]

\* What a KILL request does: the child is doomed if the request gets there.
KillChild == IF LinkUp /\ hold[link.gen] = "serving"
             THEN killed \cup {link.gen} ELSE killed

-----------------------------------------------------------------------------
Init ==
    /\ status = "running" /\ actor = TRUE /\ pid = 1
    /\ link = [NewLink(1) EXCEPT !.attaching = FALSE]
    /\ killAt = FALSE /\ retry = FALSE /\ closePending = "none"
    /\ hibernating = FALSE /\ closing = FALSE /\ closed = FALSE
    /\ wakeAsked = FALSE /\ sleepQueue = <<>> /\ wake = NoWake
    /\ launch \in {"sealed", "none"} /\ hasLaunch = (launch = "sealed")
    /\ call = "idle" /\ sleepWake = "none" /\ dropMsg = FALSE
    /\ gen = 1
    /\ hold = [g \in Gens |-> IF g = 1 THEN "serving" ELSE "none"]
    /\ client = [g \in Gens |-> IF g = 1 THEN "attached" ELSE "none"]
    /\ sock = 1 /\ waitFor = [g \in Gens |-> 0]
    /\ spawned = [g \in Gens |-> "no"] /\ killed = {}
    /\ faults = 0 /\ typed = 0 /\ got = <<>> /\ lost = {} /\ dropped = {}
    /\ ownerClosed = FALSE

-----------------------------------------------------------------------------
(* Endings shared by several handlers.                                     *)

\* Somebody typed or asked during the grace.
WakeAfterSleep == sleepQueue # <<>> \/ wakeAsked

\* Variant: the kill timer survives the sleep.
HibernatedKeepsTimer ==
    /\ status' = "hibernated" /\ hibernating' = FALSE
    /\ retry' = FALSE /\ closePending' = "none"
    /\ link' = NoLink /\ client' = ClientsWithoutLink
    /\ wakeAsked' = FALSE
    /\ sleepWake' = IF WakeAfterSleep THEN "asked" ELSE sleepWake
    /\ UNCHANGED <<killAt, wake, launch, dropped>>

\* hibernated(): the process ended because the session went to sleep.  The
\* pid stays as `dead_holder`: the next holder waits for that one to be gone.
Hibernated ==
    /\ status' = "hibernated" /\ hibernating' = FALSE
    /\ killAt' = FALSE /\ retry' = FALSE /\ closePending' = "none"
    /\ link' = NoLink /\ client' = ClientsWithoutLink
    /\ wakeAsked' = FALSE
    /\ sleepWake' = IF WakeAfterSleep THEN "asked" ELSE sleepWake
    /\ UNCHANGED <<wake, launch, dropped>>

\* exited(): the record ends; a closed session loses its launch and tail.
\* The connection is left as it is.
Ended(isClosing) ==
    /\ status' = "exited"
    /\ killAt' = FALSE /\ retry' = FALSE /\ closePending' = "none"
    /\ dropped' = dropped \cup Elems(wake.queue) /\ wake' = NoWake
    /\ launch' = IF isClosing THEN "none" ELSE launch
    /\ link' = [link EXCEPT !.exit = FALSE]
    /\ UNCHANGED <<hibernating, client, wakeAsked, sleepWake>>

Exited(isClosing) ==
    IF hibernating /\ ~isClosing THEN Hibernated ELSE Ended(isClosing)

\* Variant: the end of the connection counts as the end of the process.
HolderLostIsExit ==
    /\ link' = [link EXCEPT !.open = FALSE, !.attaching = FALSE]
    /\ status' = "exited"
    /\ UNCHANGED retry

\* holder_lost(): not an exit; the actor tries the socket again.
HolderLost ==
    /\ link' = [link EXCEPT !.open = FALSE, !.attaching = FALSE]
    /\ status' = IF status = "running" THEN "detached" ELSE status
    /\ retry' = (retry \/ status \notin {"exited", "hibernated", "removed"})

\* Variant: the wake is looked at and not taken.
FinishWakeKeepsIt(l, up) ==
    /\ status' = "running"
    /\ got' = IF up THEN got \o wake.queue ELSE got
    /\ UNCHANGED <<wake, lost>>

\* finish_wake() over the connection `l`: the input typed meanwhile goes in.
\* Without a holder it waits for `spawned`.  `up` says whether `l` still is up.
FinishWake(l, up) ==
    IF l.gen = 0
    THEN /\ wake' = [wake EXCEPT !.hooked = TRUE]
         /\ UNCHANGED <<status, got, lost>>
    ELSE /\ status' = "running" /\ wake' = NoWake
         /\ got' = IF up THEN got \o wake.queue ELSE got
         /\ lost' = IF up THEN lost ELSE lost \cup Elems(wake.queue)

\* Variant: a session closed while it woke goes back to sleep.
WakeFailedSleeps(p) ==
    /\ status' = "hibernated" /\ pid' = 0
    /\ dropped' = dropped \cup Elems(wake.queue) /\ wake' = NoWake
    /\ link' = NoLink /\ client' = ClientsWithoutLink
    /\ closePending' = "none"
    /\ UNCHANGED <<hibernating, killAt, retry, wakeAsked, sleepWake, launch>>

\* wake_failed(): back to sleep, or the end of a session closed meanwhile,
\* whose record keeps the holder p.
WakeFailed(p) ==
    IF closing THEN Exited(TRUE) /\ pid' = p
    ELSE /\ status' = "hibernated" /\ pid' = 0
         /\ dropped' = dropped \cup Elems(wake.queue) /\ wake' = NoWake
         /\ link' = NoLink /\ client' = ClientsWithoutLink
         /\ closePending' = "none"
         /\ UNCHANGED <<hibernating, killAt, retry, wakeAsked, sleepWake,
                        launch>>

-----------------------------------------------------------------------------
(* Commands of clients.                                                    *)

\* Cmd::Input: kept while the session wakes or its process ends for a sleep,
\* else sent on.  Input that cannot be sent is refused and not counted.
InputQueuedForWake ==
    /\ status = "waking"
    /\ wake' = [wake EXCEPT !.queue = Append(@, typed')]
    /\ UNCHANGED <<sleepQueue, got>>

InputQueuedForSleep ==
    /\ status = "running" /\ hibernating
    /\ sleepQueue' = Append(sleepQueue, typed')
    /\ UNCHANGED <<wake, got>>

\* Variant: a waking session with a connection sends at once.
InputSentWhileWaking ==
    /\ status \in {"running", "waking"} /\ ~hibernating /\ LinkUp
    /\ got' = Append(got, typed')
    /\ UNCHANGED <<wake, sleepQueue>>

InputSent ==
    /\ status = "running" /\ ~hibernating /\ LinkUp
    /\ got' = Append(got, typed')
    /\ UNCHANGED <<wake, sleepQueue>>

Input ==
    /\ Serves /\ typed < MaxInput /\ typed' = typed + 1
    /\ InputQueuedForWake \/ InputQueuedForSleep \/ InputSent
    /\ UNCHANGED <<actorVars, wakeCallVars, holdVars, lost, dropped, faults,
                   ownerClosed>>

\* Cmd::Close of a session that sleeps: it ends as exited.
CloseAsleep ==
    /\ status = "hibernated"
    /\ Exited(TRUE)
    /\ UNCHANGED killed

\* Variants: the session ends at once; the close is forgotten.
CloseLaterEnds(graceful) ==
    /\ status = "detached" \/ (status = "waking" /\ link.gen = 0)
    /\ Exited(TRUE)
    /\ UNCHANGED killed

CloseLaterForgets(graceful) ==
    /\ status = "detached" \/ (status = "waking" /\ link.gen = 0)
    /\ UNCHANGED <<status, hibernating, killAt, retry, closePending, link,
                   client, wakeAsked, sleepWake, wake, launch, dropped, killed>>

\* Cmd::Close without a connection: remembered until there is one.
CloseLater(graceful) ==
    /\ status = "detached" \/ (status = "waking" /\ link.gen = 0)
    /\ closePending' = IF graceful THEN "term" ELSE "kill"
    /\ UNCHANGED <<status, hibernating, killAt, retry, link, client, wakeAsked,
                   sleepWake, wake, launch, dropped, killed>>

\* Cmd::Close over the connection; after a TERM the kill timer runs.
CloseNow(graceful) ==
    /\ status \in {"running", "exited"} \/ (status = "waking" /\ link.gen # 0)
    /\ killed' = IF ~graceful /\ status # "exited" THEN KillChild ELSE killed
    /\ killAt' = (killAt \/ (graceful /\ status # "exited"))
    /\ UNCHANGED <<status, hibernating, retry, closePending, link, client,
                   wakeAsked, sleepWake, wake, launch, dropped>>

Close(graceful) ==
    /\ Serves /\ status # "removed"
    /\ closing' = TRUE /\ closed' = TRUE
    /\ ownerClosed' = (ownerClosed \/ status # "exited")
    /\ CloseAsleep \/ CloseLater(graceful) \/ CloseNow(graceful)
    /\ UNCHANGED <<actor, pid, hasLaunch, sleepQueue, call, dropMsg, gen,
                   hold, sock, waitFor, spawned, typed, got, lost, faults>>

\* Variant: no kill after the TERM.
SleepTermOnly == hibernating' = TRUE /\ UNCHANGED killAt

\* hibernate_now(), hibernate_tick() and can_sleep().
MaySleep ==
    status = "running" /\ ~hibernating /\ hasLaunch /\ link.gen # 0

\* go_to_sleep(): a TERM goes out and the kill timer runs.  The exit that
\* follows is the sleep.
SleepTerm == hibernating' = TRUE /\ killAt' = TRUE

GoToSleep ==
    /\ Serves /\ MaySleep /\ SleepTerm
    /\ UNCHANGED <<status, actor, pid, link, retry, closePending, closing,
                   closed, hasLaunch, wakeAsked, sleepQueue, wake,
                   wakeCallVars, holdVars, inputVars, faults, ownerClosed>>

\* Cmd::Hook from the agent that holds the session's token: the newest one.
\* It finishes a wake; in any other state only the agent status changes.
Hook ==
    /\ Serves /\ status = "waking" /\ Up(gen) /\ ~wake.hooked
    /\ FinishWake(link, LinkUp)
    /\ UNCHANGED <<actor, pid, link, killAt, retry, closePending, hibernating,
                   closing, closed, hasLaunch, wakeAsked, sleepQueue,
                   wakeCallVars, holdVars, typed, dropped, faults, ownerClosed>>

\* Cmd::Expire: a session that slept 30 days removes itself (its actor ends).
Expire ==
    /\ Serves /\ status = "hibernated"
    /\ status' = "removed" /\ launch' = "none" /\ actor' = FALSE
    /\ dropped' = dropped \cup Elems(sleepQueue) /\ sleepQueue' = <<>>
    /\ dropMsg' = FALSE
    /\ link' = NoLink /\ client' = ClientsWithoutLink
    /\ killAt' = FALSE /\ retry' = FALSE /\ closePending' = "none"
    /\ hibernating' = FALSE /\ closing' = FALSE /\ closed' = FALSE
    /\ hasLaunch' = FALSE /\ wakeAsked' = FALSE
    /\ UNCHANGED <<pid, wake, call, sleepWake, gen, hold, sock, waitFor,
                   spawned, killed, typed, got, lost, faults, ownerClosed>>

\* Cmd::SleepInputDropped: the wake that followed a sleep failed.
SleepInputDropped ==
    /\ Serves /\ dropMsg
    /\ dropMsg' = FALSE /\ wakeAsked' = FALSE
    /\ dropped' = dropped \cup Elems(sleepQueue) /\ sleepQueue' = <<>>
    /\ UNCHANGED <<status, actor, pid, link, killAt, retry, closePending,
                   hibernating, closing, closed, hasLaunch, wake, launch, call,
                   sleepWake, holdVars, typed, got, lost, faults, ownerClosed>>

-----------------------------------------------------------------------------
(* Frames of the holder, and timers.                                       *)

\* answer() to hold.attach: the holder is reachable, and a close that waited
\* goes out.
ReadAnswer ==
    /\ Serves /\ link.open /\ link.answered
    /\ link' = [link EXCEPT !.answered = FALSE, !.attaching = FALSE]
    /\ status' = IF status = "waking" THEN "waking" ELSE "running"
    /\ pid' = link.gen
    /\ closePending' = "none"
    /\ killed' = IF closePending = "kill" THEN KillChild ELSE killed
    /\ killAt' = (killAt \/ closePending = "term")
    /\ UNCHANGED <<actor, retry, hibernating, closing, closed, hasLaunch,
                   wakeAsked, sleepQueue, wake, wakeCallVars, gen, hold,
                   client, sock, waitFor, spawned, inputVars, faults,
                   ownerClosed>>

\* output_chunk() while the session wakes; the stream itself is another model.
ReadOutput ==
    /\ Serves /\ status = "waking" /\ ~wake.output
    /\ link.open /\ ~link.answered /\ LinkUp
    /\ client[link.gen] = "attached"
    /\ hold[link.gen] = "serving" \/ link.exit
    /\ wake' = [wake EXCEPT !.output = TRUE]
    /\ UNCHANGED <<actorVars, sleepQueue, wakeCallVars, holdVars, inputVars,
                   faults, ownerClosed>>

\* hold.exited
ReadExit ==
    /\ Serves /\ link.open /\ ~link.answered /\ link.exit
    /\ Exited(closing)
    /\ UNCHANGED <<actor, pid, closing, closed, hasLaunch, sleepQueue, call,
                   dropMsg, gen, hold, sock, waitFor, spawned, killed, typed,
                   got, lost, faults, ownerClosed>>

\* The end of the connection, behind every frame still buffered in it.
ReadEof ==
    /\ Serves /\ link.open /\ ~link.answered /\ ~link.exit /\ ~LinkUp
    /\ HolderLost
    /\ UNCHANGED <<actor, pid, killAt, closePending, hibernating, closing,
                   closed, hasLaunch, wakeAsked, sleepQueue, wake,
                   wakeCallVars, holdVars, inputVars, faults, ownerClosed>>

\* kill_at: fire and forget over whatever connection there is.
KillFires ==
    /\ Serves /\ killAt
    /\ killAt' = FALSE /\ killed' = KillChild
    /\ UNCHANGED <<status, actor, pid, link, retry, closePending, hibernating,
                   closing, closed, hasLaunch, wakeAsked, sleepQueue, wake,
                   wakeCallVars, gen, hold, client, sock, waitFor, spawned,
                   inputVars, faults, ownerClosed>>

\* reconnect(): one client per holder, so an older connection is dropped.
Reconnected ==
    /\ sock # 0 /\ Up(sock)
    /\ link' = NewLink(sock)
    /\ client' = [ClientsWithoutLink EXCEPT ![sock] = "actor"]
    /\ retry' = FALSE
    /\ UNCHANGED <<status, killAt, closePending, hibernating, wakeAsked,
                   sleepWake, wake, launch, dropped, sock>>

\* The socket path is gone, or nobody answers there and the recorded holder is
\* dead.
HolderGone ==
    /\ sock # 0 => ~Up(sock) /\ pid # 0 /\ ~Up(pid)
    /\ sock' = 0
    /\ Exited(closing)

Reconnect ==
    /\ Serves /\ retry
    /\ Reconnected \/ HolderGone
    /\ UNCHANGED <<actor, pid, closing, closed, hasLaunch, sleepQueue, call,
                   dropMsg, gen, hold, waitFor, spawned, killed, typed, got,
                   lost, faults, ownerClosed>>

\* No holder is being started: WAKE_CAP (20 s) is longer than HOLDER_GONE_WAIT
\* (3 s) and STARTUP_TIMEOUT (10 s) together, so the cap comes later.
SpawnSettled ==
    \A g \in Gens : hold[g] # "waiting" /\ spawned[g] = "no"

\* Frames the actor would read at once, and not only after WAKE_CAP.
FrameReady == link.open /\ (link.answered \/ link.exit \/ ~LinkUp)

\* wake_check() after quiet output.
WakeQuiet ==
    /\ Serves /\ status = "waking" /\ wake.output
    /\ FinishWake(link, LinkUp)
    /\ UNCHANGED <<actor, pid, link, killAt, retry, closePending, hibernating,
                   closing, closed, hasLaunch, wakeAsked, sleepQueue,
                   wakeCallVars, holdVars, typed, dropped, faults, ownerClosed>>

\* Variant: the cap only gives up, it does not finish.
WakeCapGivesUp ==
    /\ Serves /\ status = "waking" /\ SpawnSettled /\ ~FrameReady
    /\ link.gen = 0
    /\ WakeFailed(pid)
    /\ UNCHANGED <<got, lost, actor, closing, closed, hasLaunch, sleepQueue,
                   call, dropMsg, gen, hold, sock, waitFor, spawned, killed,
                   typed, faults, ownerClosed>>

\* wake_check() at the cap.
WakeCap ==
    /\ Serves /\ status = "waking" /\ SpawnSettled /\ ~FrameReady
    /\ IF link.gen # 0
       THEN /\ FinishWake(link, LinkUp)
            /\ UNCHANGED <<pid, link, killAt, retry, closePending, hibernating,
                           wakeAsked, sleepWake, launch, client, dropped>>
       ELSE WakeFailed(pid) /\ UNCHANGED <<got, lost>>
    /\ UNCHANGED <<actor, closing, closed, hasLaunch, sleepQueue, call,
                   dropMsg, gen, hold, sock, waitFor, spawned, killed, typed,
                   faults, ownerClosed>>

\* Cmd::Spawned for a session that does not wake any more: the new holder's
\* process group is killed.
SpawnedTooLate(g) ==
    /\ status # "waking"
    /\ hold' = IF Up(g) THEN [hold EXCEPT ![g] = "killed"] ELSE hold
    /\ client' = [client EXCEPT ![g] = "none"]
    /\ UNCHANGED <<status, pid, link, killAt, retry, closePending, hibernating,
                   wakeAsked, sleepWake, wake, launch, got, lost, dropped>>

SpawnedOk(g) ==
    /\ status = "waking" /\ spawned[g] = "ok"
    /\ pid' = g /\ link' = NewLink(g)
    /\ client' = [ClientsWithoutLink EXCEPT ![g] =
                     IF client[g] = "task" THEN "actor" ELSE "none"]
    /\ IF wake.hooked THEN FinishWake(NewLink(g), client[g] = "task")
                      ELSE UNCHANGED <<status, wake, got, lost>>
    /\ UNCHANGED <<killAt, retry, closePending, hibernating, wakeAsked,
                   sleepWake, launch, dropped, hold>>

SpawnedErr(g) ==
    /\ status = "waking" /\ spawned[g] = "err"
    /\ WakeFailed(pid)
    /\ UNCHANGED <<hold, got, lost>>

\* The connection of the new holder broke before the attach was sent: its
\* process group is killed.
SpawnedBroken(g) ==
    /\ status = "waking" /\ spawned[g] = "ok" /\ client[g] # "task"
    /\ hold' = IF Up(g) THEN [hold EXCEPT ![g] = "killed"] ELSE hold
    /\ WakeFailed(g)
    /\ UNCHANGED <<got, lost>>

Spawned(g) ==
    /\ Serves /\ spawned[g] # "no"
    /\ spawned' = [spawned EXCEPT ![g] = "no"]
    /\ \/ SpawnedTooLate(g) \/ SpawnedOk(g)
       \/ SpawnedErr(g) \/ SpawnedBroken(g)
    /\ UNCHANGED <<actor, closing, closed, hasLaunch, sleepQueue, call,
                   dropMsg, gen, sock, waitFor, killed, typed, faults,
                   ownerClosed>>

\* The actor of an exited session with nobody attached ends: run() leaves its
\* loop, and everything it kept in memory goes with it.
ActorEnds ==
    /\ actor /\ status \in {"exited", "removed"}
    /\ actor' = FALSE
    /\ link' = NoLink /\ client' = ClientsWithoutLink
    /\ killAt' = FALSE /\ retry' = FALSE /\ closePending' = "none"
    /\ hibernating' = FALSE /\ closing' = FALSE /\ closed' = FALSE
    /\ hasLaunch' = FALSE /\ wakeAsked' = FALSE
    /\ dropped' = dropped \cup Elems(sleepQueue) /\ sleepQueue' = <<>>
    /\ dropMsg' = FALSE
    /\ UNCHANGED <<status, pid, wake, launch, call, sleepWake, gen, hold, sock,
                   waitFor, spawned, killed, typed, got, lost, faults,
                   ownerClosed>>

\* `me.upgrade()` finds no actor: the connection is dropped, nobody is told.
SpawnedToNobody(g) ==
    /\ ~actor /\ spawned[g] # "no"
    /\ spawned' = [spawned EXCEPT ![g] = "no"]
    /\ client' = [client EXCEPT ![g] = "none"]
    /\ UNCHANGED <<actorVars, sleepQueue, wake, wakeCallVars, gen, hold, sock,
                   waitFor, killed, inputVars, faults, ownerClosed>>

-----------------------------------------------------------------------------
(* The wake call (wake.rs).  It holds `wake_lock`, so there is one at a    *)
(* time; `call` is how far it is: "asking" an actor whose process ends,     *)
(* "reading" the launch, "opened" it, or "started" an actor for a record    *)
(* that had none.  Its caller is a client, or the task spawned at the end   *)
(* of a sleep (`sleepWake`).                                                *)

CallReturnsOk ==
    /\ call' = "idle"
    /\ sleepWake' = IF sleepWake = "calling" THEN "none" ELSE sleepWake
    /\ UNCHANGED dropMsg

\* Variant: the actor is not told that its wake failed.
CallFailsSilently ==
    /\ call' = "idle"
    /\ sleepWake' = IF sleepWake = "calling" THEN "none" ELSE sleepWake
    /\ UNCHANGED dropMsg

CallFails ==
    /\ call' = "idle"
    /\ sleepWake' = IF sleepWake = "calling" THEN "none" ELSE sleepWake
    /\ dropMsg' = (dropMsg \/ (sleepWake = "calling" /\ actor))

\* The launch of a session that sleeps or has exited is read next; one that
\* runs is asked to come back if its process ends for a sleep.
WakeBegins(byTask) ==
    /\ status \in {"hibernated", "exited", "running"}
    /\ call' = IF status = "running" THEN "asking" ELSE "reading"
    /\ sleepWake' = IF byTask THEN "calling" ELSE sleepWake

\* Any other is left as it is.
WakeNotNeeded(byTask) ==
    /\ status \notin {"hibernated", "exited", "running"}
    /\ sleepWake' = IF byTask THEN "none" ELSE sleepWake
    /\ UNCHANGED call

WakeCall(byTask) ==
    /\ call = "idle" /\ (byTask => sleepWake = "asked")
    /\ WakeBegins(byTask) \/ WakeNotNeeded(byTask)
    /\ UNCHANGED <<actorVars, sleepQueue, wake, launch, dropMsg, holdVars,
                   inputVars, faults, ownerClosed>>

\* Cmd::WakeAsked.  A process that is gone by then is not asked any more.
WakeAsks ==
    /\ call = "asking"
    /\ \/ Serves /\ wakeAsked' = (wakeAsked \/ hibernating) /\ CallReturnsOk
       \/ ~Serves /\ UNCHANGED wakeAsked /\ CallFails
    /\ UNCHANGED <<status, actor, pid, link, killAt, retry, closePending,
                   hibernating, closing, closed, hasLaunch, sleepQueue, wake,
                   launch, holdVars, inputVars, faults, ownerClosed>>

LaunchOpens ==
    /\ call = "reading" /\ launch = "sealed"
    /\ call' = "opened"
    /\ UNCHANGED <<actorVars, sleepQueue, wake, launch, sleepWake, dropMsg,
                   holdVars, inputVars, faults, ownerClosed>>

\* launch_lost() with an actor that sleeps: Cmd::LaunchLost ends the record.
LaunchLostAsleep ==
    /\ Serves /\ status = "hibernated"
    /\ closing' = TRUE /\ status' = "exited" /\ launch' = "none"
    /\ killAt' = FALSE /\ retry' = FALSE /\ closePending' = "none"

\* launch_lost() of any other session only drops its files; a command to an
\* actor that just ended is lost.
LaunchLostElse ==
    /\ ~(Serves /\ status = "hibernated")
    /\ launch' = IF actor /\ ~Serves THEN launch ELSE "none"
    /\ UNCHANGED <<closing, status, killAt, retry, closePending>>

LaunchGone ==
    /\ call = "reading" /\ launch # "sealed"
    /\ LaunchLostAsleep \/ LaunchLostElse
    /\ CallFails
    /\ UNCHANGED <<actor, pid, link, hibernating, closed, hasLaunch, wakeAsked,
                   sleepQueue, wake, holdVars, inputVars, faults, ownerClosed>>

\* The key is not available, or the launch cannot be prepared.
WakeGivesUp ==
    /\ call \in {"reading", "opened"}
    /\ CallFails
    /\ UNCHANGED <<actorVars, sleepQueue, wake, launch, holdVars, inputVars,
                   faults, ownerClosed>>

\* Variant: the launch is not looked for again.
MayStartActorUnchecked == ~actor

\* No actor: a close that came after the launch was read is not undone.
MayStartActor == ~actor /\ launch # "none"

WakeStartsActor ==
    /\ call = "opened" /\ MayStartActor /\ gen < MaxGen
    /\ call' = "started"
    /\ actor' = TRUE /\ status' = "hibernated" /\ hasLaunch' = TRUE
    /\ UNCHANGED <<pid, link, killAt, retry, closePending, hibernating, closing,
                   closed, wakeAsked, sleepQueue, wake, launch, sleepWake,
                   dropMsg, holdVars, inputVars, faults, ownerClosed>>

\* The launch went away, the actor is ending, or the owner closed the session.
WakeRefused ==
    /\ call \in {"opened", "started"}
    /\ \/ launch = "none" /\ (~actor \/ status = "removed")
       \/ actor /\ ~Serves
       \/ Serves /\ closed
    /\ CallFails
    /\ UNCHANGED <<actorVars, sleepQueue, wake, launch, holdVars, inputVars,
                   faults, ownerClosed>>

\* Variant: what was typed before the sleep is forgotten.
ForgetSleepInput == wake' = NoWake /\ sleepQueue' = <<>>

TakeSleepInput ==
    wake' = [NoWake EXCEPT !.queue = sleepQueue] /\ sleepQueue' = <<>>

\* Cmd::Wake: begin_wake() and the task it spawns for the new holder.
BeginWake ==
    /\ call \in {"opened", "started"} /\ Serves /\ ~closed
    /\ status \in {"hibernated", "exited"} /\ gen < MaxGen
    /\ status' = "waking"
    /\ closing' = FALSE /\ hibernating' = FALSE
    /\ TakeSleepInput
    /\ gen' = gen + 1
    /\ hold' = [hold EXCEPT ![gen + 1] = "waiting"]
    /\ waitFor' = [waitFor EXCEPT ![gen + 1] = pid]
    /\ pid' = 0
    /\ CallReturnsOk
    /\ UNCHANGED <<actor, link, killAt, retry, closePending, closed, hasLaunch,
                   wakeAsked, launch, client, sock, spawned, killed, inputVars,
                   faults, ownerClosed>>

-----------------------------------------------------------------------------
(* Holders (sushiai-hold) and the task that starts one.                    *)

\* holder_gone(): the old process or its socket path is gone, or three seconds
\* have passed.  A holder whose exit was delivered ends sooner than that.
OldHolderAway(g) ==
    sock # 0 /\ waitFor[g] # 0 => hold[waitFor[g]] # "reported"

SpawnUp(g) ==
    /\ hold[g] = "waiting" /\ OldHolderAway(g)
    /\ hold' = [hold EXCEPT ![g] = "serving"] /\ sock' = g
    /\ client' = [client EXCEPT ![g] = "task"]
    /\ spawned' = [spawned EXCEPT ![g] = "ok"]
    /\ UNCHANGED <<actorVars, sleepQueue, wake, wakeCallVars, gen, waitFor,
                   killed, inputVars, faults, ownerClosed>>

\* start_holder() of a holder that cannot be reached removes its path.
SpawnFails(g) ==
    /\ hold[g] = "waiting" /\ OldHolderAway(g)
    /\ hold' = [hold EXCEPT ![g] = "gone"] /\ sock' \in {sock, 0}
    /\ spawned' = [spawned EXCEPT ![g] = "err"]
    /\ UNCHANGED <<actorVars, sleepQueue, wake, wakeCallVars, gen, client,
                   waitFor, killed, inputVars, faults, ownerClosed>>

\* The child ends, by itself or killed.  deliver_exit() tells an attached
\* client at once.
ChildExits(g) ==
    /\ hold[g] = "serving"
    /\ IF client[g] = "attached"
       THEN /\ hold' = [hold EXCEPT ![g] = "reported"]
            /\ link' = [link EXCEPT !.exit = TRUE]
       ELSE /\ hold' = [hold EXCEPT ![g] = "ended"]
            /\ UNCHANGED link
    /\ UNCHANGED <<status, actor, pid, killAt, retry, closePending, hibernating,
                   closing, closed, hasLaunch, wakeAsked, sleepQueue, wake,
                   wakeCallVars, gen, client, sock, waitFor, spawned, killed,
                   inputVars, faults, ownerClosed>>

\* dispatch() of hold.attach: the answer, then an exit not yet delivered.
HoldAttach(g) ==
    /\ Up(g) /\ client[g] = "actor"
    /\ client' = [client EXCEPT ![g] = "attached"]
    /\ link' = [link EXCEPT !.answered = TRUE, !.exit = (hold[g] = "ended")]
    /\ hold' = IF hold[g] = "ended" THEN [hold EXCEPT ![g] = "reported"]
                                    ELSE hold
    /\ UNCHANGED <<status, actor, pid, killAt, retry, closePending, hibernating,
                   closing, closed, hasLaunch, wakeAsked, sleepQueue, wake,
                   wakeCallVars, gen, sock, waitFor, spawned, killed, inputVars,
                   faults, ownerClosed>>

\* serve() ends and removes the socket path as its last step: the exit was
\* delivered, nobody asked for it within EXIT_WAIT, or the path vanished.
HoldEnds(g) ==
    /\ \/ hold[g] = "reported"
       \/ hold[g] = "ended" /\ client[g] = "none"
       \/ hold[g] = "serving" /\ sock = 0
    /\ hold' = [hold EXCEPT ![g] = "gone"] /\ sock' = 0
    /\ client' = [client EXCEPT ![g] = "none"]
    /\ UNCHANGED <<actorVars, sleepQueue, wake, wakeCallVars, gen, waitFor,
                   spawned, killed, inputVars, faults, ownerClosed>>

-----------------------------------------------------------------------------
(* What comes from outside: at most MaxFaults of the first three.          *)

\* A holder drops a client that is too far behind.
ClientDropped(g) ==
    /\ client[g] \in {"actor", "attached"}
    /\ client' = [client EXCEPT ![g] = "none"]
    /\ UNCHANGED <<hold, launch>>

\* A holder is killed; its socket file stays and its child is hung up.
HolderDies(g) ==
    /\ Up(g)
    /\ hold' = [hold EXCEPT ![g] = "killed"]
    /\ client' = [client EXCEPT ![g] = "none"]
    /\ UNCHANGED launch

LaunchDamaged ==
    /\ launch = "sealed" /\ launch' = "damaged"
    /\ UNCHANGED <<hold, client>>

Fault ==
    /\ faults < MaxFaults /\ faults' = faults + 1
    /\ LaunchDamaged \/ \E g \in Gens : ClientDropped(g) \/ HolderDies(g)
    /\ UNCHANGED <<actorVars, sleepQueue, wake, call, sleepWake, dropMsg, gen,
                   sock, waitFor, spawned, killed, inputVars, ownerClosed>>

\* session.remove, or the prune of the oldest exited records.  An actor that is
\* still there serves on, with no way to reach it.
RemoveExited ==
    /\ status = "exited"
    /\ status' = "removed" /\ launch' = "none"
    /\ UNCHANGED <<actor, pid, link, killAt, retry, closePending, hibernating,
                   closing, closed, hasLaunch, wakeAsked, sleepQueue, wake,
                   call, sleepWake, dropMsg, holdVars, inputVars, faults,
                   ownerClosed>>

-----------------------------------------------------------------------------
ClientStep ==
    \/ Input \/ (\E graceful \in BOOLEAN : Close(graceful))
    \/ GoToSleep \/ Hook \/ Expire \/ RemoveExited \/ WakeCall(FALSE)

ActorStep ==
    \/ ReadAnswer \/ ReadOutput \/ ReadExit \/ ReadEof
    \/ KillFires \/ Reconnect \/ WakeQuiet \/ WakeCap
    \/ SleepInputDropped \/ ActorEnds
    \/ \E g \in Gens : Spawned(g)

WakeStep ==
    \/ WakeCall(TRUE) \/ WakeAsks \/ LaunchOpens \/ LaunchGone \/ WakeGivesUp
    \/ WakeStartsActor \/ WakeRefused \/ BeginWake

HolderStep(g) ==
    \/ SpawnUp(g) \/ SpawnFails(g) \/ SpawnedToNobody(g)
    \/ ChildExits(g) \/ HoldAttach(g) \/ HoldEnds(g)

Next ==
    \/ ClientStep \/ ActorStep \/ WakeStep \/ Fault
    \/ \E g \in Gens : HolderStep(g)

Spec == Init /\ [][Next]_vars

(* Fairness: the actor's select! takes every ready branch sooner or later, *)
(* the tasks and holders run, a killed child ends, and the mutex that lets *)
(* one wake in at a time is a queue (hence SF).  Nothing is assumed of     *)
(* clients, of an agent that was not killed, or of its output.             *)
FairSpec ==
    /\ Spec
    /\ WF_vars(ReadAnswer) /\ WF_vars(ReadExit) /\ WF_vars(ReadEof)
    /\ WF_vars(KillFires) /\ WF_vars(Reconnect) /\ WF_vars(WakeCap)
    /\ WF_vars(SleepInputDropped) /\ WF_vars(ActorEnds) /\ WF_vars(WakeStep)
    /\ SF_vars(WakeCall(TRUE))
    /\ \A g \in Gens :
         /\ WF_vars(Spawned(g)) /\ WF_vars(SpawnUp(g) \/ SpawnFails(g))
         /\ WF_vars(HoldAttach(g)) /\ WF_vars(HoldEnds(g))
         /\ WF_vars(g \in killed /\ ChildExits(g))

-----------------------------------------------------------------------------
(* Properties.  The first five hold whether or not somebody watches the    *)
(* session while it exits; the others do when nobody does (~Watched).      *)

RecordType ==
    /\ status \in Status /\ actor \in BOOLEAN /\ pid \in 0..MaxGen
    /\ killAt \in BOOLEAN /\ retry \in BOOLEAN
    /\ closePending \in {"none", "term", "kill"}
    /\ hibernating \in BOOLEAN /\ closing \in BOOLEAN /\ closed \in BOOLEAN
    /\ hasLaunch \in BOOLEAN /\ wakeAsked \in BOOLEAN
    /\ ownerClosed \in BOOLEAN

Pieces == 1..MaxInput

InputType ==
    /\ sleepQueue \in Seq(Pieces)
    /\ wake \in [hooked : BOOLEAN, output : BOOLEAN, queue : Seq(Pieces)]
    /\ typed \in 0..MaxInput /\ got \in Seq(Pieces)
    /\ lost \in SUBSET Pieces /\ dropped \in SUBSET Pieces

CallType ==
    /\ launch \in {"sealed", "damaged", "none"}
    /\ call \in {"idle", "asking", "reading", "opened", "started"}
    /\ sleepWake \in {"none", "asked", "calling"} /\ dropMsg \in BOOLEAN
    /\ faults \in 0..MaxFaults

HolderType ==
    /\ gen \in Gens /\ hold \in [Gens -> HoldState]
    /\ client \in [Gens -> {"none", "task", "actor", "attached"}]
    /\ sock \in 0..MaxGen /\ waitFor \in [Gens -> 0..MaxGen]
    /\ spawned \in [Gens -> {"no", "ok", "err"}] /\ killed \in SUBSET Gens

WakeOnlyWaking ==
    /\ status # "waking" => wake = NoWake
    /\ status = "waking" => actor /\ ~hibernating

\* Every variable keeps its type; there is a wake only while the session wakes,
\* and it is not on its way to sleep then.
TypeOK ==
    /\ link \in Link /\ RecordType /\ InputType /\ CallType /\ HolderType
    /\ WakeOnlyWaking

\* A KILL goes only to the agent of a session its owner closed, or to the one
\* that is going to sleep: no timer or remembered close of one process reaches
\* the next one (kill_at, close_pending and hibernating are reset together).
NoStrayKill ==
    [][\A g \in killed' \ killed :
         ownerClosed' \/ (hibernating /\ link.gen = g)]_vars

\* Input that was accepted is in one place: with the agent, in the queue of a
\* sleep or of a wake, or given up (input(), begin_wake(), finish_wake()).  What
\* was typed while the process ended for a sleep does not lie there: as long as
\* the session sleeps a wake is asked for or under way, or its failure is about
\* to be told to the actor (hibernated(), Cmd::SleepInputDropped).
KeptOnce ==
    /\ 1..typed = Elems(got) \cup Elems(sleepQueue) \cup Elems(wake.queue)
                     \cup lost \cup dropped
    /\ Len(got) + Len(sleepQueue) + Len(wake.queue) + Cardinality(lost)
          + Cardinality(dropped) = typed
    /\ status = "hibernated" /\ sleepQueue # <<>>
          => sleepWake # "none" \/ call # "idle" \/ dropMsg

\* What the agents of the session receive is in the order it was typed, over
\* sleeps and wakes (finish_wake(): "goes in, in order").
InOrder == \A i, j \in 1..Len(got) : i < j => got[i] < got[j]

\* A session its owner closed stays closed: no wake that was under way, and no
\* late answer of a holder, brings it back once it has ended (`closed`, and the
\* second look at the launch in wake()).
NoRevival ==
    [][ownerClosed /\ status \in {"exited", "removed"}
         => status' \in {"exited", "removed"}]_vars

\* A session that sleeps can be woken: its launch is there, perhaps damaged.
SleepsWithLaunch == status = "hibernated" => launch # "none"

\* The agents that run, as far as their holders know.
Serving == {g \in Gens : hold[g] = "serving"}

\* One conversation has one agent at a time, over wakes, lost connections and
\* killed holders (wake.rs: "so no later wake starts a second agent"), and a
\* session that shows as running is connected to the newest, so that input and
\* a close reach the agent that is there.
OneAgent ==
    /\ Cardinality(Serving) <= 1
    /\ status = "running" => link.gen = gen

\* A session without a process has none: no agent runs on behind a record that
\* sleeps or ended, unless its start has not been reported yet.
NoOrphan ==
    status \in {"exited", "hibernated", "removed"}
      => \A g \in Serving : spawned[g] # "no"

\* The session's life as its owner sees it.
Life == INSTANCE SessionLife WITH
    phase <- IF status \in {"running", "detached"} THEN "up" ELSE status,
    keeps <- launch # "none",
    closed <- ownerClosed

\* The actor implements that life.
LifeSpec == Life!Spec

\* A close takes effect: by TERM, by KILL after the grace, once reconnected, or
\* at the end of a wake that fails.
CloseEnds == ownerClosed ~> status \in {"exited", "removed"}

\* A session that started to go to sleep gets there, or ends.
SleepEnds == hibernating ~> ~hibernating

\* A wake ends: the agent runs, or the session is back to sleep or exited.
WakeEnds == status = "waking" ~> status # "waking"

\* Input typed at the end of a sleep goes along with a wake or is dropped.
SleepInputSettles == sleepQueue # <<>> ~> sleepQueue = <<>>

=============================================================================
