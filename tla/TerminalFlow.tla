---------------------------- MODULE TerminalFlow ----------------------------
(***************************************************************************)
(* How the desktop shows one session in one terminal panel                 *)
(* (electron/daemon/terminals.cjs): the entry of the panel, its queue and  *)
(* byte credit, the re-attach after an overflow, the attach and detach     *)
(* calls it awaits, and the renderer that acks what it has parsed.         *)
(*                                                                         *)
(* A turn of the event loop is one action: a call runs up to the `await`   *)
(* of a request to the daemon, and another call may come in between.       *)
(*                                                                         *)
(* Bytes are positions in the output of the session, a queue is the        *)
(* interval of the positions it holds.  Out of the model: characters of    *)
(* more than one byte, the cutting of a flush into messages, sizes of the  *)
(* terminal.  A connection that is lost and found again by the manager is  *)
(* seen here as a snapshot that arrives by itself (Resync).                *)
(***************************************************************************)
EXTENDS Integers

CONSTANTS
    Credit,       \* OUTPUT_CREDIT_BYTES
    MaxQueued,    \* MAX_QUEUED_BYTES
    MaxSnap,      \* bound: the largest snapshot
    MaxOut,       \* bound: bytes the session writes
    NCalls,       \* bound: calls of attachPanel
    MaxMounts,    \* bound: the last of them that may be for a mount
    MaxResyncs,   \* bound: snapshots that arrive by themselves
    HostCanClose  \* whether the host may be removed

ASSUME FlowAssumption ==
    /\ Credit \in Nat \ {0} /\ MaxQueued \in Nat /\ MaxSnap \in Nat \ {0}
    /\ MaxOut \in Nat /\ NCalls \in Nat \ {0}
    /\ MaxMounts \in Nat /\ MaxResyncs \in Nat /\ HostCanClose \in BOOLEAN

None == 0
Calls == 1..NCalls

VARIABLES
    out,         \* bytes the session has written, as far as this process knows
    session,     \* "runs" or "exited": whether session.exited has arrived
    hostUp,
    panel,       \* panels.get(panelId): the call whose entry it is, or None
    at,          \* where each call of attachPanel stands
    entry,       \* the entry each call has made
    stream,      \* `attached` of client.cjs: the call that has the session
    \* the renderer: is the terminal mounted, the bytes it was sent and has not
    \* acked, the position its screen shows, was it told that the session ended
    mounted, owes, shown, told,
    \* observations: where the session stood when its exit arrived, acks no
    \* entry counted, and whether a call began while another was under way
    exitAt, lost, overlapped,
    resyncs

sessionVars == <<out, session, hostUp, exitAt, resyncs>>
panelVars == <<panel, at, entry, stream, overlapped>>
rendererVars == <<mounted, owes, shown, told, lost>>
vars == <<sessionVars, panelVars, rendererVars>>

\* What the screen may show besides a position: nothing yet, or bytes that do
\* not continue what was there.
Blank == -1
Torn == -2

\* `from` and `to`: the queue holds the positions above `from` up to `to`.
Entry == [from : Nat, to : Nat, inFlight : Nat, stale : Nat,
          scheduled : BOOLEAN, due : BOOLEAN, resyncing : BOOLEAN,
          resyncDue : BOOLEAN, exitPending : BOOLEAN, closed : BOOLEAN,
          carry : BOOLEAN]

\* Mutant: a carried exit is forgotten.
NewEntryWithoutExit(owed, exit, carry) ==
    [from |-> 0, to |-> 0, inFlight |-> 0, stale |-> owed,
     scheduled |-> FALSE, due |-> FALSE, resyncing |-> FALSE,
     resyncDue |-> FALSE, exitPending |-> FALSE, closed |-> FALSE,
     carry |-> carry]

\* createEntry, with what an overflow re-attach carries over.
NewEntry(owed, exit, carry) ==
    [from |-> 0, to |-> 0, inFlight |-> 0, stale |-> owed,
     scheduled |-> FALSE, due |-> FALSE, resyncing |-> FALSE,
     resyncDue |-> FALSE, exitPending |-> exit, closed |-> FALSE,
     carry |-> carry]

Least(a, b) == IF a < b THEN a ELSE b
Minus(a, b) == IF a > b THEN a - b ELSE 0

\* A call that awaits an answer of the daemon.
UnderWay(c) == at[c] \in {"detaching", "asking"}

-----------------------------------------------------------------------------
(* What happens to an entry. *)

Queued(e) == e.to - e.from
Dropped(e) == [e EXCEPT !.from = e.to]
OpenCredit(e) == Minus(Credit, e.inFlight)

\* flush: the bytes it sends.
Sends(e) == Least(Queued(e), OpenCredit(e))
Flushed(e, n) == [e EXCEPT !.from = @ + n, !.inFlight = @ + n]

\* Mutant: an exit does not wait for the snapshot that replaces a dropped queue.
ExitsEarly(e) == e.exitPending /\ ~e.closed /\ Queued(e) = 0

\* settle: the exit goes out once nothing is queued.
Exits(e) == e.exitPending /\ ~e.closed /\ Queued(e) = 0 /\ ~e.resyncing
Settled(e) == [e EXCEPT !.exitPending = @ /\ ~Exits(e)]

\* Mutant: a snapshot forgets the bytes of the window before it.
SnappedAfresh(e, z) ==
    [e EXCEPT !.from = out, !.to = out, !.resyncing = FALSE,
              !.resyncDue = FALSE, !.inFlight = z]

\* onBytes with a snapshot of size z: all of it is sent at once.
Snapped(e, z) ==
    [e EXCEPT !.from = out, !.to = out, !.resyncing = FALSE,
              !.resyncDue = FALSE, !.stale = @ + e.inFlight, !.inFlight = z]

\* Mutant: output is dropped only once the re-attach is asked for.
OverflowedLate(e) ==
    [Dropped(e) EXCEPT !.resyncing = e.stale = 0, !.resyncDue = e.stale > 0,
                       !.due = @ \/ e.stale = 0]

\* overflow
Overflowed(e) ==
    [Dropped(e) EXCEPT !.resyncing = TRUE, !.resyncDue = e.stale > 0,
                       !.due = @ \/ e.stale = 0]

\* onBytes with output up to position p.
Received(e, p) ==
    LET e2 == [e EXCEPT !.to = p, !.scheduled = TRUE] IN
    IF e.resyncing THEN e
    ELSE IF Queued(e2) - OpenCredit(e2) > MaxQueued THEN Overflowed(e2)
    ELSE e2

\* Mutants: an ack larger than the old window; a resync that waits for ever.
AckedOld(e, k) ==
    LET e2 == [e EXCEPT !.stale = IF @ > 0 THEN @ - k ELSE 0,
                        !.inFlight = IF e.stale > 0 THEN @ ELSE Minus(@, k)]
    IN  IF e2.resyncDue /\ e2.stale = 0
        THEN [e2 EXCEPT !.resyncDue = FALSE, !.due = TRUE] ELSE e2
AckedForgets(e, k) ==
    LET old == Least(e.stale, k) IN
    [e EXCEPT !.stale = @ - old, !.inFlight = Minus(@, k - old)]

\* ack: the old window is paid first.  A resync that waited may go out.
Acked(e, k) ==
    LET old == Least(e.stale, k)
        e2 == [e EXCEPT !.stale = @ - old, !.inFlight = Minus(@, k - old)]
    IN  IF e2.resyncDue /\ e2.stale = 0
        THEN [e2 EXCEPT !.resyncDue = FALSE, !.due = TRUE] ELSE e2

\* The renderer gets n bytes that follow position p, after it has acked k, and
\* is told of the end or not.  Without a terminal it gets nothing.
Shows(p, n) == IF n = 0 \/ ~mounted THEN shown
               ELSE IF shown = p THEN p + n ELSE Torn
Gets(p, n, k, end) ==
    /\ shown' = Shows(p, n)
    /\ owes' = IF mounted THEN owes - k + n ELSE 0
    /\ told' = (mounted /\ (told \/ end))

-----------------------------------------------------------------------------
Init ==
    /\ out = 0 /\ session = "runs" /\ hostUp = TRUE /\ exitAt = 0
    /\ panel = None /\ stream = None /\ overlapped = FALSE /\ resyncs = 0
    /\ at = [c \in Calls |-> "new"]
    /\ entry = [c \in Calls |-> NewEntry(0, FALSE, FALSE)]
    /\ mounted = FALSE /\ owes = 0 /\ shown = Blank /\ told = FALSE /\ lost = 0

\* The session writes n bytes: the call that has the stream receives them.
Output(n) ==
    /\ hostUp /\ out + n <= MaxOut
    /\ out' = out + n
    /\ entry' = IF stream # None /\ at[stream] = "open" /\ ~entry[stream].closed
                THEN [entry EXCEPT ![stream] = Received(@, out + n)] ELSE entry
    /\ UNCHANGED <<session, hostUp, exitAt, resyncs, panel, at, stream, overlapped,
                   rendererVars>>

\* A snapshot of size z arrives for the entry of call c, whose call then
\* stands at `to`.
TakesSnapshot(c, z, to) ==
    LET e == Snapped(entry[c], z) IN
    /\ entry' = [entry EXCEPT ![c] = Settled(e)]
    /\ at' = [at EXCEPT ![c] = to]
    /\ owes' = IF mounted THEN owes + z ELSE 0
    /\ shown' = IF mounted THEN out ELSE shown
    /\ told' = (mounted /\ (told \/ Exits(e)))

\* The daemon, or the manager after a reconnect, sends a fresh snapshot.
Resync(z) ==
    /\ hostUp /\ resyncs < MaxResyncs /\ resyncs' = resyncs + 1
    /\ stream # None /\ at[stream] = "open" /\ ~entry[stream].closed
    /\ TakesSnapshot(stream, z, "open")
    /\ UNCHANGED <<out, session, hostUp, exitAt, panel, stream, overlapped, mounted, lost>>

\* The next turn after bytes arrived: flush, or nothing when the entry closed.
Flush(c) ==
    LET e == [entry[c] EXCEPT !.scheduled = FALSE]
        n == IF e.closed THEN 0 ELSE Sends(e)
        e2 == Flushed(e, n)
    IN
    /\ entry[c].scheduled
    /\ entry' = [entry EXCEPT ![c] = Settled(e2)]
    /\ Gets(e.from, n, 0, Exits(e2))
    /\ UNCHANGED <<sessionVars, panel, at, stream, overlapped, mounted, lost>>

\* The renderer has parsed k bytes, in groups of its own choice.
Ack(k) ==
    /\ mounted /\ k <= owes
    /\ IF panel = None
       THEN /\ lost' = lost + k
            /\ owes' = owes - k
            /\ UNCHANGED <<entry, shown, told>>
       ELSE LET e == Acked(entry[panel], k)
                n == IF e.scheduled THEN 0 ELSE Sends(e)
                e2 == Flushed(e, n)
            IN  /\ entry' = [entry EXCEPT ![panel] =
                                IF e.scheduled THEN e ELSE Settled(e2)]
                /\ Gets(e.from, n, k, ~e.scheduled /\ Exits(e2))
                /\ UNCHANGED lost
    /\ UNCHANGED <<sessionVars, panel, at, stream, overlapped, mounted>>

-----------------------------------------------------------------------------
(* attachPanel and detach. *)

\* detach up to its await: the entry of the panel, if any, is closed.  What it
\* still had to do in a later turn does nothing, and nobody reads it again.
Closed(e) == [NewEntry(0, FALSE, e.carry) EXCEPT !.closed = TRUE]
Closes(b) == IF b = None THEN entry ELSE [entry EXCEPT ![b] = Closed(@)]
\* An entry with a handle gives the session free at once: the answer comes later.
HasHandle(b) == b # None /\ at[b] = "open"
Frees(b) == IF HasHandle(b) /\ stream = b THEN None ELSE stream

\* manager.attach: it fails when the session has a stream already.  `entries`,
\* `on` and `was` are the entries, the stream and `told` by then.
Asks(c, entries, on, was) ==
    IF on = None
    THEN /\ panel' = c /\ stream' = c /\ told' = was
         /\ at' = [at EXCEPT ![c] = "asking"]
         /\ entry' = entries
    ELSE /\ panel' = None /\ stream' = on /\ told' = mounted'
         /\ at' = [at EXCEPT ![c] = "over"]
         /\ entry' = [entries EXCEPT ![c] = Closed(@)]

\* attachPanel as the next call c, with what it carries over.
AttachPanel(c, carry, was) ==
    LET owed == IF carry THEN entry[panel].inFlight + entry[panel].stale ELSE 0
        exit == carry /\ entry[panel].exitPending
        made == [Closes(panel) EXCEPT ![c] = NewEntry(owed, exit, carry)]
    IN
    /\ at[c] = "new" /\ \A d \in Calls : d < c => at[d] # "new"
    /\ overlapped' = (overlapped \/ \E d \in Calls : UnderWay(d))
    /\ IF HasHandle(panel)
       THEN /\ panel' = None /\ stream' = Frees(panel) /\ told' = was
            /\ at' = [at EXCEPT ![c] = "detaching"]
            /\ entry' = made
       ELSE Asks(c, made, Frees(panel), was)

\* The renderer mounts a terminal and attaches it: a new, empty screen.
Mount(c) ==
    /\ ~mounted /\ c <= MaxMounts
    /\ mounted' = TRUE
    /\ owes' = 0 /\ shown' = Blank /\ lost' = 0
    /\ AttachPanel(c, FALSE, FALSE)
    /\ UNCHANGED sessionVars

\* The renderer disposes of it, reloads or crashes: it acks no more.
Unmount ==
    /\ mounted /\ mounted' = FALSE
    /\ owes' = 0 /\ shown' = Blank /\ told' = FALSE /\ lost' = 0
    /\ panel' = None /\ stream' = Frees(panel) /\ entry' = Closes(panel)
    /\ UNCHANGED <<sessionVars, at, overlapped>>

\* The turn after an overflow, or after the ack it waited for.
Reattach(c) ==
    /\ panel # None /\ entry[panel].due
    /\ UNCHANGED <<sessionVars, mounted, owes, shown, lost>>
    /\ AttachPanel(c, TRUE, told)

\* The daemon has answered the detach, or it failed: the call goes on.
Detached(c) ==
    /\ at[c] = "detaching"
    /\ UNCHANGED <<sessionVars, mounted, owes, shown, lost, overlapped>>
    /\ Asks(c, entry, stream, told)

\* The daemon has attached.  An entry that was closed meanwhile detaches.
Attached(c, z) ==
    /\ at[c] = "asking" /\ hostUp
    /\ IF entry[c].closed
       THEN /\ at' = [at EXCEPT ![c] = "over"]
            /\ stream' = None
            /\ UNCHANGED <<entry, owes, shown, told>>
       ELSE TakesSnapshot(c, z, "open") /\ UNCHANGED stream
    /\ UNCHANGED <<sessionVars, panel, overlapped, mounted, lost>>

\* The attach is refused or times out: whoever looks at the panel is told.
Refused(c) ==
    /\ at[c] = "asking"
    /\ at' = [at EXCEPT ![c] = "over"]
    /\ stream' = None
    /\ panel' = IF panel = c THEN None ELSE panel
    /\ entry' = [entry EXCEPT ![c] = Closed(@)]
    /\ told' = (mounted /\ (told \/ entry[c].carry \/ ~entry[c].closed))
    /\ UNCHANGED <<sessionVars, overlapped, mounted, owes, shown, lost>>

\* handleEvent: session.exited, which may come before the last output.
SessionExits ==
    /\ hostUp /\ session = "runs" /\ session' = "exited" /\ exitAt' = out
    /\ IF panel = None THEN UNCHANGED <<entry, owes, shown, told>>
       ELSE LET e == [entry[panel] EXCEPT !.exitPending = TRUE]
                n == Sends(e)
                e2 == Flushed(e, n)
            IN  /\ entry' = [entry EXCEPT ![panel] = Settled(e2)]
                /\ Gets(e.from, n, 0, Exits(e2))
    /\ UNCHANGED <<out, hostUp, resyncs, panel, at, stream, overlapped, mounted, lost>>

\* closeHost: what is queued goes out whatever the credit, then the exit.
HostCloses ==
    /\ HostCanClose /\ hostUp /\ hostUp' = FALSE
    /\ IF panel = None THEN UNCHANGED <<panelVars, rendererVars>>
       ELSE LET e == entry[panel] IN
            /\ Gets(e.from, Queued(e), 0, TRUE)
            /\ panel' = None /\ stream' = Frees(panel) /\ entry' = Closes(panel)
            /\ UNCHANGED <<at, overlapped, mounted, lost>>
    /\ UNCHANGED <<out, session, exitAt, resyncs>>

Next ==
    \/ \E n \in 1..MaxOut : Output(n)
    \/ \E z \in 1..MaxSnap : Resync(z)
    \/ \E k \in 1..owes : Ack(k)
    \/ Unmount
    \/ SessionExits
    \/ HostCloses
    \/ \E c \in Calls :
        \/ Flush(c) \/ Mount(c) \/ Reattach(c) \/ Detached(c)
        \/ \E z \in 1..MaxSnap : Attached(c, z)
        \/ Refused(c)

Spec == Init /\ [][Next]_vars

\* The event loop turns, the daemon answers or its answer times out, and the
\* renderer parses what it has.
Fairness ==
    /\ WF_vars(\E k \in 1..owes : Ack(k))
    /\ \A c \in Calls :
        /\ WF_vars(Flush(c)) /\ WF_vars(Reattach(c)) /\ WF_vars(Detached(c))
        /\ WF_vars((\E z \in 1..MaxSnap : Attached(c, z)) \/ Refused(c))
FairSpec == Spec /\ Fairness

-----------------------------------------------------------------------------
Positions == 0..MaxOut

TypeOK ==
    /\ out \in Positions /\ session \in {"runs", "exited"}
    /\ hostUp \in BOOLEAN /\ exitAt \in Positions
    /\ panel \in Calls \union {None} /\ stream \in Calls \union {None}
    /\ at \in [Calls -> {"new", "detaching", "asking", "open", "over"}]
    /\ entry \in [Calls -> Entry]
    /\ mounted \in BOOLEAN /\ owes \in Nat /\ told \in BOOLEAN
    /\ shown \in Positions \union {Blank, Torn}
    /\ lost \in Nat /\ overlapped \in BOOLEAN /\ resyncs \in 0..MaxResyncs

\* The panel shows an entry, and no two calls of attachPanel have met.
InPanel == mounted /\ panel # None /\ ~overlapped

\* What the renderer is sent continues what it shows, byte for byte, or is a
\* snapshot: no output is skipped or sent twice when a queue is dropped, an
\* entry replaced, or a credit runs out in the middle of a queue
\* (overflow, onBytes, flush).
NoTear == ~overlapped => shown # Torn

\* The credit is neither leaked nor given twice: what the entry counts as in
\* flight, in the old window and the new one, is what the renderer has still
\* to ack, apart from acks that came while the panel had no entry
\* (onBytes, ack, attachPanel with carry).
Accounted ==
    InPanel => entry[panel].inFlight + entry[panel].stale = owes + lost

\* While the panel is attached, the exit is told only after every byte that
\* came before it (settle).
ExitComesLast ==
    [][(~told /\ told' /\ hostUp' /\ InPanel /\ at[panel] = "open" /\ panel' = panel)
            => shown' >= exitAt']_vars

\* Whatever overflows and whatever is dropped, the renderer ends up with
\* everything the session wrote, unless it is told that the panel ended, acks
\* were lost, or calls met (overflow, reattach, ack).
Drains ==
    []<>(mounted /\ lost = 0 /\ ~overlapped => told \/ shown = out)

\* An exit that finds an entry is told (handleEvent, attachPanel with carry).
ExitIsTold ==
    (session = "exited" /\ InPanel /\ entry[panel].exitPending)
        ~> (told \/ ~mounted \/ lost > 0 \/ overlapped)

==============================================================================
