------------------------------ MODULE Routines ------------------------------
(***************************************************************************)
(* One routine of sushiai-routines (service.rs, store.rs): its entry in    *)
(* the daemon's schedule, the sessions started for it, the events of the   *)
(* daemon, and the threads that act on its files: the worker that handles  *)
(* its events, the call that holds `sync` (a call of the owner, or the     *)
(* resync of a new connection), and run_now, which holds nothing.          *)
(*                                                                         *)
(* The module runs inside the daemon and talks to it over its socket: both *)
(* end together, but the connection the events come on may also drop, and  *)
(* a reader that lags loses the oldest events.                             *)
(*                                                                         *)
(* A step is one call of the daemon, one write of a file or one critical   *)
(* section.  Out of the model: the prompt and the answer's text, git,      *)
(* asks and approvals, dry runs, deletion, and a file that cannot be read  *)
(* or written.                                                             *)
(***************************************************************************)
EXTENDS Naturals, Sequences, FiniteSets

CONSTANTS
    PauseAfter,   \* failures in a row that turn a routine off
    FindRuns,     \* newest records looked at for a session (5),
    CancelRuns,   \* for what runs when the routine is turned off (5),
    SettleRuns,   \* and for what still runs after a restart (3)
    MaxSlots,     \* bound: sessions the daemon starts for the entry
    MaxRetries,   \* bound: sessions started for retries
    MaxUpsets     \* bound: calls of the owner, and faults

ASSUME RoutinesAssumption ==
    /\ PauseAfter \in Nat \ {0} /\ MaxSlots \in Nat
    /\ FindRuns \in Nat \ {0} /\ CancelRuns \in Nat \ {0}
    /\ SettleRuns \in Nat \ {0}
    /\ MaxRetries \in Nat /\ MaxUpsets \in Nat

Slots == 1..MaxSlots
Retries == MaxSlots + 1..MaxSlots + MaxRetries
Sessions == Slots \cup Retries

VARIABLES
    \* the daemon: the schedule entry, whether its first tick was, sessions
    entry, booted, sess,
    \* the connection of the events, and the events on their way
    conn, wire,
    \* routine.json, state.json, runs/<n>/run.json, the queued proposals
    enabled, failures, runs, proposal,
    \* the module: its queue of events, the claimed runs, a retry under way,
    \* a resync to be done, the threads, run_now
    queue, claimed, retrying, due, job, now,
    \* bound: what happened
    upsets,
    \* observations: sessions whose end nobody is going to hear of, and
    \* whether the entry may differ from the store
    untold, loose

daemonVars == <<entry, booted, sess>>
linkVars == <<conn, wire>>
storeVars == <<enabled, failures, runs, proposal>>
moduleVars == <<queue, claimed, retrying, due>>
vars == <<daemonVars, linkVars, storeVars, moduleVars, job, now, upsets,
          untold, loose>>

\* `run` 0: no run.
Entry == [set : BOOLEAN, on : BOOLEAN, run : {0} \cup Slots]
NoEntry == [set |-> FALSE, on |-> FALSE, run |-> 0]

\* "detached": the daemon is new and has not reached its holder yet.
Alive(s) == sess[s] \in {"live", "detached", "closing"}

\* "restarted": an `ended` with the reason "daemon restarted".
Event == [kind : {"fired", "ended", "restarted", "timeout"}, session : Slots]
Final(e) == e.kind # "fired"

\* `retry` 0: no retry session is known.
Run == [session : Slots, retry : {0} \cup Sessions,
        status : {"running", "done", "failed", "cancelled"}]

RunsOf(s) == {n \in DOMAIN runs : runs[n].session = s}

\* The newest k of the runs rs: run_numbers().take(k).
Newer(rs, k) == {n \in DOMAIN rs : n + k > Len(rs)}
Latest(k) == Newer(runs, k)

Running(n) == runs[n].status = "running"
SessionsOf(n) == {runs[n].session, runs[n].retry} \ {0}

\* What a thread is doing: the step it is at, its run and the result it is
\* going to have, the retry session, the failures it counted, the runs a
\* loop has yet to look at, the step after a conclusion and after a loop,
\* and what a call decided about the entry.
Threads == {"worker", "caller"}
Pc == {"idle", "claim", "mark", "count", "write", "disable", "unschedule",
       "start retry", "mark retry", "await", "save on", "reset", "list",
       "cancel", "save off", "save", "entry", "reconcile", "register",
       "stale"}
Job == [pc : Pc, n : Nat, result : {"done", "failed", "cancelled"},
        retry : {0} \cup Sessions, fails : Nat, left : SUBSET Nat,
        back : {"idle", "cancel", "reconcile"}, then : {"idle", "save off"},
        keep : {"on", "review", "off"}]
NoJob == [pc |-> "idle", n |-> 0, result |-> "failed", retry |-> 0,
          fails |-> 0, left |-> {}, back |-> "idle", then |-> "idle",
          keep |-> "off"]

At(t, pc) == job[t].pc = pc
Goes(t, pc) == job' = [job EXCEPT ![t].pc = pc]

\* A conclusion of a run begins.
Concludes(t, n, result) ==
    [job[t] EXCEPT !.pc = "claim", !.n = n, !.result = result]

\* Who changes the entry or what it follows: conclusions and run_now do so
\* without `sync`.
Pausing == job["worker"].pc \in {"disable", "unschedule"}
Calling == ~At("caller", "idle")
Firing == now # "no"

Upsets == upsets < MaxUpsets /\ upsets' = upsets + 1

-----------------------------------------------------------------------------
\* A routine that was turned on.
Init ==
    /\ entry = [set |-> TRUE, on |-> TRUE, run |-> 0]
    /\ booted = TRUE /\ sess = [s \in Sessions |-> "none"]
    /\ conn = TRUE /\ wire = <<>>
    /\ enabled = TRUE /\ failures = 0 /\ runs = <<>>
    /\ proposal = [s \in Sessions |-> "queued"]
    /\ queue = <<>> /\ claimed = {}
    /\ retrying = FALSE /\ due = FALSE
    /\ job = [t \in Threads |-> NoJob] /\ now = "no"
    /\ upsets = 0 /\ untold = {} /\ loose = FALSE

-----------------------------------------------------------------------------
(* The daemon.                                                             *)

\* The next session among S.
IsNext(s, S) == s \in S /\ sess[s] = "none" /\ \A x \in S : x < s => sess[x] # "none"

Told(kind, s) == Append(wire, [kind |-> kind, session |-> s])

\* Host::emit: nobody hears it who is not connected.
Emits(kind, s) == wire' = IF conn THEN Told(kind, s) ELSE wire

\* The last word about session s is lost.  If it had ended and its run is
\* recorded, the next reconcile settles it.
Lost(s) == IF Alive(s) \/ RunsOf(s) = {} THEN {s} ELSE {}

\* Engine::launched: the entry has a run.
Launches ==
    /\ entry.run = 0
    /\ \E s \in Sessions :
           /\ IsNext(s, Slots) /\ sess' = [sess EXCEPT ![s] = "live"]
           /\ entry' = [entry EXCEPT !.run = s] /\ Emits("fired", s)

SlotFires ==
    /\ booted /\ entry.set /\ entry.on /\ Launches
    /\ UNCHANGED <<booted, conn, storeVars, moduleVars, job, now, upsets,
                   untold, loose>>

\* The entry forgets its run: it ended, or is over its timeout.
RunSettles(kind) ==
    /\ booted /\ entry.run # 0
    /\ IF kind = "ended" THEN ~Alive(entry.run) ELSE Alive(entry.run)
    /\ sess' = IF kind = "timeout" THEN [sess EXCEPT ![entry.run] = "closing"]
               ELSE sess
    /\ entry' = [entry EXCEPT !.run = 0]
    /\ Emits(kind, entry.run)
    /\ untold' = untold \cup (IF conn THEN {} ELSE Lost(entry.run))
    /\ UNCHANGED <<booted, conn, storeVars, moduleVars, job, now, upsets,
                   loose>>

\* The first tick of a daemon closes what the entry ran before.
FirstTick ==
    /\ ~booted /\ booted' = TRUE
    /\ IF entry.run = 0 THEN UNCHANGED <<entry, sess, wire, untold>>
       ELSE /\ sess' = IF Alive(entry.run)
                       THEN [sess EXCEPT ![entry.run] = "closing"] ELSE sess
            /\ entry' = [entry EXCEPT !.run = 0]
            /\ Emits("restarted", entry.run)
            /\ untold' = untold \cup (IF conn THEN {} ELSE Lost(entry.run))
    /\ UNCHANGED <<conn, storeVars, moduleVars, job, now, upsets, loose>>

SessionEnds(s) ==
    /\ Alive(s) /\ sess' = [sess EXCEPT ![s] = "ended"]
    /\ UNCHANGED <<entry, booted, linkVars, storeVars, moduleVars, job, now,
                   upsets, untold, loose>>

Reattached(s) ==
    /\ sess[s] = "detached" /\ sess' = [sess EXCEPT ![s] = "live"]
    /\ UNCHANGED <<entry, booted, linkVars, storeVars, moduleVars, job, now,
                   upsets, untold, loose>>

\* The daemon and with it the module end, and start anew.
Restart ==
    /\ Upsets
    /\ booted' = FALSE /\ conn' = FALSE /\ wire' = <<>>
    /\ sess' = [s \in Sessions |-> IF Alive(s) THEN "detached" ELSE sess[s]]
    /\ queue' = <<>> /\ claimed' = {}
    /\ retrying' = FALSE /\ due' = FALSE
    /\ job' = [t \in Threads |-> NoJob] /\ now' = "no"
    /\ untold' = untold \cup {s \in Sessions : Alive(s) /\ entry.run # s}
    /\ loose' = TRUE
    /\ UNCHANGED <<entry, storeVars>>

\* The connection drops, with the events on their way.
Drop ==
    /\ conn /\ Upsets
    /\ conn' = FALSE /\ wire' = <<>>
    /\ untold' = untold \cup
           UNION {Lost(wire[i].session) : i \in {j \in DOMAIN wire : Final(wire[j])}}
    /\ UNCHANGED <<daemonVars, storeVars, moduleVars, job, now, loose>>

\* forward_events of the daemon: a reader that lags misses the oldest
\* event.  listen() does not look at the note that says so.
Lags ==
    /\ wire # <<>> /\ Upsets /\ wire' = Tail(wire)
    /\ untold' = untold \cup
           (IF Final(Head(wire)) THEN {Head(wire).session} ELSE {})
    /\ UNCHANGED <<daemonVars, conn, storeVars, moduleVars, job, now, loose>>

-----------------------------------------------------------------------------
(* The listener.                                                           *)

\* listen(): every connection begins with a resync.
Connect ==
    /\ ~conn /\ conn' = TRUE /\ due' = TRUE
    /\ UNCHANGED <<daemonVars, wire, storeVars, queue, claimed, retrying, job,
                   now, upsets, untold, loose>>

\* session_close, as far as the sessions still run.
Closed(S) == [s \in Sessions |-> IF s \in S /\ Alive(s) THEN "closing" ELSE sess[s]]

\* accept_event: a slot that comes while a retry runs is closed and dropped.
AcceptEvent ==
    /\ wire # <<>> /\ wire' = Tail(wire)
    /\ LET e == Head(wire) IN
       /\ IF ~Final(e) /\ retrying
          THEN sess' = Closed({e.session}) /\ UNCHANGED queue
          ELSE queue' = Append(queue, e) /\ UNCHANGED sess
    /\ UNCHANGED <<entry, booted, conn, storeVars, claimed, retrying, due, job,
                   now, upsets, untold, loose>>

-----------------------------------------------------------------------------
(* The worker of the routine's events.                                     *)

TakesEvent(kinds) ==
    /\ At("worker", "idle") /\ queue # <<>> /\ Head(queue).kind \in kinds
    /\ queue' = Tail(queue)

\* find_run
Found(rs, s) == {n \in Newer(rs, FindRuns) : rs[n].session = s}

\* One record per session.
WithRecord(s) ==
    IF Found(runs, s) # {} THEN runs
    ELSE Append(runs, [session |-> s, retry |-> 0, status |-> "running"])

HandleFired ==
    /\ TakesEvent({"fired"})
    /\ runs' = WithRecord(Head(queue).session)
    /\ UNCHANGED <<daemonVars, linkVars, enabled, failures, proposal, claimed,
                   retrying, due, job, now, upsets, untold, loose>>

\* What a session answered, in what it printed or in the last-message file of
\* Codex: "done" is any answer that is no failure, "bad" one that is not valid
\* and is retried.
Answers == {"done", "failed", "bad"}

\* run_for: the run, unless it is concluded; one that is missing is recorded.
EndedRun(s) == {n \in Found(WithRecord(s), s) : WithRecord(s)[n].status = "running"}

HandleTimeout ==
    /\ TakesEvent({"timeout"})
    /\ LET s == Head(queue).session IN
       /\ runs' = WithRecord(s)
       /\ IF EndedRun(s) = {} THEN UNCHANGED job
          ELSE \E n \in EndedRun(s) :
                   job' = [job EXCEPT !["worker"] = Concludes("worker", n, "failed")]
    /\ UNCHANGED <<daemonVars, linkVars, enabled, failures, proposal, claimed,
                   retrying, due, now, upsets, untold, loose>>

\* finish_session: a run the restart cut off is not retried.
HandleEnded ==
    /\ TakesEvent({"ended", "restarted"})
    /\ LET s == Head(queue).session IN
       /\ runs' = WithRecord(s)
       /\ IF EndedRun(s) = {} THEN UNCHANGED job
          ELSE \E n \in EndedRun(s), answer \in Answers :
                 /\ Head(queue).kind = "restarted" \/ answer # "bad"
                 /\ job' = [job EXCEPT !["worker"] = Concludes("worker", n,
                        IF answer = "done" THEN "done" ELSE "failed")]
    /\ UNCHANGED <<daemonVars, linkVars, enabled, failures, proposal, claimed,
                   retrying, due, now, upsets, untold, loose>>

\* retry_once, for an answer that is not valid.  From now on a new slot is
\* skipped.
RetryOnce ==
    /\ TakesEvent({"ended"})
    /\ LET s == Head(queue).session IN
       /\ runs' = WithRecord(s) /\ retrying' = TRUE
       /\ \E n \in EndedRun(s) :
             job' = [job EXCEPT !["worker"] = [@ EXCEPT !.pc = "start retry", !.n = n]]
    /\ UNCHANGED <<daemonVars, linkVars, enabled, failures, proposal, claimed,
                   due, now, upsets, untold, loose>>

\* session_create, which may fail.
StartsRetry ==
    /\ At("worker", "start retry")
    /\ \/ \E r \in Sessions :
             /\ IsNext(r, Retries) /\ sess' = [sess EXCEPT ![r] = "live"]
             /\ job' = [job EXCEPT !["worker"] =
                    [@ EXCEPT !.pc = "mark retry", !.retry = r]]
       \/ /\ job' = [job EXCEPT !["worker"] = Concludes("worker", @.n, "failed")]
          /\ UNCHANGED sess
    /\ UNCHANGED <<entry, booted, linkVars, storeVars, moduleVars, now, upsets,
                   untold, loose>>

MarksRetry ==
    /\ At("worker", "mark retry")
    /\ runs' = [runs EXCEPT ![job["worker"].n].retry = job["worker"].retry]
    /\ Goes("worker", "await")
    /\ UNCHANGED <<daemonVars, linkVars, enabled, failures, proposal,
                   moduleVars, now, upsets, untold, loose>>

\* The second answer is final.
RetryEnds ==
    /\ At("worker", "await")
    /\ LET r == job["worker"].retry IN
       \/ /\ ~Alive(r) /\ UNCHANGED sess
          /\ \E answer \in {"done", "failed"} :
                 job' = [job EXCEPT !["worker"] = Concludes("worker", @.n, answer)]
       \/ /\ Alive(r) /\ sess' = Closed({r})
          /\ job' = [job EXCEPT !["worker"] = Concludes("worker", @.n, "failed")]
    /\ UNCHANGED <<entry, booted, linkVars, storeVars, queue, claimed,
                   retrying, due, now, upsets, untold, loose>>

-----------------------------------------------------------------------------
(* conclude_as, by either thread.                                          *)

\* Variant: the retry goes on for ever.
DoneStillRetrying(t) ==
    IF t = "worker"
    THEN job' = [job EXCEPT ![t] = NoJob] /\ UNCHANGED retrying
    ELSE Goes(t, job[t].back) /\ UNCHANGED retrying

\* The worker is done with its event, and with its retry; a caller goes on
\* with its loop.
Done(t) ==
    IF t = "worker"
    THEN job' = [job EXCEPT ![t] = NoJob] /\ retrying' = FALSE
    ELSE Goes(t, job[t].back) /\ UNCHANGED retrying

\* Variant: a run somebody else is concluding may be claimed.
MayClaimAgain(n) == Running(n)

MayClaim(n) == n \notin claimed /\ Running(n)

\* claim, and settle_proposals: those of the session and of the retry the
\* record names.
Settles(t) ==
    /\ At(t, "claim")
    /\ IF MayClaim(job[t].n)
       THEN /\ claimed' = claimed \cup {job[t].n}
            /\ proposal' = [s \in Sessions |->
                   IF s \in SessionsOf(job[t].n) /\ proposal[s] = "queued"
                   THEN IF job[t].result = "cancelled" THEN "discarded"
                        ELSE "applied"
                   ELSE proposal[s]]
            /\ Goes(t, "mark") /\ UNCHANGED retrying
       ELSE Done(t) /\ UNCHANGED <<claimed, proposal>>
    /\ UNCHANGED <<daemonVars, linkVars, enabled, failures, runs, queue, due,
                   now, upsets, untold, loose>>

\* A cancelled run is not counted.
Marks(t) ==
    /\ At(t, "mark")
    /\ runs' = [runs EXCEPT ![job[t].n].status = job[t].result]
    /\ claimed' = claimed \ {job[t].n}
    /\ IF job[t].result = "cancelled" THEN Done(t)
       ELSE Goes(t, "count") /\ UNCHANGED retrying
    /\ UNCHANGED <<daemonVars, linkVars, enabled, failures, proposal, queue,
                   due, now, upsets, untold, loose>>

Counts(t) ==
    /\ At(t, "count")
    /\ job' = [job EXCEPT ![t].pc = "write",
           ![t].fails = IF job[t].result = "failed" THEN failures + 1 ELSE 0]
    /\ UNCHANGED <<daemonVars, linkVars, storeVars, moduleVars, now, upsets,
                   untold, loose>>

WritesCount(t) ==
    /\ At(t, "write") /\ failures' = job[t].fails
    /\ IF job[t].fails >= PauseAfter
       THEN /\ Goes(t, "disable") /\ UNCHANGED retrying
            /\ loose' = (loose \/ Firing \/ (t = "worker" /\ Calling))
       ELSE Done(t) /\ UNCHANGED loose
    /\ UNCHANGED <<daemonVars, linkVars, enabled, runs, proposal, queue,
                   claimed, due, now, upsets, untold>>

Disables(t) ==
    /\ At(t, "disable") /\ enabled' = FALSE /\ Goes(t, "unschedule")
    /\ UNCHANGED <<daemonVars, linkVars, failures, runs, proposal, moduleVars,
                   now, upsets, untold, loose>>

-----------------------------------------------------------------------------
(* The entry.                                                              *)

\* schedule.set keeps the run of an entry.
SetsEntry(on) == entry' = [entry EXCEPT !.set = TRUE, !.on = on] /\ UNCHANGED untold

\* schedule.remove: nobody follows the run any more, unless its run is
\* going to be concluded with it.
RemovesEntry(concluded) ==
    /\ entry' = NoEntry
    /\ untold' = untold \cup ({entry.run} \ ({0} \cup concluded))

Unschedules(t) ==
    /\ At(t, "unschedule") /\ Done(t)
    /\ \/ RemovesEntry({}) /\ UNCHANGED <<upsets, loose>>
       \/ Upsets /\ loose' = TRUE /\ UNCHANGED <<entry, untold>>
    /\ UNCHANGED <<booted, sess, linkVars, storeVars, queue, claimed, due,
                   now>>

-----------------------------------------------------------------------------
(* Calls of the owner that hold `sync`.                                    *)

Begins ==
    /\ At("caller", "idle") /\ Upsets

Calls(j) == job' = [job EXCEPT !["caller"] = j]

\* Variant: an entry that could not be set does not stop the call.
TurnOnAnyway ==
    /\ Begins
    /\ Calls([NoJob EXCEPT !.pc = "save on"])
    /\ SetsEntry(TRUE) \/ UNCHANGED <<entry, untold>>
    /\ loose' = (loose \/ Pausing \/ Firing)
    /\ UNCHANGED <<booted, sess, linkVars, storeVars, moduleVars, now>>

\* set_enabled: the entry comes before the store.
TurnOn ==
    /\ Begins
    /\ \/ SetsEntry(TRUE) /\ Calls([NoJob EXCEPT !.pc = "save on"])
       \/ UNCHANGED <<entry, untold, job>>
    /\ loose' = (loose \/ Pausing \/ Firing)
    /\ UNCHANGED <<booted, sess, linkVars, storeVars, moduleVars, now>>

SavesOn ==
    /\ At("caller", "save on") /\ enabled' = TRUE /\ Goes("caller", "reset")
    /\ UNCHANGED <<daemonVars, linkVars, failures, runs, proposal, moduleVars,
                   now, upsets, untold, loose>>

Resets ==
    /\ At("caller", "reset") /\ failures' = 0 /\ Calls(NoJob)
    /\ UNCHANGED <<daemonVars, linkVars, enabled, runs, proposal, moduleVars,
                   now, upsets, untold, loose>>

Recorded == {runs[n].session : n \in {m \in DOMAIN runs : Running(m)}}

TurnOff ==
    /\ Begins
    /\ \/ /\ RemovesEntry(Recorded)
          /\ Calls([NoJob EXCEPT !.pc = "list", !.then = "save off"])
       \/ UNCHANGED <<entry, untold, job>>
    /\ loose' = (loose \/ Pausing \/ Firing)
    /\ UNCHANGED <<booted, sess, linkVars, storeVars, moduleVars, now>>

\* The module is turned off: the store stays as it is, and the next resync
\* brings the entry back.
Suspend ==
    /\ Begins
    /\ RemovesEntry(Recorded) \/ UNCHANGED <<entry, untold>>
    /\ Calls([NoJob EXCEPT !.pc = "list"])
    /\ loose' = TRUE
    /\ UNCHANGED <<booted, sess, linkVars, storeVars, moduleVars, now>>

\* cancel_running reads the newest records, after the entry went.
Lists ==
    /\ At("caller", "list")
    /\ Calls([job["caller"] EXCEPT !.pc = "cancel", !.left = Latest(CancelRuns)])
    /\ untold' = untold \cup
           {runs[n].session : n \in {m \in DOMAIN runs \ Latest(CancelRuns) : Running(m)}}
    /\ UNCHANGED <<daemonVars, linkVars, storeVars, moduleVars, now, upsets,
                   loose>>

\* The newest of the runs N.
Newest(N) == CHOOSE n \in N : \A m \in N : m <= n

\* cancel_running: one run after the other, newest first.
Cancels ==
    /\ At("caller", "cancel")
    /\ LET todo == {n \in job["caller"].left : Running(n)} IN
       IF todo = {}
       THEN Calls([NoJob EXCEPT !.pc = job["caller"].then]) /\ UNCHANGED sess
       ELSE LET n == Newest(todo) IN
            /\ sess' = Closed(SessionsOf(n))
            /\ Calls([Concludes("caller", n, "cancelled") EXCEPT
                          !.left = {m \in todo : m < n}, !.back = "cancel"])
    /\ UNCHANGED <<entry, booted, linkVars, storeVars, moduleVars, now, upsets,
                   untold, loose>>

SavesOff ==
    /\ At("caller", "save off") /\ enabled' = FALSE /\ Calls(NoJob)
    /\ UNCHANGED <<daemonVars, linkVars, failures, runs, proposal, moduleVars,
                   now, upsets, untold, loose>>

\* save, grant and revoke read whether the routine is on.  A change that was
\* not reviewed turns it off.
Save(changed) ==
    /\ Begins
    /\ Calls([NoJob EXCEPT !.pc = "save",
                  !.keep = IF ~enabled THEN "off"
                           ELSE IF changed THEN "review" ELSE "on"])
    /\ loose' = (loose \/ Pausing \/ Firing)
    /\ UNCHANGED <<daemonVars, linkVars, storeVars, moduleVars, now, untold>>

SavesFiles ==
    /\ At("caller", "save") /\ enabled' = (job["caller"].keep = "on")
    /\ Goes("caller", "entry")
    /\ UNCHANGED <<daemonVars, linkVars, failures, runs, proposal, moduleVars,
                   now, upsets, untold, loose>>

SavesEntry ==
    /\ At("caller", "entry") /\ Calls(NoJob)
    /\ LET keep == job["caller"].keep IN
       \/ keep = "on" /\ SetsEntry(TRUE) /\ UNCHANGED loose
       \/ keep = "review" /\ RemovesEntry({}) /\ UNCHANGED loose
       \/ loose' = (loose \/ keep = "review") /\ UNCHANGED <<entry, untold>>
    /\ UNCHANGED <<booted, sess, linkVars, storeVars, moduleVars, now, upsets>>

-----------------------------------------------------------------------------
(* The resync of a new connection, which also holds `sync`.                *)

Resync ==
    /\ due /\ At("caller", "idle") /\ due' = FALSE
    /\ Calls([NoJob EXCEPT !.pc = "reconcile",
                            !.left = Latest(SettleRuns)])
    /\ loose' = (Pausing \/ Firing)
    /\ UNCHANGED <<daemonVars, linkVars, storeVars, queue, claimed, retrying,
                   now, upsets, untold>>

\* Variant: a run whose session ended is left to the event.
LeftRunning(s) == sess[s] # "detached"

\* reconcile leaves a run whose session says it runs.
SaysRunning(s) == sess[s] \in {"live", "closing"}

\* reconcile: the others are concluded, never retried; then the routine is
\* read again.
Reconciles ==
    /\ At("caller", "reconcile")
    /\ LET todo == {n \in job["caller"].left :
                       Running(n) /\ ~SaysRunning(runs[n].session)} IN
       IF todo = {}
       THEN Calls([NoJob EXCEPT !.pc = "register",
                                !.keep = IF enabled THEN "on" ELSE "off"])
       ELSE LET n == Newest(todo) IN
            \E answer \in Answers :
                Calls([Concludes("caller", n, IF answer = "done" THEN "done"
                                              ELSE "failed") EXCEPT
                          !.left = {m \in todo : m < n}, !.back = "reconcile"])
    /\ UNCHANGED <<daemonVars, linkVars, storeVars, queue, claimed, retrying,
                   due, now, upsets, untold, loose>>

Registers ==
    /\ At("caller", "register") /\ Goes("caller", "stale")
    /\ \/ job["caller"].keep = "on" /\ SetsEntry(TRUE) /\ UNCHANGED <<upsets, loose>>
       \/ job["caller"].keep = "off" /\ UNCHANGED <<entry, untold, upsets, loose>>
       \/ /\ job["caller"].keep = "on" /\ Upsets /\ loose' = TRUE
          /\ UNCHANGED <<entry, untold>>
    /\ UNCHANGED <<booted, sess, linkVars, storeVars, moduleVars, now>>

\* An entry that is not wanted is removed.
RemovesStale ==
    /\ At("caller", "stale") /\ Calls(NoJob)
    /\ \/ /\ job["caller"].keep = "off" /\ RemovesEntry({})
          /\ UNCHANGED <<upsets, loose>>
       \/ /\ job["caller"].keep = "off" /\ Upsets /\ loose' = TRUE
          /\ UNCHANGED <<entry, untold>>
       \/ job["caller"].keep = "on" /\ UNCHANGED <<entry, untold, upsets, loose>>
    /\ UNCHANGED <<booted, sess, linkVars, storeVars, moduleVars, now>>

-----------------------------------------------------------------------------
(* run_now: the entry is set as the routine was read, and fired.           *)

RunNow ==
    /\ now = "no" /\ Upsets
    /\ now' = IF enabled THEN "on" ELSE "off"
    /\ loose' = (loose \/ Pausing \/ Calling)
    /\ UNCHANGED <<daemonVars, linkVars, storeVars, moduleVars, job, untold>>

RunNowRegisters ==
    /\ now \in {"on", "off"}
    /\ \/ SetsEntry(now = "on") /\ now' = "fire"
       \/ now' = "no" /\ UNCHANGED <<entry, untold>>
    /\ UNCHANGED <<booted, sess, linkVars, storeVars, moduleVars, job, upsets,
                   loose>>

\* Engine::fire_now; it is skipped while the entry has a run, and the start
\* may fail.
RunNowFires ==
    /\ now = "fire" /\ now' = "no"
    /\ \/ entry.set /\ Launches
       \/ UNCHANGED <<entry, sess, wire>>
    /\ UNCHANGED <<booted, conn, storeVars, moduleVars, job, upsets, untold,
                   loose>>

-----------------------------------------------------------------------------
Conclusion(t) ==
    \/ Settles(t) \/ Marks(t) \/ Counts(t) \/ WritesCount(t)
    \/ Disables(t) \/ Unschedules(t)

WorkerStep ==
    \/ HandleFired \/ HandleTimeout \/ HandleEnded
    \/ RetryOnce \/ StartsRetry \/ MarksRetry \/ RetryEnds
    \/ Conclusion("worker")

CallerStep ==
    \/ SavesOn \/ Resets \/ Lists \/ Cancels \/ SavesOff \/ SavesFiles
    \/ SavesEntry \/ Resync \/ Reconciles \/ Registers \/ RemovesStale
    \/ Conclusion("caller")

OwnerCalls ==
    \/ TurnOn \/ TurnOff \/ Suspend \/ RunNow
    \/ \E changed \in BOOLEAN : Save(changed)

Next ==
    \/ SlotFires \/ FirstTick
    \/ \E kind \in {"ended", "timeout"} : RunSettles(kind)
    \/ \E s \in Sessions : SessionEnds(s) \/ Reattached(s)
    \/ Restart \/ Drop \/ Lags \/ Connect \/ AcceptEvent
    \/ WorkerStep \/ CallerStep \/ OwnerCalls
    \/ RunNowRegisters \/ RunNowFires

Spec == Init /\ [][Next]_vars

-----------------------------------------------------------------------------
(* Properties.                                                             *)

Types ==
    /\ entry \in Entry /\ booted \in BOOLEAN
    /\ sess \in [Sessions -> {"none", "live", "detached", "closing", "ended"}]
    /\ conn \in BOOLEAN /\ wire \in Seq(Event)
    /\ enabled \in BOOLEAN /\ failures \in Nat /\ runs \in Seq(Run)
    /\ proposal \in [Sessions -> {"queued", "applied", "discarded"}]
    /\ queue \in Seq(Event)
    /\ claimed \subseteq DOMAIN runs /\ retrying \in BOOLEAN /\ due \in BOOLEAN
    /\ job \in [Threads -> Job] /\ now \in {"no", "on", "off", "fire"}
    /\ upsets \in 0..MaxUpsets
    /\ untold \subseteq Sessions /\ loose \in BOOLEAN

Claimer(n) == {t \in Threads : job[t].n = n /\ job[t].pc = "mark"}

\* Types; a run is claimed by the one thread that settles it, and the
\* routine retries only while its worker is at it.
TypeOK ==
    /\ Types
    /\ \A n \in DOMAIN runs : Cardinality(Claimer(n)) = (IF n \in claimed THEN 1 ELSE 0)
    /\ retrying => ~At("worker", "idle")

\* A run is concluded once: what its record says at its end stays, and no
\* proposal of it is applied later, whoever reaches its end: the event, the
\* owner who turns the routine off, or the reconcile pass
\* (service.rs:1765-1784).
ConcludedOnce ==
    [][/\ \A n \in DOMAIN runs :
              ~Running(n) => runs'[n].status = runs[n].status
       /\ \A s \in Sessions : proposal[s] # proposal'[s] =>
              \E n \in DOMAIN runs : s \in SessionsOf(n) /\ Running(n)]_vars

\* The daemon has an entry that fires exactly while the routine is on, at
\* any time nobody is at work on it, with calls that fail, restarts and lost
\* connections, until two of a pause, a call and a run_now overlap or a
\* failing call is only logged; the next resync sets that right
\* (service.rs:752-753).
EntryFollowsStore ==
    ~loose /\ ~Pausing /\ ~Calling /\ ~Firing =>
        ((entry.set /\ entry.on) <=> enabled)

\* Run n is under way, and somebody is going to hear of its end.
UnderWay(n) ==
    n \in DOMAIN runs /\ Running(n) /\ runs[n].session \notin untold

\* The caller is in a loop and has yet to look at run n.
Awaits(loop, n) ==
    /\ n \in job["caller"].left
    /\ At("caller", loop) \/ job["caller"].back = loop

\* Who is going to conclude run n: the tick with an event, an event that is
\* on its way, a thread that is at it, a loop that comes to it, or the
\* reconcile pass of a connection, once its session has ended.
Followed(n) ==
    LET s == runs[n].session IN
    \/ entry.run = s
    \/ \E i \in DOMAIN wire : Final(wire[i]) /\ wire[i].session = s
    \/ \E i \in DOMAIN queue : Final(queue[i]) /\ queue[i].session = s
    \/ \E t \in Threads : job[t].n = n
    \/ At("caller", "list") \/ Awaits("cancel", n)
    \/ /\ ~Alive(s)
       /\ \/ Awaits("reconcile", n)
          \/ (~conn \/ due) /\ n \in Latest(SettleRuns)

\* No run is forgotten: whatever is lost, dropped, cancelled or started anew
\* on the way, somebody is going to conclude it, except where the last word
\* about its session was lost or its entry removed while it ran, and a run
\* that ended unheard and that newer ones pushed out of the records a
\* reconcile looks at (service.rs:1441-1449, 1765-1767).
NoneForgotten ==
    \A n \in DOMAIN runs :
        UnderWay(n) /\ (Alive(runs[n].session) \/ n \in Latest(SettleRuns))
            => Followed(n)
=============================================================================
