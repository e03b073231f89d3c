------------------------- MODULE RoutinesEndsProofs -------------------------
(***************************************************************************)
(* More proofs about Routines, on the invariant of RoutinesProofs: the     *)
(* entry of the daemon follows the store, and no run is forgotten, for any *)
(* number of slots, retries, calls and faults, and however many of the     *)
(* newest records the module looks at.                                     *)
(***************************************************************************)
EXTENDS RoutinesProofs

Concluding == {"claim", "mark", "count", "write", "disable", "unschedule"}
Loops == {"cancel", "reconcile"}

\* The caller concludes runs in a loop only, and looks at runs in no other
\* place.
Shape ==
    LET C == job["caller"] IN
    /\ C.pc \notin {"start retry", "mark retry", "await"}
    /\ C.pc \in Concluding => C.back # "idle"
    /\ C.pc \notin Concluding \cup Loops => C.left = {}
    /\ C.pc = "reconcile" => C.back # "cancel"

Fires == entry.set /\ entry.on

\* The owner turns the routine off, and its runs are cancelled.
Cancelling ==
    \/ At("caller", "list") \/ At("caller", "cancel")
    \/ job["caller"].pc \in Concluding /\ job["caller"].back = "cancel"

\* What the entry and the store are while somebody is at work on them.
Agrees ==
    LET C == job["caller"] IN
    /\ Pausing => ~Calling /\ ~Firing
    /\ Calling => ~Firing
    /\ ~Calling /\ ~At("worker", "unschedule") => (Fires <=> enabled)
    /\ At("worker", "unschedule") => ~enabled
    /\ now \in {"on", "off"} => (now = "on" <=> enabled)
    /\ C.pc = "save on" => Fires
    /\ C.pc = "reset" => Fires /\ enabled
    /\ Cancelling => C.then = "save off" /\ ~Fires
    /\ C.pc = "save off" => ~Fires
    /\ C.pc \in {"save", "entry"} => /\ C.keep = "on" => Fires
                                     /\ C.keep = "off" => ~Fires
    /\ C.pc = "entry" => (enabled <=> C.keep = "on")
    /\ C.pc \in {"register", "stale"} =>
           C.keep # "review" /\ (enabled <=> C.keep = "on")
    /\ C.pc = "stale" /\ C.keep = "on" => Fires

Follows == Shape /\ (~loose => Agrees)

\* The threads, one by one.
LEMMA TwoThreads ==
    ASSUME Inv
    PROVE  /\ job["worker"] \in Job /\ job["caller"] \in Job
           /\ \A j : [job EXCEPT !["worker"] = j]["worker"] = j
                     /\ [job EXCEPT !["worker"] = j]["caller"] = job["caller"]
           /\ \A j : [job EXCEPT !["caller"] = j]["caller"] = j
                     /\ [job EXCEPT !["caller"] = j]["worker"] = job["worker"]
           /\ "worker" # "caller"
  BY DEF Inv, Types, Threads

\* Nothing the entry depends on moves.
LEMMA EntryRests ==
    ASSUME Inv, Follows, UNCHANGED <<enabled, loose, now, job>>,
           entry'.set = entry.set, entry'.on = entry.on
    PROVE  Follows'
  BY DEF Follows, Shape, Agrees, Fires, Cancelling, Pausing, Calling, Firing,
         At, Concluding, Loops

\* The worker moves, away from a pause.
LEMMA WorkerMoves ==
    ASSUME Inv, Follows, UNCHANGED <<enabled, loose, now, entry>>,
           NEW j, job' = [job EXCEPT !["worker"] = j],
           ~Pausing, j.pc \notin {"disable", "unschedule"}
    PROVE  Follows'
  <1>1. job'["caller"] = job["caller"] /\ job'["worker"] = j
    BY TwoThreads
  <1>2. QED
    BY <1>1 DEF Follows, Shape, Agrees, Fires, Cancelling, Pausing, Calling,
                Firing, At, Concluding, Loops

-----------------------------------------------------------------------------
LEMMA DaemonFollows ==
    ASSUME Inv, Follows,
           \/ SlotFires \/ FirstTick \/ Drop \/ Lags \/ Connect \/ AcceptEvent
           \/ \E kind \in {"ended", "timeout"} : RunSettles(kind)
           \/ \E s \in Sessions : SessionEnds(s) \/ Reattached(s)
    PROVE  Follows'
  <1>1. entry \in Entry
    BY DEF Inv, Types
  <1>2. UNCHANGED <<enabled, loose, now, job>>
    BY DEF SlotFires, FirstTick, Drop, Lags, Connect, AcceptEvent, RunSettles,
           SessionEnds, Reattached, storeVars
  <1>3. entry' = entry \/ \E s : entry' = [entry EXCEPT !.run = s]
    <2>1. CASE SlotFires \/ FirstTick
      BY <2>1 DEF SlotFires, Launches, FirstTick
    <2>2. CASE ~(SlotFires \/ FirstTick)
      BY <2>2 DEF Drop, Lags, Connect, AcceptEvent, RunSettles, SessionEnds,
                  Reattached, daemonVars
    <2>3. QED
      BY <2>1, <2>2
  <1>4. ASSUME NEW s
        PROVE  /\ [entry EXCEPT !.run = s].set = entry.set
               /\ [entry EXCEPT !.run = s].on = entry.on
    BY <1>1 DEF Entry
  <1>5. entry'.set = entry.set /\ entry'.on = entry.on
    BY <1>3, <1>4
  <1>6. QED
    BY <1>2, <1>5, EntryRests

LEMMA RestartFollows == ASSUME Inv, Follows, Restart PROVE Follows'
  <1>1. loose' = TRUE /\ job'["caller"] = NoJob
    BY DEF Restart, Threads
  <1>2. QED
    BY <1>1, NoJobType DEF Follows, Shape, Concluding, Loops

LEMMA EventFollows ==
    ASSUME Inv, Follows,
           HandleFired \/ HandleTimeout \/ HandleEnded \/ RetryOnce
    PROVE  Follows'
  <1>1. job["worker"].pc = "idle" /\ UNCHANGED <<enabled, loose, now, entry>>
    BY DEF HandleFired, HandleTimeout, HandleEnded, RetryOnce, TakesEvent, At,
           daemonVars
  <1>2. CASE job' = job
    BY <1>1, <1>2, EntryRests
  <1>3. CASE job' # job
    <2>1. PICK j : /\ job' = [job EXCEPT !["worker"] = j]
                   /\ j.pc \in {"claim", "start retry"}
      <3>1. CASE HandleTimeout \/ HandleEnded
        <4>1. PICK n, result :
                  job' = [job EXCEPT !["worker"] =
                              Concludes("worker", n, result)]
          BY <1>3, <3>1 DEF HandleTimeout, HandleEnded
        <4>2. Concludes("worker", n, result).pc = "claim"
          BY TwoThreads DEF Concludes, Job
        <4>3. QED
          BY <4>1, <4>2
      <3>2. CASE RetryOnce
        <4>1. PICK n :
                  job' = [job EXCEPT !["worker"] =
                             [@ EXCEPT !.pc = "start retry", !.n = n]]
          BY <3>2 DEF RetryOnce
        <4>2. [job["worker"] EXCEPT !.pc = "start retry", !.n = n].pc
                  = "start retry"
          BY TwoThreads DEF Job
        <4>3. QED
          BY <4>1, <4>2 DEF Inv, Types, Threads
      <3>3. QED
        BY <1>3, <3>1, <3>2 DEF HandleFired
    <2>2. QED
      BY <1>1, <2>1, WorkerMoves DEF Pausing
  <1>4. QED
    BY <1>2, <1>3

-----------------------------------------------------------------------------
LEMMA WorkerGoes ==
    ASSUME Inv, NEW pc, Goes("worker", pc)
    PROVE  job'["worker"].pc = pc /\ job'["caller"] = job["caller"]
  <1>1. job["worker"] \in Job /\ "worker" \in Threads
    BY TwoThreads DEF Threads
  <1>2. job' = [job EXCEPT !["worker"] = [job["worker"] EXCEPT !.pc = pc]]
    BY <1>1 DEF Goes, Inv, Types
  <1>3. [job["worker"] EXCEPT !.pc = pc].pc = pc
    BY <1>1 DEF Job
  <1>4. QED
    BY <1>2, <1>3, TwoThreads

\* The worker is at a run, and neither starts nor ends a pause.
LEMMA WorkerFollows ==
    ASSUME Inv, Follows,
           \/ StartsRetry \/ MarksRetry \/ RetryEnds
           \/ Settles("worker") \/ Marks("worker") \/ Counts("worker")
    PROVE  Follows'
  <1>1. ~Pausing /\ UNCHANGED <<enabled, loose, now, entry>>
    BY DEF StartsRetry, MarksRetry, RetryEnds, Settles, Marks, Counts, At,
           Pausing, daemonVars, storeVars
  <1>2. "worker" \in Threads /\ {"mark", "count", "await"} \subseteq Pc
    BY DEF Threads, Pc
  <1>3. PICK j : /\ job' = [job EXCEPT !["worker"] = j]
                 /\ j.pc \notin {"disable", "unschedule"}
    <2>1. CASE MarksRetry
      <3>1. Goes("worker", "await") /\ "await" \in Pc
        BY <1>2, <2>1 DEF MarksRetry
      <3>2. QED
        BY <1>2, <3>1, GoesJob
    <2>2. CASE RetryEnds
      <3>1. PICK result :
                job' = [job EXCEPT !["worker"] =
                            Concludes("worker", job["worker"].n, result)]
        BY <2>2, <1>2 DEF RetryEnds, Inv, Types
      <3>2. Concludes("worker", job["worker"].n, result).pc = "claim"
        BY TwoThreads DEF Concludes, Job
      <3>3. QED
        BY <3>1, <3>2
    <2>3. CASE Settles("worker")
      <3>1. Goes("worker", "mark") \/ Done("worker")
        BY <2>3 DEF Settles
      <3>2. QED
        BY <1>2, <3>1, GoesJob, DoneJob
    <2>4. CASE Marks("worker")
      <3>1. Goes("worker", "count") \/ Done("worker")
        BY <2>4 DEF Marks
      <3>2. QED
        BY <1>2, <3>1, GoesJob, DoneJob
    <2>5. CASE Counts("worker")
      <3> DEFINE W == job["worker"]
                 fails == IF W.result = "failed" THEN failures + 1 ELSE 0
                 j == [W EXCEPT !.pc = "write", !.fails = fails]
      <3>1. job' = [job EXCEPT !["worker"] = j]
        BY <1>2, <2>5 DEF Counts, Inv, Types
      <3>2. j.pc = "write"
        BY TwoThreads DEF Job
      <3>3. QED
        BY <3>1, <3>2
    <2>6. CASE StartsRetry
      <3>1. \/ job' = [job EXCEPT !["worker"] =
                           Concludes("worker", job["worker"].n, "failed")]
            \/ \E r : job' = [job EXCEPT !["worker"] =
                   [job["worker"] EXCEPT !.pc = "mark retry", !.retry = r]]
        BY <1>2, <2>6 DEF StartsRetry, Inv, Types
      <3>2. Concludes("worker", job["worker"].n, "failed").pc = "claim"
        BY TwoThreads DEF Concludes, Job
      <3>3. \A r : [job["worker"] EXCEPT !.pc = "mark retry", !.retry = r].pc
                       = "mark retry"
        BY TwoThreads DEF Job
      <3>4. QED
        BY <3>1, <3>2, <3>3
    <2>7. QED
      BY <2>1, <2>2, <2>3, <2>4, <2>5, <2>6
  <1>4. QED
    BY <1>1, <1>3, WorkerMoves

\* A pause of the worker: nobody else is at work on the entry, or it is loose.
LEMMA PauseFollows ==
    ASSUME Inv, Follows,
           WritesCount("worker") \/ Disables("worker") \/ Unschedules("worker")
    PROVE  Follows'
  <1>1. "worker" \in Threads /\ {"disable", "unschedule"} \subseteq Pc
    BY DEF Threads, Pc
  <1>2. CASE WritesCount("worker") /\ Done("worker")
    <2>1. PICK j : /\ job' = [job EXCEPT !["worker"] = j]
                   /\ j.pc \in {"idle", "cancel", "reconcile"}
      BY <1>1, <1>2, DoneJob
    <2>2. UNCHANGED <<enabled, now, entry>> /\ ~Pausing
      BY <1>2 DEF WritesCount, daemonVars, Pausing, At
    <2>3. loose' = loose \/ Goes("worker", "disable")
      BY <1>2 DEF WritesCount
    <2>4. ~Goes("worker", "disable")
      BY <2>1, TwoThreads, WorkerGoes
    <2>5. loose' = loose
      BY <1>2, <2>3, <2>4
    <2>6. QED
      BY <2>1, <2>2, <2>5, WorkerMoves
  <1>3. CASE WritesCount("worker") /\ ~Done("worker")
    <2>1. Goes("worker", "disable") /\ loose' = (loose \/ Firing \/ Calling)
      BY <1>3 DEF WritesCount
    <2>2. UNCHANGED <<enabled, now, entry>>
      BY <1>3 DEF WritesCount, daemonVars
    <2>3. job'["worker"].pc = "disable" /\ job'["caller"] = job["caller"]
      BY <2>1, WorkerGoes
    <2>4. job["worker"].pc = "write"
      BY <1>3 DEF WritesCount, At
    <2>5. QED
      BY <2>1, <2>2, <2>3, <2>4
         DEF Follows, Shape, Agrees, Fires, Cancelling, Pausing, Calling,
             Firing, At, Concluding, Loops
  <1>4. CASE Disables("worker")
    <2>1. Goes("worker", "unschedule") /\ enabled' = FALSE
          /\ UNCHANGED <<loose, now, entry>> /\ job["worker"].pc = "disable"
      BY <1>4 DEF Disables, daemonVars, At
    <2>2. job'["worker"].pc = "unschedule" /\ job'["caller"] = job["caller"]
      BY <2>1, WorkerGoes
    <2>3. QED
      BY <2>1, <2>2
         DEF Follows, Shape, Agrees, Fires, Cancelling, Pausing, Calling,
             Firing, At, Concluding, Loops
  <1>5. CASE Unschedules("worker")
    <2>1. UNCHANGED <<now, enabled>> /\ job["worker"].pc = "unschedule"
          /\ Done("worker")
      BY <1>5 DEF Unschedules, storeVars, At
    <2>2. job'["worker"].pc = "idle" /\ job'["caller"] = job["caller"]
      BY <2>1, TwoThreads, NoJobType DEF Done
    <2>3. loose' = TRUE \/ (loose' = loose /\ entry' = NoEntry)
      BY <1>5 DEF Unschedules, RemovesEntry
    <2>4. NoEntry.set = FALSE
      BY DEF NoEntry
    <2>5. QED
      BY <2>1, <2>2, <2>3, <2>4
         DEF Follows, Shape, Agrees, Fires, Cancelling, Pausing, Calling,
             Firing, At, Concluding, Loops
  <1>6. QED
    BY <1>2, <1>3, <1>4, <1>5

\* The caller goes from one step of a chain to the next.
LEMMA CallerGoes ==
    ASSUME Inv, NEW pc, Goes("caller", pc)
    PROVE  /\ job'["worker"] = job["worker"] /\ job'["caller"].pc = pc
           /\ \A f \in {"n", "left", "back", "then", "keep"} :
                  job'["caller"][f] = job["caller"][f]
  <1>1. job["caller"] \in Job /\ "caller" \in Threads
    BY TwoThreads DEF Threads
  <1>2. job' = [job EXCEPT !["caller"] = [job["caller"] EXCEPT !.pc = pc]]
    BY <1>1 DEF Goes, Inv, Types
  <1>3. [job["caller"] EXCEPT !.pc = pc].pc = pc
        /\ \A f \in {"n", "left", "back", "then", "keep"} :
               [job["caller"] EXCEPT !.pc = pc][f] = job["caller"][f]
    BY <1>1 DEF Job
  <1>4. QED
    BY <1>2, <1>3, TwoThreads

\* The caller concludes a run of its loop: what it does to the entry and the
\* store is only to turn the routine off.
LEMMA ConcludingFollows ==
    ASSUME Inv, Follows, NEW pc, Goes("caller", pc),
           job["caller"].pc \in Concluding,
           pc \in Concluding \/ pc = job["caller"].back,
           UNCHANGED now, loose = TRUE => loose' = TRUE,
           entry' = entry \/ entry' = NoEntry
    PROVE  Follows'
  <1>1. /\ job'["worker"] = job["worker"] /\ job'["caller"].pc = pc
        /\ job'["caller"].left = job["caller"].left
        /\ job'["caller"].back = job["caller"].back
        /\ job'["caller"].then = job["caller"].then
    BY CallerGoes
  <1>2. job["caller"].back \in {"idle", "cancel", "reconcile"}
    BY TwoThreads DEF Job
  <1>3. Fires' => Fires
    BY DEF Fires, NoEntry
  <1>4. loose \in BOOLEAN
    BY DEF Inv, Types
  <1>5. Shape'
    BY <1>1, <1>2 DEF Follows, Shape, Concluding, Loops
  <1>6. ASSUME ~loose' PROVE Agrees'
    BY <1>1, <1>2, <1>3, <1>4, <1>6
       DEF Follows, Shape, Agrees, Cancelling, Pausing, Calling, Firing, At,
           Concluding, Loops
  <1>7. QED
    BY <1>5, <1>6 DEF Follows

LEMMA CallerDone == Done("caller") => Goes("caller", job["caller"].back)
  BY DEF Done

LEMMA CallerConclusionFollows ==
    ASSUME Inv, Follows, Conclusion("caller") PROVE Follows'
  <1>1. loose \in BOOLEAN
    BY DEF Inv, Types
  <1>2. CASE Settles("caller") \/ Marks("caller")
    <2>1. UNCHANGED <<now, loose, entry>> /\ job["caller"].pc \in Concluding
      BY <1>2 DEF Settles, Marks, At, daemonVars, Concluding
    <2>2. \/ Goes("caller", "mark") \/ Goes("caller", "count")
          \/ Goes("caller", job["caller"].back)
      BY <1>2, CallerDone DEF Settles, Marks
    <2>3. {"mark", "count"} \subseteq Concluding
      BY DEF Concluding
    <2>4. QED
      BY <2>1, <2>2, <2>3, ConcludingFollows
  <1>3. CASE Counts("caller")
    <2> DEFINE C == job["caller"]
               fails == IF C.result = "failed" THEN failures + 1 ELSE 0
               j == [C EXCEPT !.pc = "write", !.fails = fails]
    <2>1. C \in Job /\ C.pc = "count" /\ UNCHANGED <<now, loose, entry, enabled>>
      BY <1>3, TwoThreads DEF Counts, At, daemonVars, storeVars
    <2>2. job' = [job EXCEPT !["caller"] = j]
      BY <1>3 DEF Counts, Inv, Types, Threads
    <2>3. j.pc = "write" /\ j.left = C.left /\ j.back = C.back /\ j.then = C.then
      BY <2>1 DEF Job
    <2> HIDE DEF j
    <2>4. job'["caller"] = j /\ job'["worker"] = job["worker"]
      BY <2>2, TwoThreads
    <2>5. Shape'
      BY <2>1, <2>3, <2>4 DEF Follows, Shape, Concluding, Loops
    <2>6. ASSUME ~loose' PROVE Agrees'
      BY <2>1, <2>3, <2>4, <2>6
         DEF Follows, Agrees, Cancelling, Pausing, Calling, Firing, Fires, At,
             Concluding
    <2>7. QED
      BY <2>5, <2>6 DEF Follows
  <1>4. CASE WritesCount("caller")
    <2>1. UNCHANGED <<now, entry>> /\ job["caller"].pc \in Concluding
      BY <1>4 DEF WritesCount, At, daemonVars, Concluding
    <2>2. loose = TRUE => loose' = TRUE
      BY <1>4 DEF WritesCount
    <2>3. Goes("caller", "disable") \/ Goes("caller", job["caller"].back)
      BY <1>4, CallerDone DEF WritesCount
    <2>4. "disable" \in Concluding
      BY DEF Concluding
    <2>5. QED
      BY <2>1, <2>2, <2>3, <2>4, ConcludingFollows
  <1>5. CASE Disables("caller")
    <2>1. UNCHANGED <<now, loose, entry>> /\ job["caller"].pc \in Concluding
          /\ Goes("caller", "unschedule") /\ "unschedule" \in Concluding
      BY <1>5 DEF Disables, At, daemonVars, Concluding
    <2>2. QED
      BY <2>1, ConcludingFollows
  <1>6. CASE Unschedules("caller")
    <2>1. UNCHANGED now /\ job["caller"].pc \in Concluding
          /\ Goes("caller", job["caller"].back)
      BY <1>6, CallerDone DEF Unschedules, At, Concluding
    <2>2. (entry' = entry \/ entry' = NoEntry) /\ (loose = TRUE => loose' = TRUE)
      BY <1>6 DEF Unschedules, RemovesEntry
    <2>3. QED
      BY <2>1, <2>2, ConcludingFollows
  <1>7. QED
    BY <1>2, <1>3, <1>4, <1>5, <1>6 DEF Conclusion

\* The caller goes to a step away from every run.
LEMMA CallFollows ==
    ASSUME Inv, Follows, NEW j \in Job, Calls(j), UNCHANGED now,
           j.pc \in Loops \/ j.left = {}, j.pc \notin Concluding \cup AtRun,
           j.pc = "reconcile" => j.back # "cancel",
           ~loose' => /\ ~Firing /\ ~Pausing
                      /\ j.pc = "idle" => (Fires' <=> enabled')
                      /\ j.pc = "save on" => Fires'
                      /\ j.pc \in {"list", "cancel"} =>
                             j.then = "save off" /\ ~Fires'
                      /\ j.pc = "save off" => ~Fires'
                      /\ j.pc = "reset" => Fires' /\ enabled'
                      /\ j.pc \in {"save", "entry"} =>
                             /\ j.keep = "on" => Fires'
                             /\ j.keep = "off" => ~Fires'
                      /\ j.pc = "entry" => (enabled' <=> j.keep = "on")
                      /\ j.pc \in {"register", "stale"} =>
                             /\ j.keep # "review"
                             /\ enabled' <=> j.keep = "on"
                      /\ j.pc = "stale" /\ j.keep = "on" => Fires'
    PROVE  Follows'
  <1>1. job'["caller"] = j /\ job'["worker"] = job["worker"]
    BY TwoThreads DEF Calls
  <1>2. Shape'
    BY <1>1 DEF Shape, Concluding, Loops, AtRun
  <1>3. ASSUME ~loose' PROVE Agrees'
    BY <1>1, <1>3
       DEF Agrees, Cancelling, Pausing, Calling, Firing, At, Concluding, Loops
  <1>4. QED
    BY <1>2, <1>3 DEF Follows

\* What the caller's calls write.
LEMMA SetFires ==
    ASSUME Inv
    PROVE  /\ \A on \in BOOLEAN : SetsEntry(on) => (Fires' <=> on)
           /\ \A S : RemovesEntry(S) => ~Fires'
  <1>1. entry \in Entry
    BY DEF Inv, Types
  <1>2. ASSUME NEW on \in BOOLEAN, SetsEntry(on) PROVE Fires' <=> on
    <2>1. entry' = [entry EXCEPT !.set = TRUE, !.on = on]
      BY <1>2 DEF SetsEntry
    <2>2. entry'.set = TRUE /\ entry'.on = on
      BY <1>1, <2>1 DEF Entry
    <2>3. QED
      BY <2>2 DEF Fires
  <1>3. ~NoEntry.set
    BY DEF NoEntry
  <1>4. QED
    BY <1>2, <1>3 DEF RemovesEntry, Fires

\* The fields of a job that begins.
LEMMA NoJobFields ==
    /\ NoJob \in Job /\ NoJob.pc = "idle" /\ NoJob.left = {}
    /\ NoJob.back = "idle" /\ NoJob.then = "idle" /\ NoJob.keep = "off"
  BY NoJobType DEF NoJob

LEMMA TurnOnFollows == ASSUME Inv, Follows, TurnOn PROVE Follows'
  <1> DEFINE j == [NoJob EXCEPT !.pc = "save on"]
  <1>1. /\ UNCHANGED <<now, enabled>> /\ job["caller"].pc = "idle"
        /\ loose' = (loose \/ Pausing \/ Firing)
    BY DEF TurnOn, Begins, At, storeVars
  <1>2. CASE job' = job /\ entry' = entry
    BY <1>1, <1>2 DEF Follows, Shape, Agrees, Fires, Cancelling, Pausing,
                      Calling, Firing, At, Concluding, Loops
  <1>3. CASE SetsEntry(TRUE) /\ Calls(j)
    <2>1. j \in Job /\ j.pc = "save on" /\ j.left = {}
      BY NoJobFields DEF Job, Pc
    <2>2. Fires'
      BY <1>3, SetFires
    <2>3. QED
      BY <1>1, <1>3, <2>1, <2>2, CallFollows DEF Concluding, Loops, AtRun
  <1>4. QED
    BY <1>2, <1>3 DEF TurnOn

LEMMA SavesOnFollows == ASSUME Inv, Follows, SavesOn PROVE Follows'
  <1>1. /\ UNCHANGED <<now, loose, entry>> /\ enabled' = TRUE
        /\ job["caller"].pc = "save on" /\ Goes("caller", "reset")
    BY DEF SavesOn, At, daemonVars
  <1>2. /\ job'["worker"] = job["worker"] /\ job'["caller"].pc = "reset"
        /\ job'["caller"].left = job["caller"].left
        /\ job'["caller"].back = job["caller"].back
    BY <1>1, CallerGoes
  <1>3. QED
    BY <1>1, <1>2 DEF Follows, Shape, Agrees, Fires, Cancelling, Pausing,
                      Calling, Firing, At, Concluding, Loops

LEMMA ResetsFollows == ASSUME Inv, Follows, Resets PROVE Follows'
  <1>1. /\ UNCHANGED <<now, loose, entry, enabled>>
        /\ job["caller"].pc = "reset" /\ Calls(NoJob)
    BY DEF Resets, At, daemonVars
  <1>2. ~loose' => ~Firing /\ ~Pausing /\ (Fires' <=> enabled')
    BY <1>1 DEF Follows, Agrees, Calling, At, Fires
  <1>3. QED
    BY <1>1, <1>2, NoJobFields, CallFollows DEF Concluding, Loops, AtRun

LEMMA TurnOffFollows == ASSUME Inv, Follows, TurnOff PROVE Follows'
  <1> DEFINE j == [NoJob EXCEPT !.pc = "list", !.then = "save off"]
  <1>1. /\ UNCHANGED <<now, enabled>> /\ job["caller"].pc = "idle"
        /\ loose' = (loose \/ Pausing \/ Firing)
    BY DEF TurnOff, Begins, At, storeVars
  <1>2. CASE job' = job /\ entry' = entry
    BY <1>1, <1>2 DEF Follows, Shape, Agrees, Fires, Cancelling, Pausing,
                      Calling, Firing, At, Concluding, Loops
  <1>3. CASE RemovesEntry(Recorded) /\ Calls(j)
    <2>1. j \in Job /\ j.pc = "list" /\ j.left = {} /\ j.then = "save off"
      BY NoJobFields DEF Job, Pc
    <2>2. ~Fires'
      BY <1>3, SetFires
    <2>3. QED
      BY <1>1, <1>3, <2>1, <2>2, CallFollows DEF Concluding, Loops, AtRun
  <1>4. QED
    BY <1>2, <1>3 DEF TurnOff

LEMMA SuspendFollows == ASSUME Inv, Follows, Suspend PROVE Follows'
  <1> DEFINE j == [NoJob EXCEPT !.pc = "list"]
  <1>1. j \in Job /\ j.pc = "list" /\ j.left = {}
    BY NoJobFields DEF Job, Pc
  <1>2. loose' = TRUE /\ UNCHANGED now /\ Calls(j)
    BY DEF Suspend
  <1>3. QED
    BY <1>1, <1>2, CallFollows DEF Concluding, Loops, AtRun

LEMMA ListsFollows == ASSUME Inv, Follows, Lists PROVE Follows'
  <1> DEFINE C == job["caller"]
             j == [C EXCEPT !.pc = "cancel", !.left = Latest(CancelRuns)]
  <1>1. /\ UNCHANGED <<now, loose, entry, enabled>> /\ Calls(j)
        /\ C \in Job /\ C.pc = "list"
    BY TwoThreads DEF Lists, At, daemonVars, storeVars
  <1>2. Latest(CancelRuns) \subseteq Nat
    BY NewerIn, RunNumbers
  <1>3. j \in Job /\ j.pc = "cancel" /\ j.then = C.then
    BY <1>1, <1>2 DEF Job, Pc
  <1>4. ~loose' => ~Firing /\ ~Pausing /\ C.then = "save off" /\ ~Fires'
    BY <1>1 DEF Follows, Agrees, Cancelling, Calling, At, Fires
  <1> HIDE DEF j
  <1>5. QED
    BY <1>1, <1>3, <1>4, CallFollows DEF Concluding, Loops, AtRun

LEMMA SavesOffFollows == ASSUME Inv, Follows, SavesOff PROVE Follows'
  <1>1. /\ UNCHANGED <<now, loose, entry>> /\ enabled' = FALSE
        /\ job["caller"].pc = "save off" /\ Calls(NoJob)
    BY DEF SavesOff, At, daemonVars
  <1>2. ~loose' => ~Firing /\ ~Pausing /\ (Fires' <=> enabled')
    BY <1>1 DEF Follows, Agrees, Calling, At, Fires
  <1>3. QED
    BY <1>1, <1>2, NoJobFields, CallFollows DEF Concluding, Loops, AtRun

LEMMA SaveFollows ==
    ASSUME Inv, Follows, NEW changed \in BOOLEAN, Save(changed) PROVE Follows'
  <1> DEFINE keep == IF ~enabled THEN "off"
                     ELSE IF changed THEN "review" ELSE "on"
             j == [NoJob EXCEPT !.pc = "save", !.keep = keep]
  <1>1. /\ UNCHANGED <<now, enabled, entry>> /\ job["caller"].pc = "idle"
        /\ loose' = (loose \/ Pausing \/ Firing) /\ Calls(j)
    BY DEF Save, Begins, At, storeVars, daemonVars
  <1>2. /\ keep \in {"on", "review", "off"}
        /\ keep = "on" => enabled
        /\ keep = "off" => ~enabled
    BY DEF Inv, Types
  <1> HIDE DEF keep
  <1>3. j \in Job /\ j.pc = "save" /\ j.left = {} /\ j.keep = keep
    BY <1>2, NoJobFields DEF Job, Pc
  <1>4. ~loose' => /\ ~Firing /\ ~Pausing
                   /\ keep = "on" => Fires'
                   /\ keep = "off" => ~Fires'
    BY <1>1, <1>2 DEF Follows, Agrees, Calling, At, Fires, Pausing
  <1>5. QED
    BY <1>1, <1>3, <1>4, CallFollows DEF Concluding, Loops, AtRun

LEMMA SavesFilesFollows == ASSUME Inv, Follows, SavesFiles PROVE Follows'
  <1>1. /\ UNCHANGED <<now, loose, entry>> /\ job["caller"].pc = "save"
        /\ enabled' = (job["caller"].keep = "on") /\ Goes("caller", "entry")
    BY DEF SavesFiles, At, daemonVars
  <1>2. /\ job'["worker"] = job["worker"] /\ job'["caller"].pc = "entry"
        /\ job'["caller"].left = job["caller"].left
        /\ job'["caller"].back = job["caller"].back
        /\ job'["caller"].keep = job["caller"].keep
    BY <1>1, CallerGoes
  <1>3. QED
    BY <1>1, <1>2 DEF Follows, Shape, Agrees, Fires, Cancelling, Pausing,
                      Calling, Firing, At, Concluding, Loops

LEMMA SavesEntryFollows == ASSUME Inv, Follows, SavesEntry PROVE Follows'
  <1> DEFINE keep == job["caller"].keep
  <1>1. /\ UNCHANGED <<now, enabled>> /\ job["caller"].pc = "entry"
        /\ Calls(NoJob)
    BY DEF SavesEntry, At, storeVars
  <1>2. keep \in {"on", "review", "off"} /\ loose \in BOOLEAN
    BY TwoThreads DEF Job, Inv, Types
  <1>3. ~loose => /\ ~Firing /\ ~Pausing /\ (enabled <=> keep = "on")
                  /\ keep = "on" => Fires
                  /\ keep = "off" => ~Fires
    BY <1>1 DEF Follows, Agrees, Calling, At
  <1>4. ~loose' => ~loose /\ (Fires' <=> keep = "on")
    <2>1. CASE keep = "on" /\ SetsEntry(TRUE) /\ UNCHANGED loose
      BY <2>1, SetFires
    <2>2. CASE keep = "review" /\ RemovesEntry({}) /\ UNCHANGED loose
      BY <2>2, SetFires
    <2>3. CASE loose' = (loose \/ keep = "review") /\ UNCHANGED entry
      BY <1>2, <1>3, <2>3 DEF Fires
    <2>4. QED
      BY <2>1, <2>2, <2>3 DEF SavesEntry
  <1>5. ~loose' => ~Firing /\ ~Pausing /\ (Fires' <=> enabled')
    BY <1>1, <1>3, <1>4
  <1>6. QED
    BY <1>1, <1>5, NoJobFields, CallFollows DEF Concluding, Loops, AtRun

LEMMA ResyncFollows == ASSUME Inv, Follows, Resync PROVE Follows'
  <1> DEFINE j == [NoJob EXCEPT !.pc = "reconcile",
                                !.left = Latest(SettleRuns)]
  <1>1. Latest(SettleRuns) \subseteq Nat
    BY NewerIn, RunNumbers
  <1>2. j \in Job /\ j.pc = "reconcile" /\ j.back = "idle"
    BY <1>1, NoJobFields DEF Job, Pc
  <1>3. UNCHANGED now /\ Calls(j) /\ loose' = (Pausing \/ Firing)
    BY DEF Resync
  <1>4. QED
    BY <1>2, <1>3, CallFollows DEF Concluding, Loops, AtRun

\* The loop comes to a run.
LEMMA LoopFollows ==
    ASSUME Inv, Follows, NEW j \in Job, Calls(j),
           UNCHANGED <<now, loose, entry, enabled>>,
           job["caller"].pc \in Loops, j.pc = "claim",
           j.back = job["caller"].pc, j.then = job["caller"].then
    PROVE  Follows'
  <1>1. job'["caller"] = j /\ job'["worker"] = job["worker"]
    BY TwoThreads DEF Calls
  <1>2. QED
    BY <1>1 DEF Follows, Shape, Agrees, Fires, Cancelling, Pausing, Calling,
                Firing, At, Concluding, Loops

\* How the loop comes to run n, and what is left of it.
LoopsTo(n, result, left, loop) ==
    [Concludes("caller", n, result) EXCEPT !.left = left, !.back = loop]

LEMMA LoopJob ==
    ASSUME Inv, NEW n \in DOMAIN runs, NEW left \in SUBSET DOMAIN runs,
           NEW loop \in Loops, NEW result \in {"done", "failed", "cancelled"}
    PROVE  /\ LoopsTo(n, result, left, loop) \in Job
           /\ LoopsTo(n, result, left, loop).pc = "claim"
           /\ LoopsTo(n, result, left, loop).n = n
           /\ LoopsTo(n, result, left, loop).left = left
           /\ LoopsTo(n, result, left, loop).back = loop
           /\ LoopsTo(n, result, left, loop).then = job["caller"].then
  <1> DEFINE k == Concludes("caller", n, result)
  <1>1. n \in Nat /\ left \subseteq Nat /\ "caller" \in Threads
    BY RunNumbers DEF Threads
  <1>2. k \in Job /\ k.pc = "claim" /\ k.n = n
    BY <1>1, ConcludesType
  <1>3. k.then = job["caller"].then
    BY TwoThreads DEF Concludes, Job
  <1>4. LoopsTo(n, result, left, loop)
            = [k EXCEPT !.left = left, !.back = loop]
    BY DEF LoopsTo
  <1> HIDE DEF k
  <1>5. QED
    BY <1>1, <1>2, <1>3, <1>4 DEF Job, Loops

LEMMA CancelsFollows == ASSUME Inv, Follows, Cancels PROVE Follows'
  <1> DEFINE C == job["caller"]
             todo == {m \in C.left : Running(m)}
             n == Newest(todo)
  <1>1. /\ UNCHANGED <<now, loose, entry, enabled>>
        /\ C \in Job /\ C.pc = "cancel" /\ C.left \subseteq DOMAIN runs
    BY TwoThreads DEF Cancels, At, storeVars, Inv, Claims, Threads
  <1>2. CASE todo = {}
    <2> DEFINE j == [NoJob EXCEPT !.pc = C.then]
    <2>1. C.then \in {"idle", "save off"} /\ Calls(j)
      BY <1>1, <1>2 DEF Job, Cancels
    <2>2. j \in Job /\ j.pc = C.then /\ j.left = {}
      BY <2>1, NoJobFields DEF Job, Pc
    <2>3. ~loose' => ~Firing /\ ~Pausing /\ C.then = "save off" /\ ~Fires'
      BY <1>1 DEF Follows, Agrees, Cancelling, Calling, At, Fires
    <2>4. QED
      BY <1>1, <2>1, <2>2, <2>3, CallFollows DEF Concluding, Loops, AtRun
  <1>3. CASE todo # {}
    <2>1. todo \in SUBSET DOMAIN runs
      BY <1>1
    <2>2. n \in DOMAIN runs
      BY <1>3, <2>1, NewestIn
    <2> DEFINE left == {m \in todo : m < n}
               j == LoopsTo(n, "cancelled", left, "cancel")
    <2>3. Calls(j)
      BY <1>3 DEF Cancels, LoopsTo
    <2>4. left \in SUBSET DOMAIN runs
      BY <2>1
    <2>5. "cancel" \in Loops
      BY DEF Loops
    <2> HIDE DEF left, n
    <2>6. j \in Job /\ j.pc = "claim" /\ j.back = "cancel" /\ j.then = C.then
      BY <2>2, <2>4, <2>5, LoopJob
    <2> HIDE DEF j
    <2>7. QED
      BY <1>1, <2>3, <2>5, <2>6, LoopFollows
  <1>4. QED
    BY <1>2, <1>3

LEMMA ReconcilesFollows == ASSUME Inv, Follows, Reconciles PROVE Follows'
  <1> DEFINE C == job["caller"]
             todo == {m \in C.left :
                         Running(m) /\ ~SaysRunning(runs[m].session)}
             n == Newest(todo)
  <1>1. /\ UNCHANGED <<now, loose, entry, enabled>>
        /\ C \in Job /\ C.pc = "reconcile" /\ C.left \subseteq DOMAIN runs
    BY TwoThreads
       DEF Reconciles, At, daemonVars, storeVars, Inv, Claims, Threads
  <1>2. CASE todo = {}
    <2> DEFINE keep == IF enabled THEN "on" ELSE "off"
               j == [NoJob EXCEPT !.pc = "register", !.keep = keep]
    <2>1. Calls(j)
      BY <1>2 DEF Reconciles
    <2>2. keep \in {"on", "off"} /\ (enabled <=> keep = "on")
      BY DEF Inv, Types
    <2> HIDE DEF keep
    <2>3. j \in Job /\ j.pc = "register" /\ j.left = {} /\ j.keep = keep
      BY <2>2, NoJobFields DEF Job, Pc
    <2>4. ~loose' => ~Firing /\ ~Pausing
      BY <1>1 DEF Follows, Agrees, Calling, At
    <2>5. QED
      BY <1>1, <2>1, <2>2, <2>3, <2>4, CallFollows
         DEF Concluding, Loops, AtRun
  <1>3. CASE todo # {}
    <2>1. todo \in SUBSET DOMAIN runs
      BY <1>1
    <2>2. n \in DOMAIN runs
      BY <1>3, <2>1, NewestIn
    <2> DEFINE left == {m \in todo : m < n}
    <2>3. PICK result \in {"done", "failed", "cancelled"} :
              Calls(LoopsTo(n, result, left, "reconcile"))
      BY <1>3 DEF Reconciles, LoopsTo
    <2> DEFINE j == LoopsTo(n, result, left, "reconcile")
    <2>4. left \in SUBSET DOMAIN runs
      BY <2>1
    <2>5. "reconcile" \in Loops
      BY DEF Loops
    <2>6. Calls(j)
      BY <2>3
    <2> HIDE DEF left, n
    <2>7. j \in Job /\ j.pc = "claim" /\ j.back = "reconcile"
          /\ j.then = C.then
      BY <2>2, <2>4, <2>5, LoopJob
    <2> HIDE DEF j
    <2>8. QED
      BY <1>1, <2>5, <2>6, <2>7, LoopFollows
  <1>4. QED
    BY <1>2, <1>3

LEMMA RegistersFollows == ASSUME Inv, Follows, Registers PROVE Follows'
  <1> DEFINE C == job["caller"]
  <1>1. /\ UNCHANGED <<now, enabled>> /\ C.pc = "register"
        /\ Goes("caller", "stale")
        /\ \/ C.keep = "on" /\ SetsEntry(TRUE) /\ UNCHANGED loose
           \/ C.keep = "off" /\ UNCHANGED <<entry, loose>>
           \/ loose' = TRUE
    BY DEF Registers, At, storeVars
  <1>2. /\ job'["worker"] = job["worker"] /\ job'["caller"].pc = "stale"
        /\ job'["caller"].left = C.left /\ job'["caller"].back = C.back
        /\ job'["caller"].keep = C.keep
    BY <1>1, CallerGoes
  <1>3. SetsEntry(TRUE) => Fires'
    BY SetFires
  <1>4. Shape'
    BY <1>1, <1>2 DEF Follows, Shape, Concluding, Loops
  <1>5. ASSUME ~loose' PROVE Agrees'
    <2>1. ~loose /\ C.keep # "review" /\ (C.keep = "on" => Fires')
      <3>1. CASE C.keep = "on" /\ SetsEntry(TRUE) /\ UNCHANGED loose
        BY <1>3, <1>5, <3>1
      <3>2. CASE C.keep = "off" /\ UNCHANGED <<entry, loose>>
        BY <1>5, <3>2
      <3>3. CASE loose' = TRUE
        BY <1>5, <3>3
      <3>4. QED
        BY <1>1, <3>1, <3>2, <3>3
    <2>2. ~Firing /\ ~Pausing /\ (enabled <=> C.keep = "on")
      BY <1>1, <2>1 DEF Follows, Agrees, Calling, At
    <2>3. QED
      BY <1>1, <1>2, <2>1, <2>2
         DEF Agrees, Cancelling, Pausing, Calling, Firing, At, Concluding
  <1>6. QED
    BY <1>4, <1>5 DEF Follows

LEMMA RemovesStaleFollows == ASSUME Inv, Follows, RemovesStale PROVE Follows'
  <1> DEFINE C == job["caller"]
  <1>1. /\ UNCHANGED <<now, enabled>> /\ C.pc = "stale" /\ Calls(NoJob)
        /\ \/ C.keep = "off" /\ RemovesEntry({}) /\ UNCHANGED loose
           \/ loose' = TRUE
           \/ C.keep = "on" /\ UNCHANGED <<entry, loose>>
    BY DEF RemovesStale, At, storeVars
  <1>2. RemovesEntry({}) => ~Fires'
    BY SetFires
  <1>3. UNCHANGED entry => (Fires' <=> Fires)
    BY DEF Fires
  <1>4. ASSUME ~loose' PROVE ~Firing /\ ~Pausing /\ (Fires' <=> enabled')
    <2>1. CASE C.keep = "off" /\ RemovesEntry({}) /\ UNCHANGED loose
      BY <1>1, <1>2, <1>4, <2>1 DEF Follows, Agrees, Calling, At
    <2>2. CASE loose' = TRUE
      BY <1>4, <2>2
    <2>3. CASE C.keep = "on" /\ UNCHANGED <<entry, loose>>
      BY <1>1, <1>3, <1>4, <2>3 DEF Follows, Agrees, Calling, At
    <2>4. QED
      BY <1>1, <2>1, <2>2, <2>3
  <1>5. QED
    BY <1>1, <1>4, NoJobFields, CallFollows DEF Concluding, Loops, AtRun

LEMMA RunNowFollows ==
    ASSUME Inv, Follows, RunNow \/ RunNowRegisters \/ RunNowFires
    PROVE  Follows'
  <1>1. CASE RunNow
    <2>1. /\ UNCHANGED <<job, enabled, entry>> /\ now = "no"
          /\ now' = (IF enabled THEN "on" ELSE "off")
          /\ loose' = (loose \/ Pausing \/ Calling)
      BY <1>1 DEF RunNow, daemonVars, storeVars
    <2>2. QED
      BY <2>1 DEF Follows, Shape, Agrees, Fires, Cancelling, Pausing, Calling,
                  Firing, At, Concluding, Loops
  <1>2. CASE RunNowRegisters
    <2>1. /\ UNCHANGED <<job, enabled, loose>> /\ now \in {"on", "off"}
          /\ \/ SetsEntry(now = "on") /\ now' = "fire"
             \/ now' = "no" /\ UNCHANGED entry
      BY <1>2 DEF RunNowRegisters, storeVars
    <2>2. SetsEntry(now = "on") => (Fires' <=> now = "on")
      BY SetFires
    <2>3. UNCHANGED entry => (Fires' <=> Fires)
      BY DEF Fires
    <2>4. Shape'
      BY <2>1 DEF Follows, Shape
    <2>5. ASSUME ~loose' PROVE Agrees'
      BY <2>1, <2>2, <2>3, <2>5
         DEF Follows, Shape, Agrees, Cancelling, Pausing, Calling, Firing, At,
             Concluding, Loops
    <2>6. QED
      BY <2>4, <2>5 DEF Follows
  <1>3. CASE RunNowFires
    <2>1. /\ UNCHANGED <<job, enabled, loose>> /\ now = "fire" /\ now' = "no"
          /\ entry' = entry \/ \E s : entry' = [entry EXCEPT !.run = s]
      BY <1>3 DEF RunNowFires, Launches, storeVars
    <2>2. ASSUME NEW s
          PROVE  /\ [entry EXCEPT !.run = s].set = entry.set
                 /\ [entry EXCEPT !.run = s].on = entry.on
      BY DEF Inv, Types, Entry
    <2>3. entry'.set = entry.set /\ entry'.on = entry.on
      BY <2>1, <2>2
    <2>4. QED
      BY <2>1, <2>3
         DEF Follows, Shape, Agrees, Fires, Cancelling, Pausing, Calling,
             Firing, At, Concluding, Loops
  <1>4. QED
    BY <1>1, <1>2, <1>3

-----------------------------------------------------------------------------
LEMMA BeginFollows == Init => Follows
  <1> SUFFICES ASSUME Init PROVE Follows
    OBVIOUS
  <1>1. /\ \A t \in Threads : job[t] = NoJob
        /\ entry = [set |-> TRUE, on |-> TRUE, run |-> 0]
        /\ enabled = TRUE /\ now = "no"
    BY DEF Init
  <1>2. job["worker"] = NoJob /\ job["caller"] = NoJob
        /\ entry.set = TRUE /\ entry.on = TRUE
    BY <1>1 DEF Threads
  <1>3. QED
    BY <1>1, <1>2, NoJobFields
       DEF Follows, Shape, Agrees, Fires, Cancelling, Pausing, Calling,
           Firing, At, Concluding, Loops

LEMMA StepFollows == ASSUME Inv, Follows, Next PROVE Follows'
  <1>1. CASE WorkerStep
    BY <1>1, EventFollows, WorkerFollows, PauseFollows
       DEF WorkerStep, Conclusion
  <1>2. CASE CallerStep
    BY <1>2, SavesOnFollows, ResetsFollows, ListsFollows, CancelsFollows,
       SavesOffFollows, SavesFilesFollows, SavesEntryFollows, ResyncFollows,
       ReconcilesFollows, RegistersFollows, RemovesStaleFollows,
       CallerConclusionFollows
       DEF CallerStep
  <1>3. CASE OwnerCalls
    BY <1>3, TurnOnFollows, TurnOffFollows, SuspendFollows, RunNowFollows,
       SaveFollows DEF OwnerCalls
  <1>4. CASE ~WorkerStep /\ ~CallerStep /\ ~OwnerCalls
    <2>1. \/ SlotFires \/ FirstTick \/ Drop \/ Lags \/ Connect \/ AcceptEvent
          \/ \E kind \in {"ended", "timeout"} : RunSettles(kind)
          \/ \E s \in Sessions : SessionEnds(s) \/ Reattached(s)
          \/ Restart \/ RunNowRegisters \/ RunNowFires
      BY <1>4 DEF Next
    <2>2. QED
      BY <2>1, DaemonFollows, RestartFollows, RunNowFollows
  <1>5. QED
    BY <1>1, <1>2, <1>3, <1>4

LEMMA FollowsStutters == Inv /\ Follows /\ UNCHANGED vars => Follows'
  BY EntryRests DEF vars, daemonVars, storeVars

LEMMA EntryInvariant == Spec => [](Inv /\ Follows)
  <1>1. Inv /\ Follows /\ [Next]_vars => Follows'
    BY StepFollows, FollowsStutters
  <1>2. QED
    BY Invariant, BeginFollows, <1>1, PTL DEF Spec

\* Whenever nobody is at work on it and nothing has made it loose, the entry
\* of the daemon fires exactly while the routine is on, for any number of
\* calls, failures, restarts and lost connections (service.rs:752-753).
THEOREM EntryIsRight == Spec => []EntryFollowsStore
  <1>1. Inv /\ Follows => EntryFollowsStore
    BY DEF Follows, Agrees, EntryFollowsStore, Fires, Pausing, At
  <1>2. QED
    BY EntryInvariant, <1>1, PTL

-----------------------------------------------------------------------------
(* The events and the records of a routine come in the order of its        *)
(* sessions, so that the newest record is the only one an event can name.  *)

\* The sessions events of q name, and those whose last word is in q.
Names(q) == {q[i].session : i \in DOMAIN q}
Ends(q) == {q[i].session : i \in {k \in DOMAIN q : Final(q[k])}}

\* The sessions of the records and of the events on their way.
Recording == {runs[n].session : n \in DOMAIN runs}
Seen == Recording \cup Names(wire) \cup Names(queue)

Rising(q) == \A i, j \in DOMAIN q : i <= j => q[i].session <= q[j].session

\* What is seen of the newer sessions comes later, in the records, the
\* queue, on the way, and in the entry.
InOrder ==
    /\ Rising(wire) /\ Rising(queue)
    /\ \A x \in Names(queue), y \in Names(wire) : x <= y
    /\ \A m, n \in DOMAIN runs : m < n => runs[m].session < runs[n].session
    /\ \A x \in Recording, y \in Names(wire) \cup Names(queue) : x <= y
    /\ entry.run # 0 => \A x \in Seen : x <= entry.run
    /\ \A s \in Slots : sess[s] = "none" =>
           entry.run < s /\ \A x \in Seen : x < s

LEMMA AppendParts ==
    ASSUME NEW q \in Seq(Event), NEW e \in Event
    PROVE  /\ Names(Append(q, e)) = Names(q) \cup {e.session}
           /\ Ends(q) \subseteq Ends(Append(q, e))
           /\ Final(e) => e.session \in Ends(Append(q, e))
  <1> DEFINE p == Append(q, e)
  <1>1. /\ DOMAIN p = DOMAIN q \cup {Len(q) + 1} /\ p[Len(q) + 1] = e
        /\ \A i \in DOMAIN q : p[i] = q[i]
    OBVIOUS
  <1> HIDE DEF p
  <1>2. Names(p) = Names(q) \cup {e.session}
    BY <1>1 DEF Names
  <1>3. Ends(q) \subseteq Ends(p) /\ (Final(e) => e.session \in Ends(p))
    BY <1>1 DEF Ends
  <1>4. QED
    BY <1>2, <1>3 DEF p

LEMMA TailParts ==
    ASSUME NEW q \in Seq(Event), q # <<>>
    PROVE  /\ Names(Tail(q)) \subseteq Names(q) /\ Head(q).session \in Names(q)
           /\ \A s \in Ends(q) : \/ s \in Ends(Tail(q))
                                 \/ Final(Head(q)) /\ s = Head(q).session
  <1> DEFINE p == Tail(q)
  <1>1. /\ 1 \in DOMAIN q /\ Head(q) = q[1]
        /\ \A i \in DOMAIN p : i + 1 \in DOMAIN q /\ p[i] = q[i + 1]
        /\ \A i \in DOMAIN q : i # 1 => i - 1 \in DOMAIN p /\ p[i - 1] = q[i]
    OBVIOUS
  <1> HIDE DEF p
  <1>2. Names(p) \subseteq Names(q) /\ Head(q).session \in Names(q)
    BY <1>1 DEF Names
  <1>3. ASSUME NEW s \in Ends(q)
        PROVE  s \in Ends(p) \/ (Final(Head(q)) /\ s = Head(q).session)
    <2>1. PICK i \in DOMAIN q : Final(q[i]) /\ q[i].session = s
      BY DEF Ends
    <2>2. CASE i = 1
      BY <1>1, <2>1, <2>2
    <2>3. CASE i # 1
      BY <1>1, <2>1, <2>3 DEF Ends
    <2>4. QED
      BY <2>2, <2>3
  <1>4. QED
    BY <1>2, <1>3 DEF p

LEMMA NoParts == Names(<<>>) = {} /\ Ends(<<>>) = {}
  BY DEF Names, Ends

LEMMA SlotNumbers ==
    ASSUME Inv
    PROVE  /\ \A s \in Slots : s # 0
           /\ \A n \in DOMAIN runs : runs[n].session \in Slots
           /\ entry.run \in {0} \cup Slots
  <1>1. runs \in Seq(Run) /\ entry \in Entry
    BY DEF Inv, Types
  <1>2. \A n \in DOMAIN runs : runs[n] \in Run
    BY <1>1
  <1>3. QED
    BY <1>1, <1>2, SessionNumbers DEF Run, Entry

LEMMA SeenNumbers ==
    ASSUME Inv
    PROVE  /\ Slots \subseteq Nat /\ entry.run \in Nat
           /\ Recording \subseteq Slots /\ Names(wire) \subseteq Slots
           /\ Names(queue) \subseteq Slots
  <1>1. Slots \subseteq Nat
    BY RoutinesAssumption DEF Slots
  <1>2. wire \in Seq(Event) /\ queue \in Seq(Event)
    BY DEF Inv, Types
  <1>3. /\ \A i \in DOMAIN wire : wire[i] \in Event
        /\ \A i \in DOMAIN queue : queue[i] \in Event
    BY <1>2
  <1>4. Names(wire) \subseteq Slots /\ Names(queue) \subseteq Slots
    BY <1>3 DEF Names, Event
  <1>5. Recording \subseteq Slots
    BY SlotNumbers DEF Recording
  <1>6. entry.run \in Nat
    <2>1. entry.run = 0 \/ entry.run \in Slots
      BY SlotNumbers
    <2>2. CASE entry.run = 0
      BY <2>2
    <2>3. CASE entry.run \in Slots
      BY <1>1, <2>3, Zenon
    <2>4. QED
      BY <2>1, <2>2, <2>3
  <1>7. QED
    BY <1>1, <1>4, <1>5, <1>6

LEMMA TailRises ==
    ASSUME NEW q \in Seq(Event), q # <<>>, Rising(q)
    PROVE  Rising(Tail(q)) /\ \A x \in Names(q) : Head(q).session <= x
  <1> DEFINE p == Tail(q)
  <1>1. /\ 1 \in DOMAIN q /\ Head(q) = q[1]
        /\ \A i \in DOMAIN q : i \in Nat /\ 1 <= i
        /\ \A i \in DOMAIN p : /\ i \in Nat /\ i + 1 \in DOMAIN q
                               /\ p[i] = q[i + 1]
    OBVIOUS
  <1> HIDE DEF p
  <1>2. ASSUME NEW i \in DOMAIN p, NEW j \in DOMAIN p, i <= j
        PROVE  p[i].session <= p[j].session
    <2>1. i + 1 <= j + 1
      BY <1>1, <1>2
    <2>2. QED
      BY <1>1, <2>1 DEF Rising
  <1>3. QED
    BY <1>1, <1>2 DEF Rising, Names, p

LEMMA AppendRises ==
    ASSUME NEW q \in Seq(Event), NEW e \in Event, Rising(q),
           e.session \in Nat, \A x \in Names(q) : x <= e.session
    PROVE  Rising(Append(q, e))
  <1> DEFINE p == Append(q, e)
             new == Len(q) + 1
  <1>1. /\ DOMAIN p = DOMAIN q \cup {new} /\ p[new] = e
        /\ \A i \in DOMAIN q : p[i] = q[i] /\ i \in Nat /\ i < new
        /\ new \in Nat
    OBVIOUS
  <1> HIDE DEF p, new
  <1>2. ASSUME NEW i \in DOMAIN p, NEW j \in DOMAIN p, i <= j
        PROVE  p[i].session <= p[j].session
    <2>1. CASE j = new
      BY <1>1, <2>1 DEF Names
    <2>2. CASE j # new
      <3>1. j \in DOMAIN q /\ i # new
        BY <1>1, <1>2, <2>2
      <3>2. QED
        BY <1>1, <1>2, <3>1 DEF Rising
    <2>3. QED
      BY <2>1, <2>2
  <1>3. QED
    BY <1>2 DEF Rising, p

\* No new event, record or run of the entry.
LEMMA OrderStays ==
    ASSUME Inv, InOrder, Rising(wire'), Rising(queue'),
           Names(wire') \subseteq Names(wire),
           Names(queue') \subseteq Names(queue),
           DOMAIN runs' = DOMAIN runs,
           \A n \in DOMAIN runs : runs'[n].session = runs[n].session,
           entry'.run \in {0, entry.run},
           \A s \in Slots : sess'[s] = "none" => sess[s] = "none"
    PROVE  InOrder'
  <1>1. Recording' = Recording
    BY DEF Recording
  <1>2. Seen' \subseteq Seen
    BY <1>1 DEF Seen
  <1>3. \A s \in Slots : 0 < s
    BY SeenNumbers, SlotNumbers
  <1>4. QED
    BY <1>1, <1>2, <1>3 DEF InOrder

\* The next event is about the run of the entry, which goes.
LEMMA OrderEmits ==
    ASSUME Inv, InOrder, NEW s \in Slots,
           \A x \in Seen : x <= s, \A x \in Slots : sess'[x] = "none" => s < x,
           NEW kind \in {"fired", "ended", "restarted", "timeout"},
           Emits(kind, s), UNCHANGED <<queue, runs>>,
           entry'.run \in {0, s}
    PROVE  InOrder'
  <1> DEFINE e == [kind |-> kind, session |-> s]
  <1>1. e \in Event /\ e.session = s
    BY DEF Event
  <1>2. wire \in Seq(Event) /\ s \in Nat
    BY SeenNumbers DEF Inv, Types
  <1>3. wire' = IF conn THEN Append(wire, e) ELSE wire
    BY DEF Emits, Told
  <1>4. \A x \in Names(wire) : x <= s
    BY DEF Seen
  <1> HIDE DEF e
  <1>5. Rising(wire')
    <2>1. Rising(wire)
      BY DEF InOrder
    <2>2. Rising(Append(wire, e))
      BY <1>1, <1>2, <1>4, <2>1, AppendRises
    <2>3. QED
      BY <1>3, <2>1, <2>2
  <1>6. Names(wire') \subseteq Names(wire) \cup {s}
    BY <1>1, <1>2, <1>3, AppendParts
  <1>7. Recording' = Recording /\ Names(queue') = Names(queue)
        /\ Rising(queue')
    BY DEF Recording, Names, InOrder, Rising
  <1>8. \A x \in Seen' : x <= s
    BY <1>2, <1>6, <1>7 DEF Seen
  <1>9. Seen' \subseteq Nat
    BY <1>2, <1>6, <1>7, SeenNumbers DEF Seen
  <1>10. \A x \in Slots : sess'[x] = "none" =>
             entry'.run < x /\ \A y \in Seen' : y < x
    <2> SUFFICES ASSUME NEW x \in Slots, sess'[x] = "none"
                 PROVE  entry'.run < x /\ \A y \in Seen' : y < x
      OBVIOUS
    <2>1. s < x /\ x \in Nat
      BY SeenNumbers
    <2>2. QED
      BY <1>2, <1>8, <1>9, <2>1
  <1>11. entry'.run # 0 => \A x \in Seen' : x <= entry'.run
    BY <1>8
  <1>12. \A x \in Names(queue'), y \in Names(wire') : x <= y
    BY <1>6, <1>7 DEF InOrder, Seen
  <1>13. \A x \in Recording', y \in Names(wire') \cup Names(queue') : x <= y
    BY <1>6, <1>7 DEF InOrder, Seen
  <1>14. \A m, n \in DOMAIN runs' :
             m < n => runs'[m].session < runs'[n].session
    BY DEF InOrder
  <1>15. QED
    BY <1>5, <1>7, <1>10, <1>11, <1>12, <1>13, <1>14 DEF InOrder

LEMMA LaunchesOrdered ==
    ASSUME Inv, InOrder, Launches, UNCHANGED <<queue, runs>> PROVE InOrder'
  <1>1. PICK s \in Slots :
            /\ sess[s] = "none" /\ \A x \in Slots : x < s => sess[x] # "none"
            /\ sess' = [sess EXCEPT ![s] = "live"]
            /\ entry' = [entry EXCEPT !.run = s] /\ Emits("fired", s)
    BY SessionNumbers DEF Launches, IsNext
  <1>2. entry'.run = s
    BY <1>1 DEF Inv, Types, Entry
  <1>3. \A x \in Seen : x <= s
    BY <1>1, SeenNumbers DEF InOrder, Seen
  <1>4. \A x \in Slots : sess'[x] = "none" => s < x
    <2> SUFFICES ASSUME NEW x \in Slots, sess'[x] = "none" PROVE s < x
      OBVIOUS
    <2>1. x # s /\ sess[x] = "none"
      BY <1>1, SessionNumbers DEF Inv, Types
    <2>2. QED
      BY <1>1, <2>1, SeenNumbers
  <1>5. QED
    BY <1>1, <1>2, <1>3, <1>4, OrderEmits

LEMMA SettlesOrdered ==
    ASSUME Inv, InOrder, entry.run # 0, UNCHANGED <<queue, runs>>,
           entry'.run = 0,
           NEW kind \in {"ended", "restarted", "timeout"},
           Emits(kind, entry.run),
           \A s \in Slots : sess'[s] = "none" => sess[s] = "none"
    PROVE  InOrder'
  <1>1. PICK s \in Slots : s = entry.run
    BY SlotNumbers
  <1>2. \A x \in Seen : x <= s
    BY <1>1 DEF InOrder
  <1>3. \A x \in Slots : sess'[x] = "none" => s < x
    BY <1>1 DEF InOrder
  <1>4. QED
    BY <1>1, <1>2, <1>3, OrderEmits

LEMMA DaemonOrdered ==
    ASSUME Inv, InOrder,
           \/ SlotFires \/ FirstTick \/ RunNowFires
           \/ \E kind \in {"ended", "timeout"} : RunSettles(kind)
    PROVE  InOrder'
  <1>1. UNCHANGED <<queue, runs>>
    BY DEF SlotFires, FirstTick, RunNowFires, RunSettles, storeVars, moduleVars
  <1>2. CASE SlotFires \/ (RunNowFires /\ Launches)
    BY <1>1, <1>2, LaunchesOrdered DEF SlotFires
  <1>3. CASE UNCHANGED <<entry, sess, wire>>
    BY <1>1, <1>3, OrderStays DEF InOrder, Rising, Names
  <1>4. CASE FirstTick /\ entry.run # 0
    <2>1. /\ entry' = [entry EXCEPT !.run = 0] /\ Emits("restarted", entry.run)
          /\ sess' = IF Alive(entry.run)
                     THEN [sess EXCEPT ![entry.run] = "closing"] ELSE sess
      BY <1>4 DEF FirstTick
    <2>2. entry'.run = 0
      BY <2>1 DEF Inv, Types, Entry
    <2>3. \A s \in Slots : sess'[s] = "none" => sess[s] = "none"
      BY <2>1, SessionNumbers DEF Inv, Types
    <2>4. QED
      BY <1>1, <1>4, <2>1, <2>2, <2>3, SettlesOrdered
  <1>5. ASSUME NEW kind \in {"ended", "timeout"}, RunSettles(kind)
        PROVE  InOrder'
    <2>1. /\ entry' = [entry EXCEPT !.run = 0] /\ Emits(kind, entry.run)
          /\ entry.run # 0
          /\ sess' = IF kind = "timeout"
                     THEN [sess EXCEPT ![entry.run] = "closing"] ELSE sess
      BY <1>5 DEF RunSettles
    <2>2. entry'.run = 0
      BY <2>1 DEF Inv, Types, Entry
    <2>3. \A s \in Slots : sess'[s] = "none" => sess[s] = "none"
      BY <2>1, SessionNumbers DEF Inv, Types
    <2>4. QED
      BY <1>1, <2>1, <2>2, <2>3, SettlesOrdered
  <1>6. QED
    BY <1>2, <1>3, <1>4, <1>5 DEF RunNowFires, FirstTick

LEMMA LinkOrdered ==
    ASSUME Inv, InOrder, Restart \/ Drop \/ Lags \/ Connect \/ AcceptEvent
    PROVE  InOrder'
  <1>0. wire \in Seq(Event) /\ queue \in Seq(Event)
        /\ Rising(wire) /\ Rising(queue)
    BY DEF Inv, Types, InOrder
  <1>1. /\ UNCHANGED <<runs, entry>>
        /\ \A s \in Slots : sess'[s] = "none" => sess[s] = "none"
    BY SessionNumbers
       DEF Restart, Drop, Lags, Connect, AcceptEvent, Closed, Alive, daemonVars,
           storeVars, Inv, Types
  <1>2. Rising(<<>>) /\ Names(<<>>) = {}
    BY DEF Rising, Names
  <1>3. CASE Restart \/ Drop \/ Connect
    <2>1. /\ wire' = <<>> \/ wire' = wire
          /\ queue' = <<>> \/ queue' = queue
      BY <1>3 DEF Restart, Drop, Connect, moduleVars
    <2>2. /\ Rising(wire') /\ Names(wire') \subseteq Names(wire)
          /\ Rising(queue') /\ Names(queue') \subseteq Names(queue)
      BY <1>0, <1>2, <2>1
    <2>3. QED
      BY <1>1, <2>2, OrderStays
  <1>4. CASE Lags \/ (AcceptEvent /\ queue' = queue)
    <2>1. wire # <<>> /\ wire' = Tail(wire) /\ queue' = queue
      BY <1>4 DEF Lags, AcceptEvent, moduleVars
    <2>2. Rising(wire') /\ Names(wire') \subseteq Names(wire)
      BY <1>0, <2>1, TailRises, TailParts
    <2>3. QED
      BY <1>0, <1>1, <2>1, <2>2, OrderStays
  <1>5. CASE AcceptEvent /\ queue' # queue
    <2> DEFINE e == Head(wire)
    <2>1. wire # <<>> /\ wire' = Tail(wire) /\ queue' = Append(queue, e)
      BY <1>5 DEF AcceptEvent
    <2>2. /\ Rising(wire') /\ Names(wire') \subseteq Names(wire)
          /\ e.session \in Names(wire)
          /\ \A x \in Names(wire) : e.session <= x
      BY <1>0, <2>1, TailRises, TailParts
    <2>3. e \in Event /\ e.session \in Nat
      BY <1>0, <2>1, <2>2, HeadType, SeenNumbers
    <2>4. \A x \in Names(queue) : x <= e.session
      BY <2>2 DEF InOrder
    <2>5. Rising(queue') /\ Names(queue') = Names(queue) \cup {e.session}
      BY <1>0, <2>1, <2>3, <2>4, AppendRises, AppendParts
    <2> HIDE DEF e
    <2>6. Recording' = Recording /\ Seen' \subseteq Seen
      BY <1>1, <2>2, <2>5 DEF Recording, Seen
    <2>7. \A x \in Names(queue'), y \in Names(wire') : x <= y
      BY <2>2, <2>5 DEF InOrder
    <2>8. \A x \in Recording', y \in Names(wire') \cup Names(queue') : x <= y
      BY <2>2, <2>5, <2>6 DEF InOrder
    <2>9. QED
      BY <1>1, <2>2, <2>5, <2>6, <2>7, <2>8 DEF InOrder
  <1>6. QED
    BY <1>3, <1>4, <1>5

\* The record an event names is the newest, or there is none.
LEMMA NewestNamed ==
    ASSUME Inv, InOrder, queue # <<>>, NEW s, s = Head(queue).session
    PROVE  /\ s \in Slots /\ \A n \in DOMAIN runs : runs[n].session <= s
           /\ \A n \in RunsOf(s) : n = Len(runs)
           /\ Found(runs, s) = RunsOf(s)
  <1>1. queue \in Seq(Event) /\ runs \in Seq(Run)
    BY DEF Inv, Types
  <1>2. s \in Names(queue)
    BY <1>1, TailParts
  <1>3. s \in Slots /\ s \in Nat /\ \A n \in DOMAIN runs : runs[n].session \in Nat
    BY <1>2, SeenNumbers, SlotNumbers
  <1>4. \A n \in DOMAIN runs : runs[n].session <= s
    BY <1>2 DEF InOrder, Recording
  <1>5. \A n \in RunsOf(s) : n = Len(runs)
    <2> SUFFICES ASSUME NEW n \in DOMAIN runs, runs[n].session = s,
                        n # Len(runs)
                 PROVE  FALSE
      BY DEF RunsOf
    <2>1. PICK m : m = Len(runs)
      OBVIOUS
    <2>2. m \in DOMAIN runs /\ n < m
      BY <1>1, <2>1
    <2>3. runs[n].session < runs[m].session
      BY <2>2 DEF InOrder
    <2>4. QED
      BY <1>3, <1>4, <2>2, <2>3
  <1>6. \A n \in RunsOf(s) : n \in Newer(runs, FindRuns)
    BY <1>1, <1>5, RoutinesAssumption DEF Newer, RunsOf
  <1>7. Found(runs, s) = RunsOf(s)
    BY <1>6 DEF Found, RunsOf, Newer
  <1>8. QED
    BY <1>3, <1>4, <1>5, <1>7

\* So that it is as if find_run looked at every record.
LEMMA EveryRecord ==
    ASSUME Inv, InOrder, queue # <<>>, NEW s, s = Head(queue).session
    PROVE  /\ WithRecord(s) = IF RunsOf(s) # {} THEN runs
                 ELSE Append(runs, [session |-> s, retry |-> 0,
                                    status |-> "running"])
           /\ EndedRun(s) = {n \in DOMAIN WithRecord(s) :
                                 /\ WithRecord(s)[n].session = s
                                 /\ WithRecord(s)[n].status = "running"}
  <1> DEFINE r == [session |-> s, retry |-> 0, status |-> "running"]
  <1>1. /\ WithRecord(s) = IF RunsOf(s) # {} THEN runs ELSE Append(runs, r)
        /\ runs \in Seq(Run) /\ s \in Slots
    BY NewestNamed DEF WithRecord, Inv, Types
  <1>2. CASE RunsOf(s) # {}
    BY <1>1, <1>2, NewestNamed DEF EndedRun, RunsOf
  <1>3. CASE RunsOf(s) = {}
    <2>1. r.session = s /\ r \in Run
      BY <1>1 DEF Run
    <2> HIDE DEF r
    <2>2. PICK rs : rs = WithRecord(s)
      OBVIOUS
    <2>3. PICK new : new = Len(runs) + 1
      OBVIOUS
    <2>4. /\ DOMAIN rs = DOMAIN runs \cup {new} /\ rs[new] = r
          /\ \A n \in DOMAIN runs : rs[n] = runs[n]
          /\ Len(rs) = new /\ new \in Nat
      BY <1>1, <1>3, <2>1, <2>2, <2>3
    <2>5. \A n \in DOMAIN rs : rs[n].session = s => n = new
      BY <1>3, <2>4 DEF RunsOf
    <2>6. new \in Newer(rs, FindRuns)
      BY <2>4, RoutinesAssumption DEF Newer
    <2>7. Found(rs, s) = {n \in DOMAIN rs : rs[n].session = s}
      BY <2>5, <2>6 DEF Found, Newer
    <2>8. QED
      BY <1>1, <2>2, <2>7 DEF EndedRun, r
  <1>4. QED
    BY <1>1, <1>2, <1>3 DEF r

LEMMA EventOrdered ==
    ASSUME Inv, InOrder,
           HandleFired \/ HandleTimeout \/ HandleEnded \/ RetryOnce
    PROVE  InOrder'
  <1>1. PICK s : s = Head(queue).session
    OBVIOUS
  <1>2. /\ queue # <<>> /\ queue' = Tail(queue) /\ runs' = WithRecord(s)
        /\ UNCHANGED <<entry, sess, wire>>
    BY <1>1 DEF HandleFired, HandleTimeout, HandleEnded, RetryOnce, TakesEvent,
                daemonVars, linkVars
  <1>3. queue \in Seq(Event) /\ runs \in Seq(Run) /\ Rising(queue)
    BY DEF Inv, Types, InOrder
  <1>4. /\ Rising(queue') /\ Names(queue') \subseteq Names(queue)
        /\ s \in Names(queue) /\ \A x \in Names(queue) : s <= x
    BY <1>1, <1>2, <1>3, TailRises, TailParts
  <1>5. CASE RunsOf(s) # {}
    <2>1. runs' = runs
      BY <1>1, <1>2, <1>5, EveryRecord
    <2>2. QED
      BY <1>2, <1>4, <2>1, OrderStays DEF InOrder
  <1>6. CASE RunsOf(s) = {}
    <2> DEFINE r == [session |-> s, retry |-> 0, status |-> "running"]
    <2>1. runs' = Append(runs, r)
      BY <1>1, <1>2, <1>6, EveryRecord
    <2>2. r.session = s
      OBVIOUS
    <2> HIDE DEF r
    <2>3. PICK new : new = Len(runs) + 1
      OBVIOUS
    <2>4. /\ DOMAIN runs' = DOMAIN runs \cup {new} /\ runs'[new] = r
          /\ \A n \in DOMAIN runs : runs'[n] = runs[n] /\ n < new /\ n \in Nat
          /\ new \in Nat
      BY <1>3, <2>1, <2>3
    <2>5. \A n \in DOMAIN runs : runs[n].session < s
      <3> TAKE n \in DOMAIN runs
      <3>1. runs[n].session <= s /\ runs[n].session # s
        BY <1>1, <1>2, <1>6, NewestNamed DEF RunsOf
      <3>2. runs[n].session \in Nat /\ s \in Nat
        BY <1>4, SeenNumbers, SlotNumbers
      <3>3. QED
        BY <3>1, <3>2
    <2>6. Recording' = Recording \cup {s}
      BY <2>2, <2>4 DEF Recording
    <2>7. Seen' \subseteq Seen
      BY <1>2, <1>4, <2>6 DEF Seen
    <2>8. \A m, n \in DOMAIN runs' :
              m < n => runs'[m].session < runs'[n].session
      <3> SUFFICES ASSUME NEW m \in DOMAIN runs', NEW n \in DOMAIN runs', m < n
                   PROVE  runs'[m].session < runs'[n].session
        OBVIOUS
      <3>1. m # new
        BY <2>4
      <3>2. QED
        BY <2>2, <2>4, <2>5, <3>1 DEF InOrder
    <2>9. \A x \in Recording', y \in Names(wire') \cup Names(queue') : x <= y
      BY <1>2, <1>4, <2>6 DEF InOrder
    <2>10. \A x \in Names(queue'), y \in Names(wire') : x <= y
      BY <1>2, <1>4 DEF InOrder
    <2>11. QED
      BY <1>2, <1>4, <2>7, <2>8, <2>9, <2>10 DEF InOrder
  <1>7. QED
    BY <1>5, <1>6

\* Every other step leaves the events alone, and the sessions of the records.
LEMMA RestOrdered ==
    ASSUME Inv, InOrder, UNCHANGED <<wire, queue>>,
           DOMAIN runs' = DOMAIN runs,
           \A n \in DOMAIN runs : runs'[n].session = runs[n].session,
           entry'.run \in {0, entry.run},
           \A s \in Slots : sess'[s] = "none" => sess[s] = "none"
    PROVE  InOrder'
  BY OrderStays DEF InOrder, Rising, Names

LEMMA EntryRuns ==
    ASSUME Inv
    PROVE  /\ \A on \in BOOLEAN : SetsEntry(on) => entry'.run = entry.run
           /\ \A S : RemovesEntry(S) => entry'.run = 0
           /\ UNCHANGED entry => entry'.run = entry.run
  <1>1. entry \in Entry
    BY DEF Inv, Types
  <1>2. ASSUME NEW on \in BOOLEAN, SetsEntry(on) PROVE entry'.run = entry.run
    <2>1. entry' = [entry EXCEPT !.set = TRUE, !.on = on]
      BY <1>2 DEF SetsEntry
    <2>2. QED
      BY <1>1, <2>1 DEF Entry
  <1>3. ASSUME NEW S, RemovesEntry(S) PROVE entry'.run = 0
    BY <1>3 DEF RemovesEntry, NoEntry
  <1>4. QED
    BY <1>2, <1>3

\* The records keep their sessions.
LEMMA RecordsKeep ==
    ASSUME Inv, NEW n \in DOMAIN runs,
           \/ \E x : runs' = [runs EXCEPT ![n].retry = x]
           \/ \E x : runs' = [runs EXCEPT ![n].status = x]
    PROVE  /\ DOMAIN runs' = DOMAIN runs /\ Len(runs') = Len(runs)
           /\ \A m \in DOMAIN runs : runs'[m].session = runs[m].session
  <1>1. \A m \in DOMAIN runs : runs[m] \in Run
    BY DEF Inv, Types
  <1>2. \A m \in DOMAIN runs : \A x :
            /\ [runs[m] EXCEPT !.retry = x].session = runs[m].session
            /\ [runs[m] EXCEPT !.status = x].session = runs[m].session
    BY <1>1 DEF Run
  <1>3. runs \in Seq(Run)
    BY DEF Inv, Types
  <1>4. CASE \E x : runs' = [runs EXCEPT ![n].retry = x]
    <2>1. PICK x : runs' = [runs EXCEPT ![n].retry = x]
      BY <1>4
    <2>2. DOMAIN runs' = DOMAIN runs /\ Len(runs') = Len(runs)
      BY <1>3, <2>1
    <2>3. \A m \in DOMAIN runs :
              runs'[m] \in {runs[m], [runs[m] EXCEPT !.retry = x]}
      BY <1>3, <2>1
    <2>4. ASSUME NEW m \in DOMAIN runs
          PROVE  runs'[m].session = runs[m].session
      <3>1. [runs[m] EXCEPT !.retry = x].session = runs[m].session
        BY <1>2
      <3>2. QED
        BY <2>3, <3>1
    <2>5. QED
      BY <2>2, <2>4
  <1>5. CASE \E x : runs' = [runs EXCEPT ![n].status = x]
    <2>1. PICK x : runs' = [runs EXCEPT ![n].status = x]
      BY <1>5
    <2>2. DOMAIN runs' = DOMAIN runs /\ Len(runs') = Len(runs)
      BY <1>3, <2>1
    <2>3. \A m \in DOMAIN runs :
              runs'[m] \in {runs[m], [runs[m] EXCEPT !.status = x]}
      BY <1>3, <2>1
    <2>4. ASSUME NEW m \in DOMAIN runs
          PROVE  runs'[m].session = runs[m].session
      <3>1. [runs[m] EXCEPT !.status = x].session = runs[m].session
        BY <1>2
      <3>2. QED
        BY <2>3, <3>1
    <2>5. QED
      BY <2>2, <2>4
  <1>6. QED
    BY <1>4, <1>5

LEMMA ThreadOrdered ==
    ASSUME Inv, InOrder,
           \/ StartsRetry \/ MarksRetry \/ RetryEnds
           \/ \E t \in Threads : Conclusion(t)
    PROVE  InOrder'
  <1>1. UNCHANGED <<wire, queue>>
    BY DEF StartsRetry, MarksRetry, RetryEnds, Conclusion, Settles, Marks,
           Counts, WritesCount, Disables, Unschedules, linkVars, moduleVars
  <1>2. entry'.run \in {0, entry.run}
    BY EntryRuns
       DEF StartsRetry, MarksRetry, RetryEnds, Conclusion, Settles, Marks,
           Counts, WritesCount, Disables, Unschedules, daemonVars
  <1>3. \A s \in Slots : sess'[s] = "none" => sess[s] = "none"
    BY SessionNumbers
       DEF StartsRetry, MarksRetry, RetryEnds, Conclusion, Settles, Marks,
           Counts, WritesCount, Disables, Unschedules, daemonVars, Closed,
           Alive, Inv, Types
  <1>4. /\ DOMAIN runs' = DOMAIN runs
        /\ \A n \in DOMAIN runs : runs'[n].session = runs[n].session
    <2>1. CASE runs' = runs
      BY <2>1
    <2>2. CASE runs' # runs
      <3>1. PICK t \in Threads :
                \/ /\ runs' = [runs EXCEPT ![job[t].n].retry = job[t].retry]
                   /\ At(t, "mark retry")
                \/ /\ runs' = [runs EXCEPT ![job[t].n].status = job[t].result]
                   /\ At(t, "mark")
        BY <2>2
           DEF StartsRetry, MarksRetry, RetryEnds, Conclusion, Settles, Marks,
               Counts, WritesCount, Disables, Unschedules, storeVars, Threads
      <3>2. job[t].n \in DOMAIN runs
        BY <3>1 DEF Inv, Claims, At, AtRun
      <3>3. QED
        BY <3>1, <3>2, RecordsKeep
    <2>3. QED
      BY <2>1, <2>2
  <1>5. QED
    BY <1>1, <1>2, <1>3, <1>4, RestOrdered

LEMMA CallOrdered ==
    ASSUME Inv, InOrder,
           \/ SavesOn \/ Resets \/ Lists \/ Cancels \/ SavesOff \/ SavesFiles
           \/ SavesEntry \/ Resync \/ Reconciles \/ Registers \/ RemovesStale
           \/ OwnerCalls \/ RunNowRegisters
           \/ \E s \in Sessions : SessionEnds(s) \/ Reattached(s)
    PROVE  InOrder'
  <1>1. UNCHANGED <<wire, queue, runs>>
    BY DEF SavesOn, Resets, Lists, Cancels, SavesOff, SavesFiles, SavesEntry,
           Resync, Reconciles, Registers, RemovesStale, OwnerCalls, TurnOn,
           TurnOff, Suspend, RunNow, Save, RunNowRegisters, SessionEnds,
           Reattached, linkVars, storeVars, moduleVars
  <1>2. \/ UNCHANGED entry \/ (\E on \in BOOLEAN : SetsEntry(on))
        \/ \E S : RemovesEntry(S)
    BY DEF SavesOn, Resets, Lists, Cancels, SavesOff, SavesFiles, SavesEntry,
           Resync, Reconciles, Registers, RemovesStale, OwnerCalls, TurnOn,
           TurnOff, Suspend, RunNow, Save, RunNowRegisters, SessionEnds,
           Reattached, daemonVars
  <1>3. \A s \in Slots : sess'[s] = "none" => sess[s] = "none"
    BY SessionNumbers
       DEF SavesOn, Resets, Lists, Cancels, SavesOff, SavesFiles, SavesEntry,
           Resync, Reconciles, Registers, RemovesStale, OwnerCalls, TurnOn,
           TurnOff, Suspend, RunNow, Save, RunNowRegisters, SessionEnds,
           Reattached, daemonVars, Closed, Alive, Inv, Types
  <1>4. QED
    BY <1>1, <1>2, <1>3, EntryRuns, RestOrdered

LEMMA BeginOrdered == Init => InOrder
  <1> SUFFICES ASSUME Init PROVE InOrder
    OBVIOUS
  <1>1. /\ DOMAIN runs = {} /\ wire = <<>> /\ queue = <<>> /\ entry.run = 0
        /\ \A s \in Slots : 0 < s
    BY RoutinesAssumption DEF Init, Slots
  <1>2. Names(wire) = {} /\ Names(queue) = {} /\ Recording = {}
        /\ Rising(wire) /\ Rising(queue)
    BY <1>1 DEF Names, Recording, Rising
  <1>3. QED
    BY <1>1, <1>2 DEF InOrder, Seen

LEMMA StepOrdered == ASSUME Inv, InOrder, [Next]_vars PROVE InOrder'
  <1>1. CASE UNCHANGED vars
    BY <1>1, RestOrdered DEF vars, daemonVars, linkVars, storeVars, moduleVars
  <1>2. CASE WorkerStep \/ CallerStep
    BY <1>2, EventOrdered, ThreadOrdered, CallOrdered
       DEF WorkerStep, CallerStep, Threads
  <1>3. CASE Next /\ ~WorkerStep /\ ~CallerStep
    BY <1>3, DaemonOrdered, LinkOrdered, CallOrdered DEF Next
  <1>4. QED
    BY <1>1, <1>2, <1>3

LEMMA OrderInvariant == Spec => []InOrder
  <1>1. Inv /\ InOrder /\ [Next]_vars => InOrder'
    BY StepOrdered
  <1>2. QED
    BY Invariant, BeginOrdered, <1>1, PTL DEF Spec


-----------------------------------------------------------------------------
(* No run is forgotten.                                                    *)

\* The last word about session s is on its way, or will be sent.
Announced(s) == entry.run = s \/ s \in Ends(wire) \/ s \in Ends(queue)

\* The call is going to cancel run n, unless it ends before.
ToCancel(n) == At("caller", "list") \/ Awaits("cancel", n)

\* Newer runs pushed run n out of the records a reconcile looks at.
Buried(n) == n \notin Latest(SettleRuns)

AtIt(n) == \E t \in Threads : job[t].n = n /\ job[t].pc \in AtRun

\* Followed, but a thread counts only where it is going to conclude the run,
\* or buried once its session ended.
Hands(n) ==
    LET s == runs[n].session IN
    \/ Announced(s) \/ AtIt(n) \/ ToCancel(n)
    \/ ~Alive(s) /\ (~conn \/ due \/ Awaits("reconcile", n) \/ Buried(n))

\* A session has one record, every run under way is in somebody's hands, and
\* so is a session an event names, while it has no record.
Handed ==
    /\ \A m, n \in DOMAIN runs : runs[m].session = runs[n].session => m = n
    /\ \A n \in DOMAIN runs :
           Running(n) /\ runs[n].session \notin untold => Hands(n)
    /\ \A s \in Names(wire) \cup Names(queue) :
           s \notin untold /\ RunsOf(s) = {} => Announced(s)

\* A step that keeps whatever hands a run is in.
LEMMA HandsStay ==
    ASSUME Inv, Handed,
           DOMAIN runs' = DOMAIN runs, Len(runs') = Len(runs),
           untold \subseteq untold',
           \A n \in DOMAIN runs : /\ runs'[n].session = runs[n].session
                                  /\ Running(n)' => Running(n),
           \A s \in Names(wire') \cup Names(queue') :
               \/ Announced(s)'
               \/ /\ s \in Names(wire) \cup Names(queue)
                  /\ Announced(s) /\ s \notin untold' /\ RunsOf(s) = {}
                     => Announced(s)',
           \A n \in DOMAIN runs :
               /\ Running(n)' /\ runs[n].session \notin untold'
               /\ \/ Announced(runs[n].session) \/ AtIt(n)
                  \/ ToCancel(n)
                  \/ /\ ~Alive(runs[n].session)
                     /\ ~conn \/ due \/ Awaits("reconcile", n) \/ Buried(n)
               => Hands(n)'
    PROVE  Handed'
  <1>1. \A m, n \in DOMAIN runs' : runs'[m].session = runs'[n].session => m = n
    BY DEF Handed
  <1>2. \A n \in DOMAIN runs' :
            Running(n)' /\ runs'[n].session \notin untold' => Hands(n)'
    BY DEF Handed, Hands
  <1>3. \A s : RunsOf(s)' = RunsOf(s)
    BY DEF RunsOf
  <1>4. \A s \in Names(wire) \cup Names(queue) : s \in Slots
    <2>1. wire \in Seq(Event) /\ queue \in Seq(Event)
      BY DEF Inv, Types
    <2>2. /\ \A i \in DOMAIN wire : wire[i] \in Event
          /\ \A i \in DOMAIN queue : queue[i] \in Event
      BY <2>1
    <2>3. QED
      BY <2>2 DEF Names, Event
  <1>5. \A s \in Names(wire') \cup Names(queue') :
            s \notin untold' /\ RunsOf(s)' = {} => Announced(s)'
    BY <1>3, <1>4 DEF Handed
  <1>6. QED
    BY <1>1, <1>2, <1>5 DEF Handed

\* The same where no thread moves and no record changes.
LEMMA AroundStays ==
    ASSUME Inv, Handed, runs' = runs, job' = job, untold \subseteq untold',
           \A s \in Slots : Announced(s) /\ s \notin untold' =>
               \/ Announced(s)'
               \/ RunsOf(s) # {} /\ ~Alive(s)' /\ ~conn',
           \A s \in Slots : ~Alive(s) => ~Alive(s)' \/ Announced(s)',
           ~conn \/ due => ~conn' \/ due',
           \A s \in Names(wire') \cup Names(queue') :
               s \in Names(wire) \cup Names(queue) \/ Announced(s)'
    PROVE  Handed'
  <1>1. \A n \in DOMAIN runs : runs[n].session \in Slots
    BY SlotNumbers
  <1>2. \A n \in DOMAIN runs : Running(n)' => Running(n)
    BY DEF Running
  <1>3. \A n : AtIt(n) => AtIt(n)'
    BY DEF AtIt
  <1>4. \A n : /\ ToCancel(n) => ToCancel(n)'
               /\ Awaits("reconcile", n) => Awaits("reconcile", n)'
               /\ Buried(n) => Buried(n)'
    BY DEF ToCancel, Awaits, At, Buried, Latest, Newer
  <1>5. \A n \in DOMAIN runs :
            /\ Running(n)' /\ runs[n].session \notin untold'
            /\ \/ Announced(runs[n].session) \/ AtIt(n)
               \/ ToCancel(n)
               \/ /\ ~Alive(runs[n].session)
                  /\ ~conn \/ due \/ Awaits("reconcile", n) \/ Buried(n)
            => Hands(n)'
    <2> SUFFICES ASSUME NEW n \in DOMAIN runs,
                        runs[n].session \notin untold',
                        \/ Announced(runs[n].session) \/ AtIt(n)
                        \/ ToCancel(n)
                        \/ /\ ~Alive(runs[n].session)
                           /\ ~conn \/ due \/ Awaits("reconcile", n) \/ Buried(n)
                 PROVE  Hands(n)'
      OBVIOUS
    <2>1. PICK s \in Slots : s = runs[n].session /\ s = runs'[n].session
      BY <1>1
    <2>2. \/ Announced(s)' \/ AtIt(n)' \/ ToCancel(n)'
          \/ ~Alive(s)' /\ (~conn' \/ due' \/ Awaits("reconcile", n)' \/ Buried(n)')
      BY <1>3, <1>4, <2>1
    <2>3. QED
      BY <2>1, <2>2 DEF Hands, Announced, Alive
  <1>6. \A s \in Names(wire') \cup Names(queue') :
            \/ Announced(s)'
            \/ /\ s \in Names(wire) \cup Names(queue)
               /\ Announced(s) /\ s \notin untold' /\ RunsOf(s) = {}
                  => Announced(s)'
    <2> TAKE s \in Names(wire') \cup Names(queue')
    <2>1. CASE s \in Slots
      BY <2>1
    <2>2. CASE s \notin Slots
      <3>1. wire \in Seq(Event) /\ queue \in Seq(Event)
        BY DEF Inv, Types
      <3>2. /\ \A i \in DOMAIN wire : wire[i] \in Event
            /\ \A i \in DOMAIN queue : queue[i] \in Event
        BY <3>1
      <3>3. s \notin Names(wire) \cup Names(queue)
        BY <2>2, <3>2 DEF Names, Event
      <3>4. QED
        BY <3>3
    <2>3. QED
      BY <2>1, <2>2
  <1>7. QED
    BY <1>2, <1>5, <1>6, HandsStay

\* What is emitted is on its way to who is connected.
LEMMA EmitsParts ==
    ASSUME Inv, NEW s \in Slots,
           NEW kind \in {"fired", "ended", "restarted", "timeout"},
           Emits(kind, s)
    PROVE  /\ Ends(wire) \subseteq Ends(wire')
           /\ Names(wire') \subseteq Names(wire) \cup {s}
           /\ conn /\ kind # "fired" => s \in Ends(wire')
  <1> DEFINE e == [kind |-> kind, session |-> s]
  <1>1. e \in Event /\ e.session = s /\ (Final(e) <=> kind # "fired")
    BY DEF Event, Final
  <1>2. wire \in Seq(Event)
    BY DEF Inv, Types
  <1>3. wire' = IF conn THEN Append(wire, e) ELSE wire
    BY DEF Emits, Told
  <1> HIDE DEF e
  <1>4. QED
    BY <1>1, <1>2, <1>3, AppendParts

LEMMA LaunchesHanded ==
    ASSUME Inv, Handed, Launches,
           UNCHANGED <<conn, queue, runs, job, due, untold>>
    PROVE  Handed'
  <1>1. PICK s \in Slots :
            /\ sess' = [sess EXCEPT ![s] = "live"]
            /\ entry' = [entry EXCEPT !.run = s] /\ Emits("fired", s)
    BY DEF Launches, IsNext
  <1>2. entry'.run = s /\ entry.run = 0
    BY <1>1 DEF Launches, Inv, Types, Entry
  <1>3. /\ Ends(wire) \subseteq Ends(wire')
        /\ Names(wire') \subseteq Names(wire) \cup {s}
    BY <1>1, EmitsParts
  <1>4. \A x \in Slots : Announced(x) => Announced(x)'
    BY <1>2, <1>3, SlotNumbers DEF Announced
  <1>5. Announced(s)'
    BY <1>2 DEF Announced
  <1>6. \A x \in Slots : x # s => (Alive(x)' <=> Alive(x))
    BY <1>1 DEF Alive, Inv, Types
  <1>7. QED
    BY <1>3, <1>4, <1>5, <1>6, AroundStays

LEMMA RunSettlesHanded ==
    ASSUME Inv, Handed, NEW kind \in {"ended", "timeout"}, RunSettles(kind)
    PROVE  Handed'
  <1>0. PICK s \in Slots : s = entry.run
    BY SlotNumbers DEF RunSettles
  <1>1. UNCHANGED <<conn, queue, runs, job, due>>
    BY DEF RunSettles, storeVars, moduleVars
  <1>2. /\ Ends(wire) \subseteq Ends(wire')
        /\ Names(wire') \subseteq Names(wire) \cup {s}
        /\ conn => s \in Ends(wire')
    BY <1>0, EmitsParts DEF RunSettles
  <1>3. untold' = untold \cup (IF conn THEN {} ELSE Lost(s))
    BY <1>0 DEF RunSettles
  <1>4. \A x \in Slots : Alive(x)' <=> Alive(x)
    BY <1>0, SessionNumbers DEF RunSettles, Alive, Inv, Types
  <1>5. conn \/ s \in untold' \/ (RunsOf(s) # {} /\ ~Alive(s)' /\ ~conn')
    BY <1>1, <1>3, <1>4 DEF Lost
  <1>6. \A x \in Slots : Announced(x) /\ x # s => Announced(x)'
    BY <1>0, <1>1, <1>2 DEF Announced
  <1>7. conn => Announced(s)'
    BY <1>2 DEF Announced
  <1>8. \A x \in Names(wire') : x \in Names(wire) \/ Announced(x)'
                                \/ (x = s /\ ~conn)
    BY <1>2, <1>7
  <1>9. ~conn => wire' = wire
    BY DEF RunSettles, Emits
  <1>10. QED
    BY <1>1, <1>3, <1>4, <1>5, <1>6, <1>7, <1>8, <1>9, AroundStays

LEMMA FirstTickHanded == ASSUME Inv, Handed, FirstTick PROVE Handed'
  <1>1. UNCHANGED <<conn, queue, runs, job, due>>
    BY DEF FirstTick, storeVars, moduleVars
  <1>2. CASE entry.run = 0
    <2>1. UNCHANGED <<entry, sess, wire, untold>>
      BY <1>2 DEF FirstTick
    <2>2. \A s : Announced(s)' = Announced(s) /\ Alive(s)' = Alive(s)
      BY <1>1, <2>1 DEF Announced, Alive
    <2>3. QED
      BY <1>1, <2>1, <2>2, AroundStays
  <1>3. CASE entry.run # 0
    <2>1. PICK s \in Slots : s = entry.run
      BY <1>3, SlotNumbers
    <2>2. /\ sess' = (IF Alive(s) THEN [sess EXCEPT ![s] = "closing"] ELSE sess)
          /\ Emits("restarted", s)
          /\ untold' = untold \cup (IF conn THEN {} ELSE Lost(s))
      BY <1>3, <2>1 DEF FirstTick
    <2>3. /\ Ends(wire) \subseteq Ends(wire')
          /\ Names(wire') \subseteq Names(wire) \cup {s}
          /\ conn => s \in Ends(wire')
      BY <2>2, EmitsParts
    <2>4. \A x \in Slots : Alive(x)' <=> Alive(x)
      BY <2>2, SessionNumbers DEF Alive, Inv, Types
    <2>5. conn \/ s \in untold' \/ (RunsOf(s) # {} /\ ~Alive(s)' /\ ~conn')
      BY <1>1, <2>2, <2>4 DEF Lost
    <2>6. \A x \in Slots : Announced(x) /\ x # s => Announced(x)'
      BY <1>1, <2>1, <2>3 DEF Announced
    <2>7. conn => Announced(s)'
      BY <2>3 DEF Announced
    <2>8. ~conn => wire' = wire
      BY <2>2 DEF Emits
    <2>9. QED
      BY <1>1, <2>2, <2>3, <2>4, <2>5, <2>6, <2>7, <2>8, AroundStays
  <1>4. QED
    BY <1>2, <1>3

LEMMA SessionHanded ==
    ASSUME Inv, Handed, NEW s \in Sessions, SessionEnds(s) \/ Reattached(s)
    PROVE  Handed'
  <1>1. UNCHANGED <<entry, wire, queue, conn, runs, job, due, untold>>
    BY DEF SessionEnds, Reattached, linkVars, storeVars, moduleVars
  <1>2. \A x \in Slots : ~Alive(x) => ~Alive(x)'
    BY SessionNumbers DEF SessionEnds, Reattached, Alive, Inv, Types
  <1>3. \A x : Announced(x)' = Announced(x)
    BY <1>1 DEF Announced
  <1>4. QED
    BY <1>1, <1>2, <1>3, AroundStays

LEMMA RestartHanded == ASSUME Inv, Handed, Restart PROVE Handed'
  <1>1. /\ UNCHANGED <<entry, runs>> /\ wire' = <<>> /\ queue' = <<>>
        /\ conn' = FALSE
        /\ sess' = [s \in Sessions |->
                       IF Alive(s) THEN "detached" ELSE sess[s]]
        /\ untold' = untold \cup {s \in Sessions : Alive(s) /\ entry.run # s}
    BY DEF Restart, storeVars
  <1>2. Names(wire') = {} /\ Names(queue') = {}
    BY <1>1, NoParts
  <1>3. \A n \in DOMAIN runs : runs[n].session \in Sessions
    BY SlotNumbers, SessionNumbers
  <1>4. \A s \in Sessions : Alive(s)' <=> Alive(s)
    BY <1>1 DEF Alive, Inv, Types
  <1>5. ASSUME NEW n \in DOMAIN runs, runs[n].session \notin untold'
        PROVE  Hands(n)'
    <2>1. PICK s \in Sessions : s = runs[n].session /\ s = runs'[n].session
      BY <1>1, <1>3
    <2>2. entry'.run = s \/ (~Alive(s)' /\ ~conn')
      BY <1>1, <1>4, <1>5, <2>1
    <2>3. QED
      BY <2>1, <2>2 DEF Hands, Announced, Alive
  <1>6. \A n \in DOMAIN runs : Running(n)' => Running(n)
    BY <1>1 DEF Running
  <1>7. QED
    BY <1>1, <1>2, <1>5, <1>6, HandsStay

LEMMA DropHanded == ASSUME Inv, Handed, Drop PROVE Handed'
  <1>1. /\ UNCHANGED <<entry, sess, queue, runs, job, due>> /\ wire' = <<>>
        /\ conn' = FALSE
        /\ untold' = untold \cup
               UNION {Lost(wire[i].session) :
                          i \in {j \in DOMAIN wire : Final(wire[j])}}
    BY DEF Drop, daemonVars, storeVars, moduleVars
  <1>2. \A s : Alive(s)' <=> Alive(s)
    BY <1>1 DEF Alive
  <1>3. \A s \in Ends(wire) : Lost(s) \subseteq untold'
    BY <1>1 DEF Ends
  <1>4. \A s \in Slots : Announced(s) /\ s \notin untold' =>
            \/ Announced(s)'
            \/ RunsOf(s) # {} /\ ~Alive(s)' /\ ~conn'
    BY <1>1, <1>2, <1>3 DEF Announced, Lost
  <1>5. Names(wire') = {} /\ Names(queue') = Names(queue)
    BY <1>1, NoParts
  <1>6. QED
    BY <1>1, <1>2, <1>4, <1>5, AroundStays

LEMMA LagsHanded == ASSUME Inv, Handed, Lags PROVE Handed'
  <1>1. /\ UNCHANGED <<entry, sess, queue, conn, runs, job, due>>
        /\ wire # <<>> /\ wire' = Tail(wire) /\ wire \in Seq(Event)
        /\ untold' = untold \cup
               (IF Final(Head(wire)) THEN {Head(wire).session} ELSE {})
    BY DEF Lags, daemonVars, storeVars, moduleVars, Inv, Types
  <1>2. \A s : Alive(s)' <=> Alive(s)
    BY <1>1 DEF Alive
  <1>3. /\ Names(wire') \subseteq Names(wire)
        /\ \A s \in Ends(wire) : s \in Ends(wire') \/ s \in untold'
    BY <1>1, TailParts
  <1>4. \A s \in Slots : Announced(s) /\ s \notin untold' => Announced(s)'
    BY <1>1, <1>3 DEF Announced
  <1>5. QED
    BY <1>1, <1>2, <1>3, <1>4, AroundStays

LEMMA ConnectHanded == ASSUME Inv, Handed, Connect PROVE Handed'
  <1>1. /\ UNCHANGED <<entry, sess, wire, queue, runs, job, untold>>
        /\ due' = TRUE
    BY DEF Connect, daemonVars, storeVars
  <1>2. \A s : /\ Announced(s)' <=> Announced(s)
               /\ Alive(s)' <=> Alive(s)
    BY <1>1 DEF Announced, Alive
  <1>3. QED
    BY <1>1, <1>2, AroundStays

\* An event that ends a run is passed on, a slot that is skipped ends none.
LEMMA AcceptEventHanded == ASSUME Inv, Handed, AcceptEvent PROVE Handed'
  <1> DEFINE e == Head(wire)
  <1>1. /\ UNCHANGED <<entry, conn, runs, job, due, untold>>
        /\ wire # <<>> /\ wire' = Tail(wire)
        /\ wire \in Seq(Event) /\ queue \in Seq(Event)
    BY DEF AcceptEvent, storeVars, Inv, Types
  <1>2. e \in Event
    BY <1>1, HeadType
  <1>3. \/ ~Final(e) /\ queue' = queue
        \/ queue' = Append(queue, e)
    BY DEF AcceptEvent
  <1>4. /\ Names(wire') \subseteq Names(wire) /\ e.session \in Names(wire)
        /\ \A s \in Ends(wire) :
               s \in Ends(wire') \/ (Final(e) /\ s = e.session)
    BY <1>1, TailParts
  <1>5. /\ Names(queue') \subseteq Names(queue) \cup {e.session}
        /\ Ends(queue) \subseteq Ends(queue')
        /\ Final(e) => e.session \in Ends(queue')
    BY <1>1, <1>2, <1>3, AppendParts
  <1>6. \A s \in Slots : Announced(s) => Announced(s)'
    BY <1>1, <1>4, <1>5 DEF Announced
  <1>7. \A s \in Slots : Alive(s)' <=> Alive(s)
    BY SessionNumbers DEF AcceptEvent, Closed, Alive, Inv, Types
  <1>8. QED
    BY <1>1, <1>4, <1>5, <1>6, <1>7, AroundStays

-----------------------------------------------------------------------------
LEMMA OneMore ==
    ASSUME NEW rs \in Seq(Run), NEW r \in Run
    PROVE  /\ Len(Append(rs, r)) = Len(rs) + 1 /\ Len(rs) \in Nat
           /\ DOMAIN Append(rs, r) = DOMAIN rs \cup {Len(rs) + 1}
           /\ Append(rs, r)[Len(rs) + 1] = r
           /\ \A n \in DOMAIN rs : Append(rs, r)[n] = rs[n]
  OBVIOUS

\* A session has a record from its first event on, and keeps it.
LEMMA RecordParts ==
    ASSUME Inv, Handed, InOrder, queue # <<>>, NEW s \in Slots,
           s = Head(queue).session, runs' = WithRecord(s)
    PROVE  /\ DOMAIN runs \subseteq DOMAIN runs'
           /\ \A n \in DOMAIN runs : runs'[n] = runs[n]
           /\ \A n \in DOMAIN runs' : n \notin DOMAIN runs =>
                  RunsOf(s) = {} /\ runs'[n].session = s
           /\ \A m, n \in DOMAIN runs' :
                  runs'[m].session = runs'[n].session => m = n
           /\ RunsOf(s)' # {}
           /\ \A x : RunsOf(x)' = {} => RunsOf(x) = {}
           /\ \A n \in DOMAIN runs : Buried(n) => Buried(n)'
  <1>0. runs \in Seq(Run)
    BY DEF Inv, Types
  <1>1. CASE RunsOf(s) # {}
    <2>1. runs' = runs
      BY <1>1, EveryRecord
    <2>2. \A x : RunsOf(x)' = RunsOf(x)
      BY <2>1 DEF RunsOf
    <2>3. \A n : Buried(n)' = Buried(n)
      BY <2>1 DEF Buried, Latest, Newer
    <2>4. QED
      BY <1>1, <2>1, <2>2, <2>3 DEF Handed
  <1>2. CASE RunsOf(s) = {}
    <2> DEFINE r == [session |-> s, retry |-> 0, status |-> "running"]
    <2>1. runs' = Append(runs, r)
      BY <1>2, EveryRecord
    <2>2. r.session = s /\ r \in Run
      BY DEF Run
    <2> HIDE DEF r
    <2>3. PICK new : new = Len(runs) + 1
      OBVIOUS
    <2>4. /\ DOMAIN runs' = DOMAIN runs \cup {new} /\ runs'[new] = r
          /\ \A n \in DOMAIN runs : runs'[n] = runs[n]
      <3>1. PICK rs \in Seq(Run) : rs = Append(runs, r)
        BY <1>0, <2>2, AppendProperties
      <3>2. DOMAIN rs = DOMAIN runs \cup {new} /\ rs[new] = r
        BY <1>0, <2>2, <2>3, <3>1, OneMore
      <3>3. \A n \in DOMAIN runs : rs[n] = runs[n]
        BY <1>0, <2>2, <3>1, OneMore
      <3>4. QED
        BY <2>1, <3>1, <3>2, <3>3
    <2>5. \A n \in DOMAIN runs : Buried(n) => Buried(n)'
      <3>1. Len(runs') = Len(runs) + 1 /\ Len(runs) \in Nat
        BY <1>0, <2>1, <2>2, OneMore
      <3>2. \A n \in DOMAIN runs : n \in Nat
        BY <1>0
      <3>3. QED
        BY <3>1, <3>2, RoutinesAssumption DEF Buried, Latest, Newer
    <2>6. \A n \in DOMAIN runs : runs[n].session # s
      BY <1>2 DEF RunsOf
    <2>7. \A m, n \in DOMAIN runs' :
              runs'[m].session = runs'[n].session => m = n
      BY <2>4, <2>2, <2>6 DEF Handed
    <2>8. new \in RunsOf(s)'
      BY <2>4, <2>2 DEF RunsOf
    <2>9. \A x : RunsOf(x) \subseteq RunsOf(x)'
      BY <2>4 DEF RunsOf
    <2>10. QED
      BY <1>2, <2>4, <2>2, <2>7, <2>8, <2>9, <2>5
  <1>3. QED
    BY <1>1, <1>2

\* What an event that is taken leaves in the queue.
LEMMA TakenParts ==
    ASSUME Inv, queue # <<>>, queue' = Tail(queue), UNCHANGED <<entry, wire>>
    PROVE  /\ Names(queue') \subseteq Names(queue)
           /\ Head(queue).session \in Names(queue)
           /\ \A s : Announced(s) => \/ Announced(s)'
                                     \/ Final(Head(queue))
                                        /\ s = Head(queue).session
  <1>1. queue \in Seq(Event)
    BY DEF Inv, Types
  <1>2. QED
    BY <1>1, TailParts DEF Announced

LEMMA HandleFiredHanded ==
    ASSUME Inv, Handed, InOrder, HandleFired PROVE Handed'
  <1>1. PICK s \in Slots : s = Head(queue).session
    BY TakenEvent DEF HandleFired
  <1>2. /\ UNCHANGED <<entry, sess, wire, conn, job, due, untold>>
        /\ queue # <<>> /\ queue' = Tail(queue) /\ ~Final(Head(queue))
        /\ runs' = WithRecord(s)
    BY <1>1 DEF HandleFired, TakesEvent, Final, daemonVars, linkVars
  <1>3. /\ Names(queue') \subseteq Names(queue) /\ s \in Names(queue)
        /\ \A x : Announced(x) => Announced(x)'
    BY <1>1, <1>2, TakenParts
  <1>4. /\ \A n \in DOMAIN runs : runs'[n] = runs[n]
        /\ \A n \in DOMAIN runs' : n \notin DOMAIN runs =>
               RunsOf(s) = {} /\ runs'[n].session = s
        /\ \A m, n \in DOMAIN runs' :
               runs'[m].session = runs'[n].session => m = n
        /\ \A x : RunsOf(x)' = {} => RunsOf(x) = {}
        /\ \A n \in DOMAIN runs : Buried(n) => Buried(n)'
    BY <1>1, <1>2, RecordParts
  <1>5. ASSUME NEW n \in DOMAIN runs', Running(n)',
               runs'[n].session \notin untold'
        PROVE  Hands(n)'
    <2>1. PICK x : x = runs'[n].session
      OBVIOUS
    <2>2. CASE n \in DOMAIN runs
      <3>1. Hands(n) /\ x = runs[n].session
        BY <1>2, <1>4, <1>5, <2>1, <2>2 DEF Handed, Running
      <3>2. Announced(x) => Announced(x)'
        BY <1>3
      <3>3. QED
        BY <1>2, <1>4, <2>1, <2>2, <3>1, <3>2
           DEF Hands, Announced, AtIt, ToCancel, Awaits, At, Alive
    <2>3. CASE n \notin DOMAIN runs
      <3>1. RunsOf(s) = {} /\ x = s
        BY <1>4, <2>1, <2>3
      <3>2. Announced(s)
        BY <1>2, <1>3, <1>5, <2>1, <3>1 DEF Handed
      <3>3. Announced(s)'
        BY <1>3, <3>2
      <3>4. QED
        BY <2>1, <3>1, <3>3 DEF Hands, Announced
    <2>4. QED
      BY <2>2, <2>3
  <1>6. \A x \in Names(wire') \cup Names(queue') :
            x \notin untold' /\ RunsOf(x)' = {} => Announced(x)'
    BY <1>2, <1>3, <1>4 DEF Handed
  <1>7. QED
    BY <1>4, <1>5, <1>6 DEF Handed

\* The last word about a session is taken: its run is concluded, or the
\* worker is at it.
LEMMA EndHanded ==
    ASSUME Inv, Handed, InOrder, NEW s \in Slots, s = Head(queue).session,
           queue # <<>>, queue' = Tail(queue), runs' = WithRecord(s),
           UNCHANGED <<entry, wire, conn, due, untold>>,
           job["worker"].pc = "idle",
           \/ EndedRun(s) = {} /\ job' = job
           \/ \E j : /\ job' = [job EXCEPT !["worker"] = j]
                     /\ j.n \in EndedRun(s) /\ j.pc \in AtRun,
           \A x \in Slots : Alive(x)' <=> Alive(x)
    PROVE  Handed'
  <1>1. /\ Names(queue') \subseteq Names(queue)
        /\ \A x : x # s /\ Announced(x) => Announced(x)'
    BY TakenParts
  <1>2. /\ \A n \in DOMAIN runs : runs'[n] = runs[n]
        /\ \A n \in DOMAIN runs' : n \notin DOMAIN runs =>
               RunsOf(s) = {} /\ runs'[n].session = s
        /\ \A m, n \in DOMAIN runs' :
               runs'[m].session = runs'[n].session => m = n
        /\ RunsOf(s)' # {}
        /\ \A x : RunsOf(x)' = {} => RunsOf(x) = {}
        /\ \A n \in DOMAIN runs : Buried(n) => Buried(n)'
    BY RecordParts
  <1>3. job'["caller"] = job["caller"]
    BY TwoThreads
  <1>4. \A n : AtIt(n) => AtIt(n)'
    BY <1>3 DEF AtIt, AtRun, Threads
  <1>5. \A n : /\ ToCancel(n) => ToCancel(n)'
               /\ Awaits("reconcile", n) => Awaits("reconcile", n)'
    BY <1>3 DEF ToCancel, Awaits, At
  <1>6. ASSUME NEW n \in DOMAIN runs', Running(n)',
               runs'[n].session \notin untold'
        PROVE  Hands(n)'
    <2>1. PICK x : x = runs'[n].session
      OBVIOUS
    <2>2. CASE x = s
      <3>1. n \in EndedRun(s)
        BY <1>6, <2>1, <2>2, EveryRecord DEF Running
      <3>2. PICK j : /\ job' = [job EXCEPT !["worker"] = j]
                     /\ j.n \in EndedRun(s) /\ j.pc \in AtRun
        BY <3>1
      <3>3. j.n = n
        <4>1. \A m \in EndedRun(s) :
                  m \in DOMAIN runs' /\ runs'[m].session = s
          BY DEF EndedRun, Found, Newer
        <4>2. j.n \in DOMAIN runs' /\ runs'[j.n].session = runs'[n].session
          BY <3>1, <3>2, <4>1
        <4>3. QED
          BY <1>2, <4>2
      <3>4. job'["worker"].n = n /\ job'["worker"].pc \in AtRun
        BY <3>2, <3>3, TwoThreads
      <3>5. QED
        BY <3>4 DEF Hands, AtIt, Threads
    <2>3. CASE x # s
      <3>1. n \in DOMAIN runs
        BY <1>2, <2>1, <2>3
      <3>2. Hands(n) /\ x = runs[n].session /\ x \in Slots
        BY <1>2, <1>6, <2>1, <3>1, SlotNumbers DEF Handed, Running
      <3>3. Announced(x) => Announced(x)'
        BY <1>1, <2>3
      <3>4. Alive(x)' <=> Alive(x)
        BY <3>2
      <3>5. \/ Announced(x)' \/ AtIt(n)' \/ ToCancel(n)'
            \/ ~Alive(x)' /\ (~conn' \/ due' \/ Awaits("reconcile", n)' \/ Buried(n)')
        BY <1>2, <1>4, <1>5, <3>1, <3>2, <3>3, <3>4 DEF Hands
      <3>6. QED
        BY <2>1, <3>5 DEF Hands, Announced, Alive
    <2>4. QED
      BY <2>2, <2>3
  <1>7. \A x \in Names(wire') \cup Names(queue') :
            x \notin untold' /\ RunsOf(x)' = {} => Announced(x)'
    BY <1>1, <1>2 DEF Handed
  <1>8. QED
    BY <1>2, <1>6, <1>7 DEF Handed

LEMMA EventHanded ==
    ASSUME Inv, Handed, InOrder, HandleTimeout \/ HandleEnded \/ RetryOnce
    PROVE  Handed'
  <1>1. PICK s \in Slots : s = Head(queue).session
    BY TakenEvent DEF HandleTimeout, HandleEnded, RetryOnce
  <1>2. /\ queue # <<>> /\ queue' = Tail(queue) /\ job["worker"].pc = "idle"
        /\ UNCHANGED <<entry, sess, wire, conn, due, untold>>
        /\ runs' = WithRecord(s)
    BY <1>1 DEF HandleTimeout, HandleEnded, RetryOnce, TakesEvent, At,
                daemonVars, linkVars
  <1>3. \A x \in Slots : Alive(x)' <=> Alive(x)
    BY <1>2 DEF Alive
  <1>4. \A n \in EndedRun(s) : n \in Nat
    BY WithRecordType
  <1>5. job["worker"] \in Job /\ "worker" \in Threads
    BY TwoThreads DEF Threads
  <1>6. ASSUME NEW n \in EndedRun(s), NEW result \in {"done", "failed"},
               job' = [job EXCEPT !["worker"] = Concludes("worker", n, result)]
        PROVE  \E j : /\ job' = [job EXCEPT !["worker"] = j]
                      /\ j.n \in EndedRun(s) /\ j.pc \in AtRun
    <2>1. PICK j : j = Concludes("worker", n, result)
      OBVIOUS
    <2>2. j.n = n /\ j.pc = "claim"
      BY <1>4, <1>5, <2>1, ConcludesType
    <2>3. QED
      BY <1>6, <2>1, <2>2 DEF AtRun
  <1>7. \/ EndedRun(s) = {} /\ job' = job
        \/ \E j : /\ job' = [job EXCEPT !["worker"] = j]
                  /\ j.n \in EndedRun(s) /\ j.pc \in AtRun
    <2>1. CASE HandleTimeout
      <3>1. \/ EndedRun(s) = {} /\ job' = job
            \/ \E n \in EndedRun(s) :
                   job' = [job EXCEPT !["worker"] =
                               Concludes("worker", n, "failed")]
        BY <1>1, <2>1 DEF HandleTimeout
      <3>2. QED
        BY <1>6, <3>1
    <2>2. CASE HandleEnded
      <3>1. \/ EndedRun(s) = {} /\ job' = job
            \/ \E n \in EndedRun(s), result \in {"done", "failed"} :
                   job' = [job EXCEPT !["worker"] =
                               Concludes("worker", n, result)]
        BY <1>1, <2>2 DEF HandleEnded
      <3>2. QED
        BY <1>6, <3>1
    <2>3. CASE RetryOnce
      <3>1. PICK n \in EndedRun(s) :
                job' = [job EXCEPT !["worker"] =
                           [@ EXCEPT !.pc = "start retry", !.n = n]]
        BY <1>1, <2>3 DEF RetryOnce
      <3>2. PICK j : j = [job["worker"] EXCEPT !.pc = "start retry", !.n = n]
        OBVIOUS
      <3>3. job' = [job EXCEPT !["worker"] = j]
        BY <1>5, <3>1, <3>2 DEF Inv, Types
      <3>4. j.n = n /\ j.pc \in AtRun
        BY <1>5, <3>2 DEF AtRun, Job
      <3>5. QED
        BY <3>3, <3>4
    <2>4. QED
      BY <2>1, <2>2, <2>3
  <1>8. QED
    BY <1>1, <1>2, <1>3, <1>7, EndHanded

-----------------------------------------------------------------------------
\* The records and the events stay as they are, but for runs that end.
Still ==
    /\ DOMAIN runs' = DOMAIN runs /\ Len(runs') = Len(runs)
    /\ \A n \in DOMAIN runs : /\ runs'[n].session = runs[n].session
                              /\ Running(n)' => Running(n)
    /\ UNCHANGED <<wire, queue, conn>> /\ untold \subseteq untold'
    /\ \A s \in Slots : Alive(s)' <=> Alive(s)

\* The entry keeps the session it follows, or nobody hears of its end, or
\* all runs are going to be cancelled.
EntryKept ==
    entry.run \in Slots =>
        \/ entry'.run = entry.run \/ entry.run \in untold'
        \/ /\ RunsOf(entry.run) # {}
           /\ \A n \in DOMAIN runs : ToCancel(n)'

\* A thread moves: the runs it leaves are concluded or in other hands.
LEMMA ThreadStays ==
    ASSUME Inv, Handed, Still, EntryKept,
           due => \/ due'
                  \/ \A n \in DOMAIN runs : Awaits("reconcile", n)' \/ Buried(n)',
           \A n \in DOMAIN runs : Running(n)' /\ runs[n].session \notin untold' =>
               /\ AtIt(n) => AtIt(n)'
               /\ ToCancel(n) => ToCancel(n)' \/ AtIt(n)'
               /\ ~Alive(runs[n].session) /\ Awaits("reconcile", n) =>
                      \/ Awaits("reconcile", n)' \/ ToCancel(n)'
                      \/ AtIt(n)'
    PROVE  Handed'
  <1>1. ASSUME NEW s \in Slots, Announced(s), s \notin untold'
        PROVE  \/ Announced(s)'
               \/ /\ RunsOf(s) # {}
                  /\ \A n \in DOMAIN runs : ToCancel(n)'
    BY <1>1 DEF Announced, Still, EntryKept
  <1>0. \A n : Buried(n) => Buried(n)'
    BY DEF Still, Buried, Latest, Newer
  <1>2. ASSUME NEW n \in DOMAIN runs, Running(n)',
               runs[n].session \notin untold',
               \/ Announced(runs[n].session) \/ AtIt(n)
               \/ ToCancel(n)
               \/ /\ ~Alive(runs[n].session)
                  /\ ~conn \/ due \/ Awaits("reconcile", n) \/ Buried(n)
        PROVE  Hands(n)'
    <2>1. PICK s \in Slots : s = runs[n].session /\ s = runs'[n].session
      BY SlotNumbers DEF Still
    <2>2. \/ Announced(s)' \/ AtIt(n)' \/ ToCancel(n)'
          \/ ~Alive(s)' /\ (~conn' \/ due' \/ Awaits("reconcile", n)' \/ Buried(n)')
      BY <1>0, <1>1, <1>2, <2>1 DEF Still
    <2>3. QED
      BY <2>1, <2>2 DEF Hands, Announced, Alive
  <1>3. \A s \in Names(wire') \cup Names(queue') :
            \/ Announced(s)'
            \/ /\ s \in Names(wire) \cup Names(queue)
               /\ Announced(s) /\ s \notin untold' /\ RunsOf(s) = {}
                  => Announced(s)'
    <2> SUFFICES ASSUME NEW s \in Names(wire) \cup Names(queue),
                        Announced(s), s \notin untold', RunsOf(s) = {}
                 PROVE  Announced(s)'
      BY DEF Still
    <2>1. wire \in Seq(Event) /\ queue \in Seq(Event)
      BY DEF Inv, Types
    <2>2. /\ \A i \in DOMAIN wire : wire[i] \in Event
          /\ \A i \in DOMAIN queue : queue[i] \in Event
      BY <2>1
    <2>3. s \in Slots
      BY <2>2 DEF Names, Event
    <2>4. QED
      BY <1>1, <2>3
  <1>4. QED
    BY <1>2, <1>3, HandsStay DEF Still

\* The worker moves: from a run only when the caller is at it, or it ended.
LEMMA WorkerStays ==
    ASSUME Inv, Handed, Still, EntryKept, due' = due,
           NEW j, job' = [job EXCEPT !["worker"] = j],
           \A n \in DOMAIN runs :
               /\ Running(n)' /\ job["worker"].n = n
               /\ job["worker"].pc \in AtRun
               => \/ j.n = n /\ j.pc \in AtRun
                  \/ job["caller"].n = n /\ job["caller"].pc \in AtRun
    PROVE  Handed'
  <1>1. job'["caller"] = job["caller"] /\ job'["worker"] = j
    BY TwoThreads
  <1>2. \A n \in DOMAIN runs : Running(n)' /\ AtIt(n) => AtIt(n)'
    BY <1>1 DEF AtIt, Threads
  <1>3. \A n : /\ ToCancel(n) => ToCancel(n)'
               /\ Awaits("reconcile", n) => Awaits("reconcile", n)'
    BY <1>1 DEF ToCancel, Awaits, At
  <1>4. QED
    BY <1>2, <1>3, ThreadStays

\* The caller moves, in the same way, and looks at the runs of its loop.
LEMMA CallerStays ==
    ASSUME Inv, Handed, Still, EntryKept,
           due => \/ due'
                  \/ \A n \in DOMAIN runs : Awaits("reconcile", n)' \/ Buried(n)',
           job'["worker"] = job["worker"],
           \A n \in DOMAIN runs : Running(n)' /\ runs[n].session \notin untold' =>
               /\ job["caller"].n = n /\ job["caller"].pc \in AtRun
                  => \/ job'["caller"].n = n /\ job'["caller"].pc \in AtRun
                     \/ job["worker"].n = n /\ job["worker"].pc \in AtRun
               /\ ToCancel(n) => ToCancel(n)' \/ AtIt(n)'
               /\ ~Alive(runs[n].session) /\ Awaits("reconcile", n) =>
                      \/ Awaits("reconcile", n)' \/ ToCancel(n)'
                      \/ AtIt(n)'
    PROVE  Handed'
  <1>1. \A n \in DOMAIN runs :
            Running(n)' /\ runs[n].session \notin untold' /\ AtIt(n) => AtIt(n)'
    BY DEF AtIt, Threads
  <1>2. QED
    BY <1>1, ThreadStays

LEMMA StillSame ==
    ASSUME Inv, UNCHANGED <<runs, wire, queue, conn>>,
           untold \subseteq untold',
           sess' = sess \/ \E S : sess' = Closed(S)
    PROVE  Still
  <1>1. \A s \in Slots : Alive(s)' <=> Alive(s)
    BY SessionNumbers DEF Alive, Closed, Inv, Types
  <1>2. QED
    BY <1>1 DEF Still, Running

LEMMA EntryKeeps ==
    ASSUME Inv
    PROVE  /\ entry'.run = entry.run => EntryKept
           /\ \A on \in BOOLEAN : SetsEntry(on) =>
                  EntryKept /\ untold \subseteq untold'
           /\ RemovesEntry({}) => EntryKept /\ untold \subseteq untold'
  <1>1. entry \in Entry
    BY DEF Inv, Types
  <1>2. ASSUME NEW on \in BOOLEAN, SetsEntry(on)
        PROVE  entry'.run = entry.run /\ untold' = untold
    <2>1. entry' = [entry EXCEPT !.set = TRUE, !.on = on] /\ untold' = untold
      BY <1>2 DEF SetsEntry
    <2>2. QED
      BY <1>1, <2>1 DEF Entry
  <1>3. ASSUME RemovesEntry({})
        PROVE  untold \subseteq untold' /\ (entry.run # 0 => entry.run \in untold')
    BY <1>3 DEF RemovesEntry
  <1>4. QED
    BY <1>2, <1>3, SlotNumbers DEF EntryKept

LEMMA RetryHanded ==
    ASSUME Inv, Handed, StartsRetry \/ MarksRetry \/ RetryEnds PROVE Handed'
  <1>1. job["worker"] \in Job /\ "worker" \in Threads
    BY TwoThreads DEF Threads
  <1>2. CASE MarksRetry
    <2> DEFINE n == job["worker"].n
    <2>1. /\ UNCHANGED <<entry, sess, wire, queue, conn, untold, due>>
          /\ runs' = [runs EXCEPT ![n].retry = job["worker"].retry]
          /\ Goes("worker", "await")
      BY <1>2 DEF MarksRetry, daemonVars, linkVars, moduleVars
    <2>2. DOMAIN runs' = DOMAIN runs /\ Len(runs') = Len(runs)
      BY <2>1 DEF Inv, Types
    <2>3. \A m \in DOMAIN runs : /\ runs'[m].session = runs[m].session
                                 /\ runs'[m].status = runs[m].status
      <3> TAKE m \in DOMAIN runs
      <3>1. runs[m] \in Run
        BY DEF Inv, Types
      <3>2. [runs[m] EXCEPT !.retry = job["worker"].retry].session
                = runs[m].session
            /\ [runs[m] EXCEPT !.retry = job["worker"].retry].status
                = runs[m].status
        BY <3>1 DEF Run
      <3>3. runs'[m] = runs[m]
            \/ runs'[m] = [runs[m] EXCEPT !.retry = job["worker"].retry]
        BY <2>1
      <3>4. QED
        BY <3>2, <3>3
    <2>4. \A s \in Slots : Alive(s)' <=> Alive(s)
      BY <2>1 DEF Alive
    <2>5. Still
      BY <2>1, <2>2, <2>3, <2>4 DEF Still, Running
    <2>6. PICK j \in Job : /\ job' = [job EXCEPT !["worker"] = j]
                           /\ j.pc = "await" /\ j.n = n
      <3>1. "await" \in Pc
        BY DEF Pc
      <3>2. QED
        BY <1>1, <2>1, <3>1, GoesJob
    <2>7. EntryKept
      BY <2>1, EntryKeeps
    <2>8. QED
      BY <2>1, <2>5, <2>6, <2>7, WorkerStays DEF AtRun
  <1>3. CASE RetryEnds
    <2>1. UNCHANGED <<entry, wire, queue, conn, untold, due, runs>>
      BY <1>3 DEF RetryEnds, linkVars, storeVars
    <2>2. sess' = sess \/ \E S : sess' = Closed(S)
      BY <1>3 DEF RetryEnds
    <2>3. Still /\ EntryKept
      BY <2>1, <2>2, StillSame, EntryKeeps
    <2>4. PICK result \in {"done", "failed"} :
              job' = [job EXCEPT !["worker"] =
                          Concludes("worker", job["worker"].n, result)]
      BY <1>1, <1>3 DEF RetryEnds, Inv, Types
    <2>5. PICK j : j = Concludes("worker", job["worker"].n, result)
      OBVIOUS
    <2>6. job["worker"].n \in Nat
      BY <1>1 DEF Job
    <2>7. j.n = job["worker"].n /\ j.pc = "claim"
      BY <1>1, <2>5, <2>6, ConcludesType
    <2>8. QED
      BY <2>1, <2>3, <2>4, <2>5, <2>7, WorkerStays DEF AtRun
  <1>4. CASE StartsRetry
    <2> DEFINE W == job["worker"]
    <2>1. UNCHANGED <<entry, wire, queue, conn, untold, due, runs>>
      BY <1>4 DEF StartsRetry, linkVars, storeVars, moduleVars
    <2>2. \A s \in Slots : Alive(s)' <=> Alive(s)
      BY <1>4, SessionNumbers DEF StartsRetry, IsNext, Alive, Inv, Types
    <2>3. Still /\ EntryKept
      BY <2>1, <2>2, EntryKeeps DEF Still, Running
    <2>4. W.pc \in AtRun /\ W.n \in Nat
      BY <1>1, <1>4 DEF StartsRetry, At, AtRun, Job
    <2>5. \E j : /\ job' = [job EXCEPT !["worker"] = j]
                /\ j.n = W.n /\ j.pc \in AtRun
      <3>1. CASE \E r \in Sessions :
                    job' = [job EXCEPT !["worker"] =
                               [@ EXCEPT !.pc = "mark retry", !.retry = r]]
        <4>1. PICK r \in Sessions :
                  job' = [job EXCEPT !["worker"] =
                             [@ EXCEPT !.pc = "mark retry", !.retry = r]]
          BY <3>1
        <4>2. PICK j : j = [W EXCEPT !.pc = "mark retry", !.retry = r]
          OBVIOUS
        <4>3. job' = [job EXCEPT !["worker"] = j]
          BY <1>1, <4>1, <4>2 DEF Inv, Types
        <4>4. j.n = W.n /\ j.pc \in AtRun
          BY <1>1, <4>2 DEF AtRun, Job
        <4>5. QED
          BY <4>3, <4>4
      <3>2. CASE job' = [job EXCEPT !["worker"] =
                             Concludes("worker", @.n, "failed")]
        <4>1. PICK j : j = Concludes("worker", W.n, "failed")
          OBVIOUS
        <4>2. job' = [job EXCEPT !["worker"] = j]
          BY <1>1, <3>2, <4>1 DEF Inv, Types
        <4>3. j.n = W.n /\ j.pc = "claim"
          BY <1>1, <2>4, <4>1, ConcludesType
        <4>4. QED
          BY <4>2, <4>3 DEF AtRun
      <3>3. QED
        BY <1>4, <3>1, <3>2 DEF StartsRetry
    <2>6. QED
      BY <2>1, <2>3, <2>5, WorkerStays
  <1>5. QED
    BY <1>2, <1>3, <1>4

\* Who does not claim its run leaves it to the other thread, or ended.
LEMMA NotClaimed ==
    ASSUME Inv, NEW t \in Threads, At(t, "claim"), ~MayClaim(job[t].n),
           Running(job[t].n)
    PROVE  \E u \in Threads : u # t /\ At(u, "mark") /\ job[u].n = job[t].n
  <1>1. job[t].n \in claimed
    BY DEF MayClaim
  <1>2. PICK u \in Threads : At(u, "mark") /\ job[u].n = job[t].n
    BY <1>1 DEF Inv, Claims
  <1>3. u # t
    BY <1>2 DEF At
  <1>4. QED
    BY <1>2, <1>3

\* What a conclusion writes: the run of the thread ends at its mark.
LEMMA ConclusionStill ==
    ASSUME Inv, NEW t \in Threads, Conclusion(t)
    PROVE  /\ Still /\ EntryKept /\ due' = due
           /\ \A n \in DOMAIN runs :
                  At(t, "mark") /\ job[t].n = n => ~Running(n)'
  <1>1. CASE Marks(t)
    <2> DEFINE n == job[t].n
    <2>1. /\ UNCHANGED <<entry, sess, wire, queue, conn, untold, due>>
          /\ runs' = [runs EXCEPT ![n].status = job[t].result]
          /\ At(t, "mark")
      BY <1>1 DEF Marks, daemonVars, linkVars
    <2>2. n \in DOMAIN runs /\ Running(n) /\ job[t] \in Job
      BY <2>1 DEF Inv, Types, Claims, At, AtRun
    <2>3. DOMAIN runs' = DOMAIN runs /\ Len(runs') = Len(runs)
      BY <2>1 DEF Inv, Types
    <2>4. runs[n] \in Run
      BY <2>2 DEF Inv, Types
    <2>5. /\ runs'[n] = [runs[n] EXCEPT !.status = job[t].result]
          /\ \A m \in DOMAIN runs : m # n => runs'[m] = runs[m]
      BY <2>1, <2>2
    <2>6. runs'[n].session = runs[n].session
          /\ runs'[n].status = job[t].result
      BY <2>4, <2>5 DEF Run
    <2>7. job[t].result # "running"
      BY <2>2 DEF Job
    <2>8. \A s \in Slots : Alive(s)' <=> Alive(s)
      BY <2>1 DEF Alive
    <2>9. \A m \in DOMAIN runs : /\ runs'[m].session = runs[m].session
                                 /\ Running(m)' => Running(m)
      BY <2>2, <2>5, <2>6 DEF Running
    <2>10. Still /\ EntryKept
      BY <2>1, <2>3, <2>8, <2>9, EntryKeeps DEF Still
    <2>11. \A m \in DOMAIN runs : job[t].n = m => ~Running(m)'
      BY <2>6, <2>7 DEF Running
    <2>12. QED
      BY <2>1, <2>10, <2>11
  <1>2. CASE Settles(t) \/ Counts(t) \/ WritesCount(t) \/ Disables(t)
    <2>1. /\ UNCHANGED <<entry, sess, wire, queue, conn, untold, due, runs>>
          /\ ~At(t, "mark")
      BY <1>2 DEF Settles, Counts, WritesCount, Disables, At, daemonVars,
                  linkVars, storeVars, moduleVars
    <2>2. QED
      BY <2>1, StillSame, EntryKeeps
  <1>3. CASE Unschedules(t)
    <2>1. /\ UNCHANGED <<sess, wire, queue, conn, due, runs>>
          /\ ~At(t, "mark")
          /\ RemovesEntry({}) \/ UNCHANGED <<entry, untold>>
      BY <1>3 DEF Unschedules, At, linkVars, storeVars
    <2>2. EntryKept /\ untold \subseteq untold'
      BY <2>1, EntryKeeps
    <2>3. QED
      BY <2>1, <2>2, StillSame
  <1>4. QED
    BY <1>1, <1>2, <1>3 DEF Conclusion

LEMMA WorkerConclusionHanded ==
    ASSUME Inv, Handed, Conclusion("worker") PROVE Handed'
  <1> DEFINE W == job["worker"]
  <1>1. "worker" \in Threads /\ W \in Job
    BY TwoThreads DEF Threads
  <1>2. /\ Still /\ EntryKept /\ due' = due
        /\ \A n \in DOMAIN runs :
               At("worker", "mark") /\ W.n = n => ~Running(n)'
    BY <1>1, ConclusionStill
  <1>3. CASE Settles("worker") /\ MayClaim(W.n)
    <2>1. Goes("worker", "mark") /\ "mark" \in Pc
      BY <1>3 DEF Settles, Pc
    <2>2. PICK j \in Job : /\ job' = [job EXCEPT !["worker"] = j]
                           /\ j.pc = "mark" /\ j.n = W.n
      BY <1>1, <2>1, GoesJob
    <2>3. QED
      BY <1>2, <2>2, WorkerStays DEF AtRun
  <1>4. CASE Settles("worker") /\ ~MayClaim(W.n)
    <2>1. Done("worker") /\ At("worker", "claim") /\ runs' = runs
      BY <1>4 DEF Settles
    <2>2. PICK j : job' = [job EXCEPT !["worker"] = j]
      BY <1>1, <2>1, DoneJob
    <2>3. \A n \in DOMAIN runs : Running(n)' /\ W.n = n =>
              job["caller"].n = n /\ job["caller"].pc \in AtRun
      <3> SUFFICES ASSUME NEW n \in DOMAIN runs, Running(n), W.n = n
                   PROVE  job["caller"].n = n /\ job["caller"].pc \in AtRun
        BY <2>1 DEF Running
      <3>1. PICK u \in Threads : /\ u # "worker" /\ At(u, "mark")
                                 /\ job[u].n = W.n
        BY <1>1, <1>4, <2>1, NotClaimed
      <3>2. QED
        BY <3>1 DEF Threads, At, AtRun
    <2>4. QED
      BY <1>2, <2>2, <2>3, WorkerStays
  <1>5. CASE ~Settles("worker")
    <2>1. W.pc \in AtRun => W.pc = "mark"
      BY <1>5 DEF Conclusion, Marks, Counts, WritesCount, Disables,
                  Unschedules, At, AtRun
    <2>2. \E pc \in Pc : Goes("worker", pc)
          \/ Done("worker") \/ Counts("worker")
      BY <1>5 DEF Conclusion, Marks, WritesCount, Disables, Unschedules, Pc
    <2>3. \E j : job' = [job EXCEPT !["worker"] = j]
      BY <1>1, <2>2, GoesJob, DoneJob DEF Counts, Inv, Types
    <2>4. QED
      BY <1>2, <2>1, <2>3, WorkerStays DEF At
  <1>6. QED
    BY <1>3, <1>4, <1>5

\* Where the caller is when its conclusion goes on or is over.
LEMMA CallerConcludes ==
    ASSUME Inv, Conclusion("caller")
    PROVE  /\ job'["worker"] = job["worker"]
           /\ job'["caller"].n = job["caller"].n
           /\ job'["caller"].left = job["caller"].left
           /\ job'["caller"].back = job["caller"].back
           /\ job["caller"].pc \in Concluding
           /\ \/ job'["caller"].pc \in Concluding
              \/ job'["caller"].pc = job["caller"].back
  <1>1. CASE Counts("caller")
    <2> DEFINE C == job["caller"]
               fails == IF C.result = "failed" THEN failures + 1 ELSE 0
               j == [C EXCEPT !.pc = "write", !.fails = fails]
    <2>1. C \in Job /\ C.pc = "count"
      BY <1>1, TwoThreads DEF Counts, At
    <2>2. job' = [job EXCEPT !["caller"] = j]
      BY <1>1 DEF Counts, Inv, Types, Threads
    <2>3. j.pc = "write" /\ j.left = C.left /\ j.back = C.back /\ j.n = C.n
      BY <2>1 DEF Job
    <2> HIDE DEF j
    <2>4. job'["caller"] = j /\ job'["worker"] = job["worker"]
      BY <2>2, TwoThreads
    <2>5. QED
      BY <2>1, <2>3, <2>4 DEF Concluding
  <1>2. CASE ~Counts("caller")
    <2>1. PICK pc : /\ Goes("caller", pc)
                    /\ pc \in Concluding \/ pc = job["caller"].back
      BY <1>2, CallerDone
         DEF Conclusion, Settles, Marks, WritesCount, Disables, Unschedules,
             Concluding
    <2>2. job["caller"].pc \in Concluding
      BY <1>2 DEF Conclusion, Settles, Marks, WritesCount, Disables,
                  Unschedules, Concluding, At
    <2>3. QED
      BY <2>1, <2>2, CallerGoes
  <1>3. QED
    BY <1>1, <1>2

LEMMA CallerConclusionHanded ==
    ASSUME Inv, Follows, Handed, Conclusion("caller") PROVE Handed'
  <1> DEFINE C == job["caller"]
             D == job'["caller"]
  <1>1. "caller" \in Threads /\ C \in Job
    BY TwoThreads DEF Threads
  <1>2. /\ Still /\ EntryKept /\ due' = due
        /\ \A n \in DOMAIN runs : At("caller", "mark") /\ C.n = n => ~Running(n)'
    BY <1>1, ConclusionStill
  <1>3. /\ job'["worker"] = job["worker"] /\ D.n = C.n /\ D.left = C.left
        /\ D.back = C.back /\ C.pc \in Concluding
        /\ D.pc \in Concluding \/ D.pc = C.back
    BY CallerConcludes
  <1>4. \A n : /\ ToCancel(n) => ToCancel(n)'
               /\ Awaits("reconcile", n) => Awaits("reconcile", n)'
    BY <1>3 DEF ToCancel, Awaits, At, Concluding
  <1>5. \A n \in DOMAIN runs : Running(n)' /\ C.n = n /\ C.pc \in AtRun =>
            \/ D.n = n /\ D.pc \in AtRun
            \/ job["worker"].n = n /\ job["worker"].pc \in AtRun
    <2> SUFFICES ASSUME NEW n \in DOMAIN runs, Running(n)', C.n = n,
                        C.pc \in AtRun
                 PROVE  \/ D.n = n /\ D.pc \in AtRun
                        \/ job["worker"].n = n /\ job["worker"].pc \in AtRun
      OBVIOUS
    <2>1. Settles("caller")
      BY <1>2 DEF Conclusion, Marks, Counts, WritesCount, Disables,
                  Unschedules, At, AtRun
    <2>2. CASE MayClaim(C.n)
      <3>1. Goes("caller", "mark")
        BY <2>1, <2>2 DEF Settles
      <3>2. QED
        BY <1>3, <3>1, CallerGoes DEF AtRun
    <2>3. CASE ~MayClaim(C.n)
      <3>1. Running(n) /\ At("caller", "claim")
        BY <2>1 DEF Settles, Running
      <3>2. PICK u \in Threads : /\ u # "caller" /\ At(u, "mark")
                                 /\ job[u].n = C.n
        BY <1>1, <2>3, <3>1, NotClaimed
      <3>3. QED
        BY <3>2 DEF Threads, At, AtRun
    <2>4. QED
      BY <2>2, <2>3
  <1>6. QED
    BY <1>2, <1>3, <1>4, <1>5, CallerStays

-----------------------------------------------------------------------------
\* Out of a conclusion and of a loop the caller has no run in its hands.
LEMMA FreeCaller ==
    ASSUME Inv, Follows, Handed, Still, EntryKept,
           due => \/ due'
                  \/ \A n \in DOMAIN runs : Awaits("reconcile", n)' \/ Buried(n)',
           job'["worker"] = job["worker"],
           job["caller"].pc \notin Concluding \cup Loops \cup {"list"}
    PROVE  Handed'
  <1>1. job["caller"].left = {} /\ job["caller"].pc \notin AtRun
    BY DEF Follows, Shape, Concluding, AtRun
  <1>2. \A n : ~ToCancel(n) /\ ~Awaits("reconcile", n)
    BY <1>1 DEF ToCancel, Awaits, At
  <1>3. QED
    BY <1>1, <1>2, CallerStays

LEMMA CallsHanded ==
    ASSUME Inv, Follows, Handed,
           \/ TurnOn \/ SavesOn \/ Resets \/ SavesOff \/ SavesFiles
           \/ SavesEntry \/ Registers \/ RemovesStale
           \/ \E changed \in BOOLEAN : Save(changed)
    PROVE  Handed'
  <1>1. /\ UNCHANGED <<sess, wire, queue, conn, due, runs>>
        /\ \/ SetsEntry(TRUE) \/ RemovesEntry({})
           \/ UNCHANGED <<entry, untold>>
    BY DEF TurnOn, SavesOn, Resets, SavesOff, SavesFiles, SavesEntry,
           Registers, RemovesStale, Save, daemonVars, linkVars, storeVars,
           moduleVars
  <1>2. EntryKept /\ untold \subseteq untold'
    BY <1>1, EntryKeeps
  <1>3. Still
    BY <1>1, <1>2, StillSame
  <1>4. job["caller"].pc \notin Concluding \cup Loops \cup {"list"}
    BY DEF TurnOn, SavesOn, Resets, SavesOff, SavesFiles, SavesEntry,
           Registers, RemovesStale, Save, Begins, At, Concluding, Loops
  <1>5. job' = job \/ (\E j : Calls(j)) \/ (\E pc : Goes("caller", pc))
    BY DEF TurnOn, SavesOn, Resets, SavesOff, SavesFiles, SavesEntry,
           Registers, RemovesStale, Save
  <1>6. job'["worker"] = job["worker"]
    BY <1>5, TwoThreads, CallerGoes DEF Calls
  <1>7. QED
    BY <1>1, <1>2, <1>3, <1>4, <1>6, FreeCaller

\* Turning the routine off or the module: what the entry ran is cancelled, or
\* nobody follows it.
LEMMA OffHanded ==
    ASSUME Inv, Follows, Handed, TurnOff \/ Suspend PROVE Handed'
  <1>1. /\ UNCHANGED <<sess, wire, queue, conn, due, runs>>
        /\ job["caller"].pc \notin Concluding \cup Loops \cup {"list"}
    BY DEF TurnOff, Suspend, Begins, At, linkVars, storeVars, moduleVars,
           Concluding, Loops
  <1>2. CASE UNCHANGED <<entry, untold, job>>
    <2>1. Still /\ EntryKept
      BY <1>1, <1>2, StillSame, EntryKeeps
    <2>2. QED
      BY <1>1, <1>2, <2>1, FreeCaller
  <1>3. CASE ~UNCHANGED <<entry, untold, job>>
    <2>1. PICK j : Calls(j) /\ j.pc = "list"
      <3>1. PICK j : /\ Calls(j)
                     /\ \/ j = [NoJob EXCEPT !.pc = "list", !.then = "save off"]
                        \/ j = [NoJob EXCEPT !.pc = "list"]
        BY <1>3 DEF TurnOff, Suspend
      <3>2. QED
        BY <3>1, NoJobFields DEF Job
    <2>2. RemovesEntry(Recorded) \/ UNCHANGED <<entry, untold>>
      BY DEF TurnOff, Suspend
    <2>3. untold \subseteq untold'
      BY <2>2 DEF RemovesEntry
    <2>4. job'["caller"] = j /\ job'["worker"] = job["worker"]
      BY <2>1, TwoThreads DEF Calls
    <2>5. \A n \in DOMAIN runs : ToCancel(n)'
      BY <2>1, <2>4 DEF ToCancel, At
    <2>6. \A s \in Recorded : RunsOf(s) # {}
      BY DEF Recorded, RunsOf
    <2>7. EntryKept
      BY <2>2, <2>5, <2>6, SlotNumbers DEF EntryKept, RemovesEntry
    <2>8. Still
      BY <1>1, <2>3, StillSame
    <2>9. QED
      BY <1>1, <2>4, <2>7, <2>8, FreeCaller
  <1>4. QED
    BY <1>2, <1>3

\* Of those that run, the call cancels the newest, and nobody follows the
\* others.
LEMMA ListsHanded == ASSUME Inv, Handed, Lists PROVE Handed'
  <1>1. /\ UNCHANGED <<entry, sess, wire, queue, conn, due, runs>>
        /\ At("caller", "list")
        /\ untold' = untold \cup
               {runs[n].session : n \in
                   {m \in DOMAIN runs \ Latest(CancelRuns) : Running(m)}}
    BY DEF Lists, daemonVars, linkVars, storeVars, moduleVars
  <1>2. Still /\ EntryKept
    BY <1>1, StillSame, EntryKeeps
  <1>3. PICK j : j = [job["caller"] EXCEPT !.pc = "cancel",
                                           !.left = Latest(CancelRuns)]
    OBVIOUS
  <1>4. j.pc = "cancel" /\ j.left = Latest(CancelRuns)
    BY <1>3, TwoThreads DEF Job
  <1>5. job'["caller"] = j /\ job'["worker"] = job["worker"]
    BY <1>3, TwoThreads DEF Lists, Calls
  <1>6. \A n \in DOMAIN runs :
            Running(n)' /\ runs[n].session \notin untold' => ToCancel(n)'
    <2> SUFFICES ASSUME NEW n \in DOMAIN runs, Running(n)',
                        runs[n].session \notin untold'
                 PROVE  ToCancel(n)'
      OBVIOUS
    <2>1. n \in Latest(CancelRuns)
      BY <1>1 DEF Running
    <2>2. QED
      BY <1>4, <1>5, <2>1 DEF ToCancel, Awaits, At
  <1>7. QED
    BY <1>1, <1>2, <1>5, <1>6, CallerStays DEF At, AtRun

\* The reconcile pass looks at the newest runs.
LEMMA ResyncHanded ==
    ASSUME Inv, Follows, Handed, Resync PROVE Handed'
  <1>1. /\ UNCHANGED <<entry, sess, wire, queue, conn, runs, untold>>
        /\ job["caller"].pc \notin Concluding \cup Loops \cup {"list"}
    BY DEF Resync, At, daemonVars, linkVars, storeVars, Concluding, Loops
  <1>2. PICK j : j = [NoJob EXCEPT !.pc = "reconcile",
                                   !.left = Latest(SettleRuns)]
    OBVIOUS
  <1>3. Calls(j) /\ j.pc = "reconcile" /\ j.left = Latest(SettleRuns)
    BY <1>2, NoJobFields DEF Resync, Job
  <1>4. job'["caller"] = j /\ job'["worker"] = job["worker"]
    BY <1>3, TwoThreads DEF Calls
  <1>5. \A n \in DOMAIN runs : Awaits("reconcile", n)' \/ Buried(n)'
    BY <1>1, <1>3, <1>4 DEF Awaits, At, Buried, Latest
  <1>6. Still /\ EntryKept
    BY <1>1, StillSame, EntryKeeps
  <1>7. QED
    BY <1>1, <1>4, <1>5, <1>6, FreeCaller

LEMMA CancelsHanded ==
    ASSUME Inv, Follows, Handed, Cancels PROVE Handed'
  <1> DEFINE C == job["caller"]
             todo == {m \in C.left : Running(m)}
             n == Newest(todo)
             left == {m \in todo : m < n}
  <1>1. /\ UNCHANGED <<entry, wire, queue, conn, due, runs, untold>>
        /\ C.pc = "cancel" /\ C.left \subseteq DOMAIN runs
        /\ sess' = sess \/ \E S : sess' = Closed(S)
    BY DEF Cancels, At, linkVars, storeVars, moduleVars, Inv, Claims, Threads
  <1>2. Still /\ EntryKept
    BY <1>1, StillSame, EntryKeeps
  <1>3. job'["worker"] = job["worker"]
    BY TwoThreads DEF Cancels, Calls
  <1>4. \A m \in DOMAIN runs : Running(m)' => Running(m)
    BY <1>1 DEF Running
  <1>5. \A m \in DOMAIN runs :
            Running(m) /\ (ToCancel(m) \/ Awaits("reconcile", m)) => m \in todo
    BY <1>1 DEF ToCancel, Awaits, At
  <1>6. CASE todo = {}
    BY <1>1, <1>2, <1>3, <1>4, <1>5, <1>6, CallerStays DEF AtRun
  <1>7. CASE todo # {}
    <2>1. todo \in SUBSET DOMAIN runs
      BY <1>1
    <2>2. n \in todo /\ \A m \in todo : m <= n
      BY <1>7, <2>1, NewestIn
    <2>3. PICK j : j = LoopsTo(n, "cancelled", left, "cancel")
      OBVIOUS
    <2>4. Calls(j)
      BY <1>7, <2>3 DEF Cancels, LoopsTo
    <2>5. left \in SUBSET DOMAIN runs /\ n \in DOMAIN runs /\ "cancel" \in Loops
      BY <2>1, <2>2 DEF Loops
    <2>6. \A m \in todo : m # n => m \in left
      <3> TAKE m \in todo
      <3>1. m \in Nat /\ n \in Nat /\ m <= n
        BY <2>1, <2>2, RunNumbers
      <3>2. QED
        BY <3>1
    <2> HIDE DEF n, left
    <2>7. j.n = n /\ j.pc = "claim" /\ j.left = left /\ j.back = "cancel"
      BY <2>3, <2>5, LoopJob
    <2>8. job'["caller"] = j
      BY <2>4, TwoThreads DEF Calls
    <2>9. \A m \in todo : ToCancel(m)' \/ AtIt(m)'
      <3> TAKE m \in todo
      <3>1. CASE m = n
        BY <2>7, <2>8, <3>1 DEF AtIt, AtRun, Threads
      <3>2. CASE m # n
        BY <2>7, <2>8, <2>6, <3>2 DEF ToCancel, Awaits, At
      <3>3. QED
        BY <3>1, <3>2
    <2>10. QED
      BY <1>1, <1>2, <1>3, <1>4, <1>5, <2>9, CallerStays DEF AtRun
  <1>8. QED
    BY <1>6, <1>7

LEMMA ReconcilesHanded ==
    ASSUME Inv, Follows, Handed, Reconciles PROVE Handed'
  <1> DEFINE C == job["caller"]
             todo == {m \in C.left :
                         Running(m) /\ ~SaysRunning(runs[m].session)}
             n == Newest(todo)
             left == {m \in todo : m < n}
  <1>1. /\ UNCHANGED <<entry, sess, wire, queue, conn, due, runs, untold>>
        /\ C.pc = "reconcile" /\ C.left \subseteq DOMAIN runs
        /\ C.back # "cancel"
    BY DEF Reconciles, At, daemonVars, linkVars, storeVars, Inv, Claims,
           Threads, Follows, Shape
  <1>2. Still /\ EntryKept
    BY <1>1, StillSame, EntryKeeps
  <1>3. job'["worker"] = job["worker"]
    <2>1. \E j : Calls(j)
      BY DEF Reconciles
    <2>2. QED
      BY <2>1, TwoThreads DEF Calls
  <1>4. \A m : ~ToCancel(m)
    BY <1>1 DEF ToCancel, Awaits, At
  <1>5. \A m \in DOMAIN runs :
            /\ Running(m)' /\ ~Alive(runs[m].session) /\ Awaits("reconcile", m)
            => m \in todo
    BY <1>1 DEF Awaits, Running, Alive, SaysRunning
  <1>6. CASE todo = {}
    BY <1>1, <1>2, <1>3, <1>4, <1>5, <1>6, CallerStays DEF AtRun
  <1>7. CASE todo # {}
    <2>1. todo \in SUBSET DOMAIN runs
      BY <1>1
    <2>2. n \in todo /\ \A m \in todo : m <= n
      BY <1>7, <2>1, NewestIn
    <2>3. PICK result \in {"done", "failed", "cancelled"} :
              Calls(LoopsTo(n, result, left, "reconcile"))
      BY <1>7 DEF Reconciles, LoopsTo
    <2>4. PICK j : j = LoopsTo(n, result, left, "reconcile")
      OBVIOUS
    <2>5. left \in SUBSET DOMAIN runs /\ n \in DOMAIN runs
          /\ "reconcile" \in Loops
      BY <2>1, <2>2 DEF Loops
    <2>6. \A m \in todo : m # n => m \in left
      <3> TAKE m \in todo
      <3>1. m \in Nat /\ n \in Nat /\ m <= n
        BY <2>1, <2>2, RunNumbers
      <3>2. QED
        BY <3>1
    <2>7. job'["caller"] = j
      BY <2>3, <2>4, TwoThreads DEF Calls
    <2> HIDE DEF n, left
    <2>8. j.n = n /\ j.pc = "claim" /\ j.left = left /\ j.back = "reconcile"
      BY <2>4, <2>5, LoopJob
    <2>9. \A m \in todo : Awaits("reconcile", m)' \/ AtIt(m)'
      <3> TAKE m \in todo
      <3>1. CASE m = n
        BY <2>7, <2>8, <3>1 DEF AtIt, AtRun, Threads
      <3>2. CASE m # n
        BY <2>6, <2>7, <2>8, <3>2 DEF Awaits, At
      <3>3. QED
        BY <3>1, <3>2
    <2>10. QED
      BY <1>1, <1>2, <1>3, <1>4, <1>5, <2>9, CallerStays DEF AtRun
  <1>8. QED
    BY <1>6, <1>7

LEMMA RunNowHanded ==
    ASSUME Inv, Handed, RunNow \/ RunNowRegisters \/ RunNowFires \/ SlotFires
    PROVE  Handed'
  <1>1. UNCHANGED <<queue, conn, due, runs, job>>
    BY DEF RunNow, RunNowRegisters, RunNowFires, SlotFires, linkVars,
           storeVars, moduleVars
  <1>2. CASE SlotFires \/ RunNowFires
    <2>1. CASE Launches /\ untold' = untold
      BY <1>1, <2>1, LaunchesHanded
    <2>2. CASE UNCHANGED <<entry, sess, wire, untold>>
      <3>1. \A s : Announced(s)' = Announced(s) /\ Alive(s)' = Alive(s)
        BY <1>1, <2>2 DEF Announced, Alive
      <3>2. QED
        BY <1>1, <2>2, <3>1, AroundStays
    <2>3. QED
      BY <1>2, <2>1, <2>2 DEF SlotFires, RunNowFires
  <1>3. CASE RunNow \/ RunNowRegisters
    <2>1. UNCHANGED <<sess, wire>> /\ untold' = untold
      BY <1>3 DEF RunNow, RunNowRegisters, daemonVars, linkVars, SetsEntry
    <2>2. entry'.run = entry.run
      BY <1>3 DEF RunNow, RunNowRegisters, daemonVars, SetsEntry, Inv, Types,
                  Entry
    <2>3. \A s : Announced(s)' = Announced(s) /\ Alive(s)' = Alive(s)
      BY <1>1, <2>1, <2>2 DEF Announced, Alive
    <2>4. QED
      BY <1>1, <2>1, <2>3, AroundStays
  <1>4. QED
    BY <1>2, <1>3

LEMMA BeginHanded == Init => Handed
  <1> SUFFICES ASSUME Init PROVE Handed
    OBVIOUS
  <1>1. runs = <<>> /\ wire = <<>> /\ queue = <<>>
    BY DEF Init
  <1>2. DOMAIN runs = {}
    BY <1>1
  <1>3. QED
    BY <1>1, <1>2, NoParts DEF Handed

LEMMA StepHanded ==
    ASSUME Inv, Follows, InOrder, Handed, Next PROVE Handed'
  <1>1. CASE WorkerStep
    BY <1>1, HandleFiredHanded, EventHanded, RetryHanded,
       WorkerConclusionHanded DEF WorkerStep
  <1>2. CASE CallerStep
    BY <1>2, CallsHanded, ListsHanded, CancelsHanded, ResyncHanded, ReconcilesHanded,
       CallerConclusionHanded DEF CallerStep
  <1>3. CASE OwnerCalls
    BY <1>3, CallsHanded, OffHanded, RunNowHanded DEF OwnerCalls
  <1>4. CASE ~WorkerStep /\ ~CallerStep /\ ~OwnerCalls
    <2>1. \/ SlotFires \/ FirstTick \/ Drop \/ Lags \/ Connect \/ AcceptEvent
          \/ \E kind \in {"ended", "timeout"} : RunSettles(kind)
          \/ \E s \in Sessions : SessionEnds(s) \/ Reattached(s)
          \/ Restart \/ RunNowRegisters \/ RunNowFires
      BY <1>4 DEF Next
    <2>2. QED
      BY <2>1, FirstTickHanded, DropHanded, LagsHanded, ConnectHanded,
         AcceptEventHanded, RunSettlesHanded, SessionHanded, RestartHanded,
         RunNowHanded
  <1>5. QED
    BY <1>1, <1>2, <1>3, <1>4

LEMMA HandedStutters == Inv /\ Handed /\ UNCHANGED vars => Handed'
  <1> SUFFICES ASSUME Inv, Handed, UNCHANGED vars PROVE Handed'
    OBVIOUS
  <1>1. UNCHANGED <<entry, sess, wire, queue, conn, due, runs, job, untold>>
    BY DEF vars, daemonVars, linkVars, storeVars, moduleVars
  <1>2. \A s : Announced(s)' = Announced(s) /\ Alive(s)' = Alive(s)
    BY <1>1 DEF Announced, Alive
  <1>3. QED
    BY <1>1, <1>2, AroundStays

LEMMA HandedFollowed == Inv /\ Handed => NoneForgotten
  <1> SUFFICES ASSUME Inv, Handed, NEW n \in DOMAIN runs, UnderWay(n),
                      Alive(runs[n].session) \/ n \in Latest(SettleRuns)
               PROVE  Followed(n)
    BY DEF NoneForgotten
  <1>1. Hands(n) /\ (~Alive(runs[n].session) => ~Buried(n))
    BY DEF Handed, UnderWay, Buried
  <1>2. ASSUME NEW q, runs[n].session \in Ends(q)
        PROVE  \E i \in DOMAIN q : Final(q[i]) /\ q[i].session = runs[n].session
    BY <1>2 DEF Ends
  <1>3. QED
    BY <1>1, <1>2 DEF Hands, Announced, AtIt, ToCancel, Followed, Buried

\* A run under way is in the hands of somebody who is going to conclude it:
\* the schedule, an event that is on its way, a thread, or the reconcile
\* pass, with restarts, lost connections, pauses and calls at any point, and
\* however few of the newest records each of them looks at; but for those
\* whose last word was lost, and those that ended unheard and were pushed
\* out of the records of the reconcile pass (service.rs:1441-1449,
\* 1765-1767).
THEOREM NoRunForgotten == Spec => []NoneForgotten
  <1>1. Init => Handed
    BY BeginHanded
  <1>2. Inv /\ Follows /\ InOrder /\ Handed /\ [Next]_vars => Handed'
    BY StepHanded, HandedStutters
  <1>3. Inv /\ Handed => NoneForgotten
    BY HandedFollowed
  <1>4. QED
    BY <1>1, <1>2, <1>3, EntryInvariant, OrderInvariant, PTL DEF Spec

=============================================================================
