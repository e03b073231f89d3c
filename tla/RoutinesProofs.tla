--------------------------- MODULE RoutinesProofs ---------------------------
(***************************************************************************)
(* Proofs about Routines, for any number of slots, retries, calls and      *)
(* faults: the state keeps its type, a run is claimed by the one thread    *)
(* that settles it, and so a run is concluded once.                        *)
(***************************************************************************)
EXTENDS Routines, NaturalsInduction, WellFoundedInduction, FiniteSetTheorems,
        SequenceTheorems, TLAPS

\* A thread at one of these steps is at a run.
AtRun == {"claim", "mark", "start retry", "mark retry", "await"}

\* What the threads have to do with the runs.
Claims ==
    /\ \A t \in Threads :
          /\ job[t].left \subseteq DOMAIN runs
          /\ job[t].pc \in AtRun => job[t].n \in DOMAIN runs
          /\ At(t, "mark") => job[t].n \in claimed /\ Running(job[t].n)
    /\ \A n \in claimed : \E t \in Threads : At(t, "mark") /\ job[t].n = n
    /\ At("worker", "mark") /\ At("caller", "mark")
          => job["worker"].n # job["caller"].n
    /\ retrying => ~At("worker", "idle")

Inv == Types /\ Claims

\* What ConcludedOnce says of a step.
Once ==
    /\ \A n \in DOMAIN runs : ~Running(n) => runs'[n].status = runs[n].status
    /\ \A s \in Sessions : proposal[s] # proposal'[s] =>
           \E n \in DOMAIN runs : s \in SessionsOf(n) /\ Running(n)

\* No run is concluded; runs may be added.
Kept ==
    /\ runs' \in Seq(Run) /\ DOMAIN runs \subseteq DOMAIN runs'
    /\ \A n \in DOMAIN runs : runs'[n].status = runs[n].status
    /\ proposal' = proposal /\ claimed' = claimed

\* Thread t goes to j, away from no conclusion and into none.
Move(t, j) ==
    /\ job' = [job EXCEPT ![t] = j] /\ j \in Job
    /\ ~At(t, "mark") /\ j.pc # "mark"
    /\ j.left \subseteq DOMAIN runs'
    /\ j.pc \in AtRun => j.n \in DOMAIN runs'
    /\ t = "worker" => (retrying' => j.pc # "idle")
    /\ t = "caller" => retrying' = retrying

LEMMA KeptOnly ==
    ASSUME Inv, Kept, job' = job, retrying' = retrying
    PROVE  Claims' /\ Once
  BY DEF Inv, Types, Claims, Kept, Once, At, Running

LEMMA KeptMove ==
    ASSUME Inv, Kept, NEW t \in Threads, NEW j, Move(t, j)
    PROVE  Claims' /\ Once /\ job' \in [Threads -> Job]
  <1>1. job' \in [Threads -> Job] /\ job'[t] = j
        /\ \A u \in Threads : u # t => job'[u] = job[u]
    BY DEF Inv, Types, Move
  <1>2. Once
    BY DEF Kept, Once
  <1>3. \A u \in Threads :
          /\ job'[u].left \subseteq DOMAIN runs'
          /\ job'[u].pc \in AtRun => job'[u].n \in DOMAIN runs'
          /\ job'[u].pc = "mark" => job[u].pc = "mark" /\ job'[u].n = job[u].n
          /\ job[u].pc = "mark" => job'[u] = job[u]
    BY <1>1 DEF Inv, Claims, Kept, Move, At
  <1>4. \A u \in Threads : job'[u].pc = "mark" =>
            job'[u].n \in claimed' /\ runs'[job'[u].n].status = "running"
    <2> SUFFICES ASSUME NEW u \in Threads, job'[u].pc = "mark"
                 PROVE  /\ job'[u].n \in claimed'
                        /\ runs'[job'[u].n].status = "running"
      OBVIOUS
    <2>1. job[u].pc = "mark" /\ job'[u].n = job[u].n
      BY <1>3
    <2>2. job[u].n \in DOMAIN runs /\ job[u].n \in claimed
          /\ runs[job[u].n].status = "running"
      BY <2>1 DEF Inv, Claims, At, Running, AtRun
    <2>3. QED
      BY <2>1, <2>2 DEF Kept
  <1>5. \A n \in claimed' :
            \E u \in Threads : job'[u].pc = "mark" /\ job'[u].n = n
    BY <1>3 DEF Inv, Claims, Kept, At
  <1>6. job'["worker"].pc = "mark" /\ job'["caller"].pc = "mark"
            => job'["worker"].n # job'["caller"].n
    BY <1>3 DEF Inv, Claims, At, Threads
  <1>7. retrying' => job'["worker"].pc # "idle"
    BY <1>1 DEF Inv, Claims, Move, At, Threads
  <1>8. QED
    BY <1>1, <1>2, <1>3, <1>4, <1>5, <1>6, <1>7 DEF Claims, At, Running

-----------------------------------------------------------------------------
(* What the parts of an action come to.                                    *)

LEMMA NoJobType ==
    NoJob \in Job /\ NoJob.pc = "idle" /\ NoJob.left = {} /\ NoJob.n = 0
  BY DEF NoJob, Job, Pc

\* Slots are no retries.
LEMMA SessionNumbers ==
    0 \notin Sessions /\ Slots \subseteq Sessions /\ Slots \cap Retries = {}
  <1>1. 0 \notin Sessions /\ Slots \subseteq Sessions
    BY RoutinesAssumption DEF Sessions, Slots, Retries
  <1>2. Slots \cap Retries = {}
    BY RoutinesAssumption, SMT DEF Slots, Retries
  <1>3. QED
    BY <1>1, <1>2

\* The newest records are records.
LEMMA NewerIn ==
    /\ \A rs, k : Newer(rs, k) \subseteq DOMAIN rs
    /\ \A rs, s : Found(rs, s) \subseteq DOMAIN rs
    /\ \A k : Latest(k) \subseteq DOMAIN runs
  BY DEF Newer, Found, Latest

LEMMA WithRecordType ==
    ASSUME Inv, NEW s \in Slots
    PROVE  /\ WithRecord(s) \in Seq(Run)
           /\ DOMAIN runs \subseteq DOMAIN WithRecord(s)
           /\ \A n \in DOMAIN runs : WithRecord(s)[n].status = runs[n].status
           /\ EndedRun(s) \subseteq DOMAIN WithRecord(s)
           /\ DOMAIN WithRecord(s) \subseteq Nat
  <1> DEFINE r == [session |-> s, retry |-> 0, status |-> "running"]
  <1>1. r \in Run
    BY DEF Run
  <1>2. runs \in Seq(Run)
    BY DEF Inv, Types
  <1>3. EndedRun(s) \subseteq DOMAIN WithRecord(s)
    BY NewerIn DEF EndedRun
  <1>4. CASE Found(runs, s) # {}
    BY <1>2, <1>3, <1>4 DEF WithRecord
  <1>5. CASE Found(runs, s) = {}
    <2>1. WithRecord(s) = Append(runs, r)
      BY <1>5 DEF WithRecord
    <2>2. QED
      BY <1>1, <1>2, <1>3, <2>1
  <1>6. QED
    BY <1>4, <1>5

LEMMA ConcludesType ==
    ASSUME Inv, NEW t \in Threads, NEW n \in Nat,
           NEW result \in {"done", "failed", "cancelled"}
    PROVE  /\ Concludes(t, n, result) \in Job
           /\ Concludes(t, n, result).pc = "claim"
           /\ Concludes(t, n, result).n = n
           /\ Concludes(t, n, result).left = job[t].left
  <1>1. job[t] \in Job
    BY DEF Inv, Types
  <1>2. "claim" \in Pc
    BY DEF Pc
  <1>3. QED
    BY <1>1, <1>2 DEF Concludes, Job

LEMMA HeadType ==
    ASSUME NEW q \in Seq(Event), q # <<>>
    PROVE  /\ Head(q) \in Event /\ Head(q).session \in Slots
           /\ Tail(q) \in Seq(Event)
  <1>1. Head(q) \in Event /\ Tail(q) \in Seq(Event)
    OBVIOUS
  <1>2. QED
    BY <1>1 DEF Event

LEMMA EmitsType ==
    ASSUME Inv, NEW s \in Slots,
           NEW kind \in {"fired", "ended", "restarted", "timeout"},
           Emits(kind, s)
    PROVE  wire' \in Seq(Event)
  <1>1. [kind |-> kind, session |-> s] \in Event
    BY DEF Event
  <1>2. QED
    BY <1>1 DEF Inv, Types, Emits, Told

LEMMA LostType == ASSUME NEW s \in Slots PROVE Lost(s) \subseteq Sessions
  BY SessionNumbers DEF Lost

\* Where a thread is when its conclusion is over.
LEMMA DoneJob ==
    ASSUME Inv, NEW t \in Threads, Done(t)
    PROVE  \E j \in Job :
              /\ job' = [job EXCEPT ![t] = j]
              /\ j.pc \in {"idle", "cancel", "reconcile"}
              /\ j.left \subseteq job[t].left
              /\ t = "worker" => ~retrying'
              /\ t = "caller" => retrying' = retrying
  <1>1. CASE t = "worker"
    BY <1>1, NoJobType DEF Done
  <1>2. CASE t # "worker"
    <2> DEFINE j == [job[t] EXCEPT !.pc = job[t].back]
    <2>1. job[t] \in Job
      BY DEF Inv, Types
    <2>2. j \in Job /\ j.pc = job[t].back /\ j.left = job[t].left
      BY <2>1 DEF Job, Pc
    <2>3. job[t].back \in {"idle", "cancel", "reconcile"}
      BY <2>1 DEF Job
    <2>4. job' = [job EXCEPT ![t] = j] /\ retrying' = retrying
      BY <1>2 DEF Done, Goes, Inv, Types
    <2>5. QED
      BY <1>2, <2>2, <2>3, <2>4
  <1>3. QED
    BY <1>1, <1>2

\* A step from one place of a chain to the next.
LEMMA GoesJob ==
    ASSUME Inv, NEW t \in Threads, NEW pc \in Pc, Goes(t, pc)
    PROVE  \E j \in Job :
              /\ job' = [job EXCEPT ![t] = j]
              /\ j.pc = pc /\ j.n = job[t].n /\ j.left = job[t].left
  <1> DEFINE j == [job[t] EXCEPT !.pc = pc]
  <1>1. job[t] \in Job
    BY DEF Inv, Types
  <1>2. j \in Job /\ j.pc = pc /\ j.n = job[t].n /\ j.left = job[t].left
    BY <1>1 DEF Job
  <1>3. job' = [job EXCEPT ![t] = j]
    BY DEF Goes, Inv, Types
  <1>4. QED
    BY <1>2, <1>3

\* Of some runs there is a newest.
LEMMA NewestIn ==
    ASSUME Inv, NEW N \in SUBSET DOMAIN runs, N # {}
    PROVE  Newest(N) \in N /\ \A m \in N : m <= Newest(N)
  <1>1. runs \in Seq(Run) /\ Len(runs) \in Nat /\ DOMAIN runs = 1..Len(runs)
    BY DEF Inv, Types
  <1> DEFINE D == {Len(runs) - n : n \in N}
             R == OpToRel(<, Nat)
  <1>2. D \subseteq Nat /\ D # {}
    BY <1>1
  <1>3. IsWellFoundedOn(R, Nat)
    BY NatLessThanWellFounded
  <1>4. PICK x \in D : \A y \in D : ~(<<y, x>> \in R)
    <2> HIDE DEF D, R
    <2> QED BY <1>2, <1>3, WFMin
  <1>5. \A y \in D : ~(y < x)
    BY <1>2, <1>4 DEF OpToRel
  <1>6. PICK n \in N : x = Len(runs) - n
    OBVIOUS
  <1>7. \A m \in N : m <= n
    <2> TAKE m \in N
    <2>1. ~(Len(runs) - m < x)
      BY <1>5
    <2>2. QED
      BY <1>1, <1>6, <2>1
  <1>8. QED
    BY <1>7 DEF Newest

-----------------------------------------------------------------------------
(* An action keeps the invariant when it keeps the types around the runs   *)
(* and leaves the runs alone, or moves one thread.                         *)

Around ==
    /\ entry \in Entry /\ booted \in BOOLEAN
    /\ sess \in [Sessions -> {"none", "live", "detached", "closing", "ended"}]
    /\ conn \in BOOLEAN /\ wire \in Seq(Event)
    /\ enabled \in BOOLEAN /\ failures \in Nat
    /\ queue \in Seq(Event) /\ due \in BOOLEAN
    /\ now \in {"no", "on", "off", "fire"} /\ upsets \in 0..MaxUpsets
    /\ untold \subseteq Sessions /\ loose \in BOOLEAN

LEMMA AroundNow == ASSUME Inv PROVE Around
  BY DEF Inv, Types, Around

LEMMA Quiet ==
    ASSUME Inv, Around', UNCHANGED <<runs, proposal, claimed, retrying, job>>
    PROVE  Inv' /\ Once
  <1>1. Kept /\ job' = job /\ retrying' = retrying
    BY DEF Kept, Inv, Types
  <1>2. Claims' /\ Once
    BY <1>1, KeptOnly
  <1>3. Types'
    BY DEF Inv, Types, Around
  <1>4. QED
    BY <1>2, <1>3 DEF Inv

LEMMA Moving ==
    ASSUME Inv, Around', Kept, retrying' \in BOOLEAN,
           NEW t \in Threads, NEW j, Move(t, j)
    PROVE  Inv' /\ Once
  <1>1. Claims' /\ Once /\ job' \in [Threads -> Job]
    BY KeptMove
  <1>2. Types'
    BY <1>1 DEF Inv, Types, Around, Kept
  <1>3. QED
    BY <1>1, <1>2 DEF Inv

\* The same, where the runs stay as they are.
LEMMA Unkept ==
    ASSUME Inv, UNCHANGED <<runs, proposal, claimed>> PROVE Kept
  BY DEF Inv, Types, Kept

LEMMA NewUpset == ASSUME Inv, Upsets PROVE upsets' \in 0..MaxUpsets
  BY RoutinesAssumption DEF Inv, Types, Upsets

LEMMA EntryWrites ==
    ASSUME Inv
    PROVE  /\ \A on \in BOOLEAN : SetsEntry(on) =>
                  entry' \in Entry /\ untold' \subseteq Sessions
           /\ \A S : RemovesEntry(S) =>
                  entry' \in Entry /\ untold' \subseteq Sessions
  <1>1. entry \in Entry /\ untold \subseteq Sessions
    BY DEF Inv, Types
  <1>2. NoEntry \in Entry /\ entry.run \in {0} \cup Sessions
    BY <1>1, SessionNumbers DEF NoEntry, Entry
  <1>3. QED
    BY <1>1, <1>2 DEF SetsEntry, RemovesEntry, Entry

LEMMA ClosedType ==
    ASSUME Inv, NEW S
    PROVE  Closed(S) \in [Sessions -> {"none", "live", "detached", "closing",
                                       "ended"}]
  BY DEF Inv, Types, Closed

-----------------------------------------------------------------------------
(* The daemon and the connection.                                          *)

LEMMA LaunchesType ==
    ASSUME Inv, Launches
    PROVE  /\ entry' \in Entry /\ wire' \in Seq(Event)
           /\ sess' \in [Sessions -> {"none", "live", "detached", "closing",
                                      "ended"}]
  <1>1. PICK s \in Slots :
            /\ sess' = [sess EXCEPT ![s] = "live"]
            /\ entry' = [entry EXCEPT !.run = s] /\ Emits("fired", s)
    BY DEF Launches, IsNext
  <1>2. wire' \in Seq(Event)
    BY <1>1, EmitsType
  <1>3. QED
    BY <1>1, <1>2 DEF Inv, Types, Entry

LEMMA SlotFiresSafe == ASSUME Inv, SlotFires PROVE Inv' /\ Once
  <1>1. Around'
    BY LaunchesType, AroundNow DEF SlotFires, Around, storeVars, moduleVars
  <1>2. QED
    BY <1>1, Quiet DEF SlotFires, storeVars, moduleVars

LEMMA RunSettlesSafe ==
    ASSUME Inv, NEW kind \in {"ended", "timeout"}, RunSettles(kind)
    PROVE  Inv' /\ Once
  <1>1. entry \in Entry /\ entry.run \in Slots
    BY DEF RunSettles, Inv, Types, Entry
  <1>2. wire' \in Seq(Event) /\ untold' \subseteq Sessions
    BY <1>1, EmitsType, LostType DEF RunSettles, Inv, Types
  <1>3. entry' \in Entry
    BY <1>1 DEF RunSettles, Entry
  <1>4. sess' \in [Sessions -> {"none", "live", "detached", "closing",
                               "ended"}]
    BY <1>1 DEF RunSettles, Inv, Types
  <1>5. Around'
    BY <1>2, <1>3, <1>4, AroundNow
       DEF RunSettles, Around, storeVars, moduleVars
  <1>6. QED
    BY <1>5, Quiet DEF RunSettles, storeVars, moduleVars

LEMMA FirstTickSafe == ASSUME Inv, FirstTick PROVE Inv' /\ Once
  <1>1. entry \in Entry /\ untold \subseteq Sessions /\ wire \in Seq(Event)
        /\ sess \in [Sessions -> {"none", "live", "detached", "closing",
                                  "ended"}]
    BY DEF Inv, Types
  <1>2. /\ entry' \in Entry /\ untold' \subseteq Sessions /\ wire' \in Seq(Event)
        /\ sess' \in [Sessions -> {"none", "live", "detached", "closing",
                                   "ended"}]
    <2>1. CASE entry.run = 0
      BY <1>1, <2>1 DEF FirstTick
    <2>2. CASE entry.run # 0
      <3>1. entry.run \in Slots
        BY <1>1, <2>2 DEF Entry
      <3>2. wire' \in Seq(Event) /\ untold' \subseteq Sessions
        BY <1>1, <2>2, <3>1, EmitsType, LostType DEF FirstTick
      <3>3. entry' \in Entry
        BY <1>1, <2>2 DEF FirstTick, Entry
      <3>4. QED
        BY <1>1, <2>2, <3>1, <3>2, <3>3 DEF FirstTick
    <2>3. QED
      BY <2>1, <2>2
  <1>3. Around'
    BY <1>2, AroundNow DEF FirstTick, Around, storeVars, moduleVars
  <1>4. QED
    BY <1>3, Quiet DEF FirstTick, storeVars, moduleVars

LEMMA SessionMoves ==
    ASSUME Inv, NEW s \in Sessions, SessionEnds(s) \/ Reattached(s)
    PROVE  Inv' /\ Once
  <1>1. Around'
    BY AroundNow DEF SessionEnds, Reattached, Around, linkVars, storeVars,
                     moduleVars
  <1>2. QED
    BY <1>1, Quiet DEF SessionEnds, Reattached, storeVars, moduleVars

\* A restart leaves no thread at work and no run claimed.
LEMMA RestartSafe == ASSUME Inv, Restart PROVE Inv' /\ Once
  <1>0. wire' \in Seq(Event) /\ queue' \in Seq(Event)
        /\ upsets' \in 0..MaxUpsets
    BY NewUpset DEF Restart
  <1>1. Around'
    BY <1>0, AroundNow DEF Restart, Around, storeVars
  <1>2. /\ runs' = runs /\ proposal' = proposal /\ claimed' = {}
        /\ retrying' = FALSE /\ job' = [t \in Threads |-> NoJob]
    BY DEF Restart, storeVars
  <1>3. Types'
    BY <1>1, <1>2, NoJobType DEF Inv, Types, Around
  <1>4. Claims'
    BY <1>2, NoJobType DEF Claims, At, AtRun, Threads
  <1>5. Once
    BY <1>2 DEF Once
  <1>6. QED
    BY <1>3, <1>4, <1>5 DEF Inv

LEMMA DropSafe == ASSUME Inv, Drop PROVE Inv' /\ Once
  <1>1. wire \in Seq(Event) /\ untold \subseteq Sessions
    BY DEF Inv, Types
  <1>2. \A i \in DOMAIN wire : Lost(wire[i].session) \subseteq Sessions
    <2> TAKE i \in DOMAIN wire
    <2>1. wire[i] \in Event
      BY <1>1
    <2>2. wire[i].session \in Slots
      BY <2>1 DEF Event
    <2>3. QED
      BY <2>2, LostType
  <1>3. untold' \subseteq Sessions
    BY <1>1, <1>2 DEF Drop
  <1>4. wire' \in Seq(Event) /\ upsets' \in 0..MaxUpsets
    BY NewUpset DEF Drop
  <1>5. Around'
    BY <1>3, <1>4, AroundNow DEF Drop, Around, daemonVars, storeVars,
                                 moduleVars
  <1>6. QED
    BY <1>5, Quiet DEF Drop, storeVars, moduleVars

LEMMA LagsSafe == ASSUME Inv, Lags PROVE Inv' /\ Once
  <1>1. wire \in Seq(Event) /\ wire # <<>> /\ untold \subseteq Sessions
    BY DEF Lags, Inv, Types
  <1>2. Head(wire).session \in Slots /\ Tail(wire) \in Seq(Event)
    BY <1>1, HeadType
  <1>3. Around'
    BY <1>1, <1>2, NewUpset, AroundNow, SessionNumbers
       DEF Lags, Around, daemonVars, storeVars, moduleVars
  <1>4. QED
    BY <1>3, Quiet DEF Lags, storeVars, moduleVars

LEMMA ConnectSafe == ASSUME Inv, Connect PROVE Inv' /\ Once
  <1>1. Around'
    BY AroundNow DEF Connect, Around, daemonVars, storeVars
  <1>2. QED
    BY <1>1, Quiet DEF Connect, storeVars

LEMMA AcceptEventSafe == ASSUME Inv, AcceptEvent PROVE Inv' /\ Once
  <1>1. wire \in Seq(Event) /\ wire # <<>> /\ queue \in Seq(Event)
    BY DEF AcceptEvent, Inv, Types
  <1>2. Head(wire) \in Event /\ Tail(wire) \in Seq(Event)
    BY <1>1, HeadType
  <1>3. Append(queue, Head(wire)) \in Seq(Event)
    BY <1>1, <1>2
  <1>4. queue' \in Seq(Event) /\ wire' \in Seq(Event)
    BY <1>1, <1>2, <1>3 DEF AcceptEvent
  <1>5. sess' \in [Sessions -> {"none", "live", "detached", "closing",
                               "ended"}]
    BY ClosedType DEF AcceptEvent, Inv, Types
  <1>6. Around'
    BY <1>4, <1>5, AroundNow DEF AcceptEvent, Around, storeVars
  <1>7. QED
    BY <1>6, Quiet DEF AcceptEvent, storeVars

-----------------------------------------------------------------------------
(* The worker's events.                                                    *)

\* An event is taken: what is left of the queue, and the session it names.
LEMMA TakenEvent ==
    ASSUME Inv, NEW kinds, TakesEvent(kinds)
    PROVE  /\ queue' \in Seq(Event) /\ Head(queue).session \in Slots
           /\ job["worker"].pc = "idle"
  <1>1. queue \in Seq(Event) /\ queue # <<>>
    BY DEF TakesEvent, Inv, Types
  <1>2. QED
    BY <1>1, HeadType DEF TakesEvent, At

\* Recording the run of a session concludes none.
LEMMA RecordKeeps ==
    ASSUME Inv, NEW s \in Slots, runs' = WithRecord(s),
           UNCHANGED <<proposal, claimed>>
    PROVE  Kept
  BY WithRecordType DEF Kept

LEMMA HandleFiredSafe == ASSUME Inv, HandleFired PROVE Inv' /\ Once
  <1>1. queue' \in Seq(Event) /\ Head(queue).session \in Slots
    BY TakenEvent DEF HandleFired
  <1>2. Kept
    BY <1>1, RecordKeeps DEF HandleFired
  <1>3. Claims' /\ Once
    BY <1>2, KeptOnly DEF HandleFired
  <1>4. Types'
    BY <1>1, <1>2
       DEF HandleFired, Inv, Types, Kept, daemonVars, linkVars
  <1>5. QED
    BY <1>3, <1>4 DEF Inv

\* The worker goes from an event to the conclusion of its run.
LEMMA WorkerConcludes ==
    ASSUME Inv, NEW s \in Slots, NEW n \in EndedRun(s),
           runs' = WithRecord(s), job["worker"].pc # "mark",
           NEW result \in {"done", "failed", "cancelled"},
           job' = [job EXCEPT !["worker"] = Concludes("worker", n, result)]
    PROVE  Move("worker", Concludes("worker", n, result))
  <1>1. "worker" \in Threads
    BY DEF Threads
  <1>2. n \in Nat /\ n \in DOMAIN runs' /\ DOMAIN runs \subseteq DOMAIN runs'
    BY WithRecordType
  <1>3. job["worker"].left \subseteq DOMAIN runs
    BY <1>1 DEF Inv, Claims
  <1>4. /\ Concludes("worker", n, result) \in Job
        /\ Concludes("worker", n, result).pc = "claim"
        /\ Concludes("worker", n, result).n = n
        /\ Concludes("worker", n, result).left = job["worker"].left
    BY <1>1, <1>2, ConcludesType
  <1>5. QED
    BY <1>2, <1>3, <1>4 DEF Move, At

LEMMA HandleTimeoutSafe == ASSUME Inv, HandleTimeout PROVE Inv' /\ Once
  <1> DEFINE s == Head(queue).session
  <1>1. queue' \in Seq(Event) /\ s \in Slots /\ job["worker"].pc = "idle"
    BY TakenEvent DEF HandleTimeout
  <1>2. Around'
    BY <1>1, AroundNow DEF HandleTimeout, Around, daemonVars, linkVars
  <1>3. Kept /\ runs' = WithRecord(s) /\ retrying' = retrying
        /\ retrying \in BOOLEAN
    BY <1>1, RecordKeeps DEF HandleTimeout, Inv, Types
  <1>4. CASE job' = job
    <2>1. Claims' /\ Once
      BY <1>3, <1>4, KeptOnly
    <2>2. Types'
      BY <1>2, <1>3, <1>4 DEF Inv, Types, Around, Kept
    <2>3. QED
      BY <2>1, <2>2 DEF Inv
  <1>5. CASE job' # job
    <2>1. PICK n \in EndedRun(s) :
              job' = [job EXCEPT !["worker"] = Concludes("worker", n, "failed")]
      BY <1>5 DEF HandleTimeout
    <2>2. Move("worker", Concludes("worker", n, "failed"))
      BY <1>1, <1>3, <2>1, WorkerConcludes
    <2>3. QED
      BY <1>2, <1>3, <2>2, Moving DEF Threads
  <1>6. QED
    BY <1>4, <1>5

LEMMA HandleEndedSafe == ASSUME Inv, HandleEnded PROVE Inv' /\ Once
  <1> DEFINE s == Head(queue).session
  <1>1. queue' \in Seq(Event) /\ s \in Slots /\ job["worker"].pc = "idle"
    BY TakenEvent DEF HandleEnded
  <1>2. Around'
    BY <1>1, AroundNow DEF HandleEnded, Around, daemonVars, linkVars
  <1>3. Kept /\ runs' = WithRecord(s) /\ retrying' = retrying
        /\ retrying \in BOOLEAN
    BY <1>1, RecordKeeps DEF HandleEnded, Inv, Types
  <1>4. CASE job' = job
    <2>1. Claims' /\ Once
      BY <1>3, <1>4, KeptOnly
    <2>2. Types'
      BY <1>2, <1>3, <1>4 DEF Inv, Types, Around, Kept
    <2>3. QED
      BY <2>1, <2>2 DEF Inv
  <1>5. CASE job' # job
    <2>1. PICK n \in EndedRun(s), result \in {"done", "failed", "cancelled"} :
              job' = [job EXCEPT !["worker"] = Concludes("worker", n, result)]
      BY <1>5 DEF HandleEnded
    <2>2. Move("worker", Concludes("worker", n, result))
      BY <1>1, <1>3, <2>1, WorkerConcludes
    <2>3. QED
      BY <1>2, <1>3, <2>2, Moving DEF Threads
  <1>6. QED
    BY <1>4, <1>5

LEMMA RetryOnceSafe == ASSUME Inv, RetryOnce PROVE Inv' /\ Once
  <1> DEFINE s == Head(queue).session
             W == job["worker"]
  <1>1. queue' \in Seq(Event) /\ s \in Slots /\ W.pc = "idle"
    BY TakenEvent DEF RetryOnce
  <1>2. Kept /\ runs' = WithRecord(s) /\ retrying' = TRUE
    BY <1>1, RecordKeeps DEF RetryOnce
  <1>3. PICK n \in EndedRun(s) :
            job' = [job EXCEPT !["worker"] =
                       [@ EXCEPT !.pc = "start retry", !.n = n]]
    BY DEF RetryOnce
  <1>4. Around'
    BY <1>1, AroundNow DEF RetryOnce, Around, daemonVars, linkVars
  <1>5. "worker" \in Threads /\ W \in Job /\ W.left \subseteq DOMAIN runs
    BY DEF Threads, Inv, Types, Claims
  <1> DEFINE j == [W EXCEPT !.pc = "start retry", !.n = n]
  <1>6. job' = [job EXCEPT !["worker"] = j]
    BY <1>3, <1>5 DEF Inv, Types
  <1>7. n \in Nat /\ n \in DOMAIN runs' /\ DOMAIN runs \subseteq DOMAIN runs'
    BY <1>1, <1>2, WithRecordType
  <1>8. j \in Job /\ j.pc = "start retry" /\ j.n = n /\ j.left = W.left
    BY <1>5, <1>7 DEF Job, Pc
  <1>9. Move("worker", j)
    BY <1>1, <1>5, <1>6, <1>7, <1>8 DEF Move, At
  <1>10. QED
    BY <1>2, <1>4, <1>5, <1>9, Moving

LEMMA StartsRetrySafe == ASSUME Inv, StartsRetry PROVE Inv' /\ Once
  <1> DEFINE W == job["worker"]
             n == W.n
  <1>1. "worker" \in Threads /\ W \in Job /\ W.pc = "start retry"
    BY DEF Threads, Inv, Types, StartsRetry, At
  <1>2. n \in DOMAIN runs /\ W.left \subseteq DOMAIN runs /\ n \in Nat
    BY <1>1 DEF Inv, Claims, AtRun, Job
  <1>3. Kept /\ runs' = runs /\ retrying' \in BOOLEAN
    BY Unkept DEF StartsRetry, storeVars, moduleVars, Inv, Types
  <1>4. sess' \in [Sessions -> {"none", "live", "detached", "closing",
                               "ended"}]
    BY DEF StartsRetry, Inv, Types
  <1>5. Around'
    BY <1>4, AroundNow DEF StartsRetry, Around, linkVars, storeVars, moduleVars
  <1>6. CASE job' = [job EXCEPT !["worker"] = Concludes("worker", n, "failed")]
    <2>1. /\ Concludes("worker", n, "failed") \in Job
          /\ Concludes("worker", n, "failed").pc = "claim"
          /\ Concludes("worker", n, "failed").n = n
          /\ Concludes("worker", n, "failed").left = W.left
      BY <1>1, <1>2, ConcludesType
    <2>2. Move("worker", Concludes("worker", n, "failed"))
      BY <1>1, <1>2, <1>3, <1>6, <2>1 DEF Move, At
    <2>3. QED
      BY <1>1, <1>3, <1>5, <2>2, Moving
  <1>7. CASE job' # [job EXCEPT !["worker"] = Concludes("worker", n, "failed")]
    <2>1. PICK r \in Sessions :
              job' = [job EXCEPT !["worker"] =
                         [@ EXCEPT !.pc = "mark retry", !.retry = r]]
      BY <1>1, <1>7 DEF StartsRetry, Inv, Types
    <2> DEFINE j == [W EXCEPT !.pc = "mark retry", !.retry = r]
    <2>2. job' = [job EXCEPT !["worker"] = j]
      BY <1>1, <2>1 DEF Inv, Types
    <2>3. j \in Job /\ j.pc = "mark retry" /\ j.n = n /\ j.left = W.left
      BY <1>1 DEF Job, Pc
    <2>4. Move("worker", j)
      BY <1>1, <1>2, <1>3, <2>2, <2>3 DEF Move, At
    <2>5. QED
      BY <1>1, <1>3, <1>5, <2>4, Moving
  <1>8. QED
    BY <1>6, <1>7

LEMMA MarksRetrySafe == ASSUME Inv, MarksRetry PROVE Inv' /\ Once
  <1> DEFINE n == job["worker"].n
             r == job["worker"].retry
  <1>1. "worker" \in Threads /\ job["worker"] \in Job
        /\ job["worker"].pc = "mark retry"
    BY DEF Threads, Inv, Types, MarksRetry, At
  <1>2. n \in DOMAIN runs /\ job["worker"].left \subseteq DOMAIN runs
    BY <1>1 DEF Inv, Claims, AtRun
  <1>3. r \in {0} \cup Sessions
    BY <1>1 DEF Job
  <1>4. runs \in Seq(Run) /\ runs[n] \in Run
    BY <1>2 DEF Inv, Types
  <1>5. runs' = [runs EXCEPT ![n] = [runs[n] EXCEPT !.retry = r]]
    BY <1>2, <1>4 DEF MarksRetry
  <1>6. [runs[n] EXCEPT !.retry = r] \in Run
        /\ [runs[n] EXCEPT !.retry = r].status = runs[n].status
    BY <1>3, <1>4 DEF Run
  <1>7. runs' \in Seq(Run) /\ DOMAIN runs' = DOMAIN runs
        /\ \A m \in DOMAIN runs : runs'[m].status = runs[m].status
    BY <1>2, <1>4, <1>5, <1>6
  <1>8. Kept
    BY <1>7 DEF Kept, MarksRetry, moduleVars
  <1>9. "await" \in Pc /\ "await" # "mark" /\ "await" # "idle"
    BY DEF Pc
  <1>10. PICK j \in Job : /\ job' = [job EXCEPT !["worker"] = j]
                          /\ j.pc = "await" /\ j.n = n
                          /\ j.left = job["worker"].left
    BY <1>1, <1>9, GoesJob DEF MarksRetry
  <1>11. Move("worker", j)
    BY <1>1, <1>2, <1>7, <1>10 DEF Move, At
  <1>12. Around'
    BY AroundNow DEF MarksRetry, Around, daemonVars, linkVars, moduleVars
  <1>13. retrying' \in BOOLEAN
    BY DEF MarksRetry, moduleVars, Inv, Types
  <1>14. QED
    BY <1>1, <1>8, <1>11, <1>12, <1>13, Moving

LEMMA RetryEndsSafe == ASSUME Inv, RetryEnds PROVE Inv' /\ Once
  <1> DEFINE n == job["worker"].n
  <1>1. "worker" \in Threads /\ job["worker"] \in Job
        /\ job["worker"].pc = "await"
    BY DEF Threads, Inv, Types, RetryEnds, At
  <1>2. n \in DOMAIN runs /\ job["worker"].left \subseteq DOMAIN runs /\ n \in Nat
    BY <1>1 DEF Inv, Claims, AtRun, Job
  <1>3. Kept /\ runs' = runs /\ retrying' \in BOOLEAN
    BY Unkept DEF RetryEnds, storeVars, Inv, Types
  <1>4. PICK result \in {"done", "failed", "cancelled"} :
            job' = [job EXCEPT !["worker"] = Concludes("worker", n, result)]
    BY <1>1 DEF RetryEnds, Inv, Types
  <1>5. /\ Concludes("worker", n, result) \in Job
        /\ Concludes("worker", n, result).pc = "claim"
        /\ Concludes("worker", n, result).n = n
        /\ Concludes("worker", n, result).left = job["worker"].left
    BY <1>1, <1>2, ConcludesType
  <1>6. Move("worker", Concludes("worker", n, result))
    BY <1>1, <1>2, <1>3, <1>4, <1>5 DEF Move, At
  <1>7. sess' \in [Sessions -> {"none", "live", "detached", "closing",
                               "ended"}]
    BY ClosedType DEF RetryEnds, Inv, Types
  <1>8. Around'
    BY <1>7, AroundNow DEF RetryEnds, Around, linkVars, storeVars
  <1>9. QED
    BY <1>1, <1>3, <1>6, <1>8, Moving

-----------------------------------------------------------------------------
(* Conclusions.                                                            *)

\* The thread is done: it is away from every run.
LEMMA DoneMoves ==
    ASSUME Inv, NEW t \in Threads, Done(t), ~At(t, "mark"), runs' = runs
    PROVE  retrying' \in BOOLEAN /\ \E j \in Job : Move(t, j)
  <1>1. PICK j \in Job :
              /\ job' = [job EXCEPT ![t] = j]
              /\ j.pc \in {"idle", "cancel", "reconcile"}
              /\ j.left \subseteq job[t].left
              /\ t = "worker" => ~retrying'
              /\ t = "caller" => retrying' = retrying
    BY DoneJob
  <1>2. job[t].left \subseteq DOMAIN runs
    BY DEF Inv, Claims
  <1>3. Move(t, j)
    BY <1>1, <1>2 DEF Move, AtRun
  <1>4. retrying' \in BOOLEAN
    BY DEF Done, Inv, Types
  <1>5. QED
    BY <1>3, <1>4

\* The thread goes to a step away from every run.
LEMMA GoesMoves ==
    ASSUME Inv, NEW t \in Threads, NEW pc \in Pc, Goes(t, pc), ~At(t, "mark"),
           pc \notin AtRun, pc # "idle", runs' = runs, retrying' = retrying
    PROVE  retrying' \in BOOLEAN /\ \E j \in Job : Move(t, j)
  <1>1. PICK j \in Job :
              /\ job' = [job EXCEPT ![t] = j]
              /\ j.pc = pc /\ j.n = job[t].n /\ j.left = job[t].left
    BY GoesJob
  <1>2. job[t].left \subseteq DOMAIN runs /\ pc # "mark"
    BY DEF Inv, Claims, AtRun
  <1>3. Move(t, j)
    BY <1>1, <1>2 DEF Move
  <1>4. QED
    BY <1>3 DEF Inv, Types

\* The claim: from now on no other thread can settle the run.
LEMMA SettlesSafe ==
    ASSUME Inv, NEW t \in Threads, Settles(t) PROVE Inv' /\ Once
  <1> DEFINE n == job[t].n
  <1>1. job[t] \in Job /\ job[t].pc = "claim" /\ ~At(t, "mark")
    BY DEF Inv, Types, Settles, At
  <1>2. n \in DOMAIN runs /\ job[t].left \subseteq DOMAIN runs
    BY <1>1 DEF Inv, Claims, AtRun
  <1>3. runs' = runs
    BY DEF Settles
  <1>4. Around'
    BY AroundNow DEF Settles, Around, daemonVars, linkVars
  <1>5. CASE ~MayClaim(n)
    <2>1. Done(t) /\ Kept
      BY <1>5, Unkept DEF Settles
    <2>2. PICK j \in Job : Move(t, j) /\ retrying' \in BOOLEAN
      BY <1>1, <1>3, <2>1, DoneMoves
    <2>3. QED
      BY <1>4, <2>1, <2>2, Moving
  <1>6. CASE MayClaim(n)
    <2>1. n \notin claimed /\ Running(n) /\ claimed' = claimed \cup {n}
          /\ Goes(t, "mark") /\ retrying' = retrying
          /\ proposal' = [s \in Sessions |->
                 IF s \in SessionsOf(n) /\ proposal[s] = "queued"
                 THEN IF job[t].result = "cancelled" THEN "discarded"
                      ELSE "applied"
                 ELSE proposal[s]]
      BY <1>6 DEF Settles, MayClaim
    <2>2. "mark" \in Pc
      BY DEF Pc
    <2>3. PICK j \in Job : /\ job' = [job EXCEPT ![t] = j]
                           /\ j.pc = "mark" /\ j.n = n
                           /\ j.left = job[t].left
      BY <2>1, <2>2, GoesJob
    <2>4. job' \in [Threads -> Job] /\ job'[t] = j
          /\ \A u \in Threads : u # t => job'[u] = job[u]
      BY <2>3 DEF Inv, Types
    <2>5. Types'
      BY <1>2, <1>3, <1>4, <2>1, <2>4 DEF Inv, Types, Around
    <2>6. Once
      BY <1>2, <1>3, <2>1 DEF Once, Inv, Types
    <2>7. \A u \in Threads : u # t /\ job[u].pc = "mark" => job[u].n # n
      BY <2>1 DEF Inv, Claims, At
    <2>8. \A u \in Threads :
             /\ job'[u].left \subseteq DOMAIN runs'
             /\ job'[u].pc \in AtRun => job'[u].n \in DOMAIN runs'
             /\ job'[u].pc = "mark" => /\ job'[u].n \in claimed'
                                       /\ runs'[job'[u].n].status = "running"
      <3> TAKE u \in Threads
      <3>1. CASE u = t
        BY <1>2, <1>3, <2>1, <2>3, <2>4, <3>1 DEF Running
      <3>2. CASE u # t
        BY <1>3, <2>1, <2>4, <3>2 DEF Inv, Claims, At, Running
      <3>3. QED
        BY <3>1, <3>2
    <2>9. \A m \in claimed' :
             \E u \in Threads : job'[u].pc = "mark" /\ job'[u].n = m
      <3> TAKE m \in claimed'
      <3>1. CASE m = n
        BY <2>3, <2>4, <3>1
      <3>2. CASE m # n
        <4>1. PICK u \in Threads : job[u].pc = "mark" /\ job[u].n = m
          BY <2>1, <3>2 DEF Inv, Claims, At
        <4>2. u # t
          BY <1>1, <4>1
        <4>3. QED
          BY <2>4, <4>1, <4>2
      <3>3. QED
        BY <3>1, <3>2
    <2>10. job'["worker"].pc = "mark" /\ job'["caller"].pc = "mark"
              => job'["worker"].n # job'["caller"].n
      BY <2>3, <2>4, <2>7 DEF Threads
    <2>11. retrying' => job'["worker"].pc # "idle"
      BY <2>1, <2>3, <2>4 DEF Inv, Claims, At, Threads
    <2>12. Claims'
      BY <2>8, <2>9, <2>10, <2>11 DEF Claims, At, Running
    <2>13. QED
      BY <2>5, <2>6, <2>12 DEF Inv
  <1>7. QED
    BY <1>5, <1>6

\* The end is written, and the claim released: the run does not run any
\* more, so that no claim of it can follow.
LEMMA MarksSafe ==
    ASSUME Inv, NEW t \in Threads, Marks(t) PROVE Inv' /\ Once
  <1> DEFINE n == job[t].n
  <1>1. job[t] \in Job /\ job[t].pc = "mark" /\ t \in {"worker", "caller"}
    BY DEF Inv, Types, Marks, At, Threads
  <1>2. /\ n \in DOMAIN runs /\ job[t].left \subseteq DOMAIN runs
        /\ n \in claimed /\ Running(n)
    BY <1>1 DEF Inv, Claims, AtRun, At
  <1>3. runs \in Seq(Run) /\ runs[n] \in Run
    BY <1>2 DEF Inv, Types
  <1>4. runs' = [runs EXCEPT ![n] = [runs[n] EXCEPT !.status = job[t].result]]
    BY <1>2, <1>3 DEF Marks
  <1>5. [runs[n] EXCEPT !.status = job[t].result] \in Run
    BY <1>1, <1>3 DEF Run, Job
  <1>6. runs' \in Seq(Run) /\ DOMAIN runs' = DOMAIN runs
        /\ \A m \in DOMAIN runs : m # n => runs'[m] = runs[m]
    BY <1>2, <1>3, <1>4, <1>5
  <1>7. Around'
    BY AroundNow DEF Marks, Around, daemonVars, linkVars
  <1>8. proposal' = proposal /\ claimed' = claimed \ {n}
    BY DEF Marks
  <1>9. PICK j \in Job :
            /\ job' = [job EXCEPT ![t] = j]
            /\ j.pc \in {"idle", "cancel", "reconcile", "count"}
            /\ j.left \subseteq job[t].left
            /\ t = "worker" => (retrying' => j.pc # "idle")
            /\ t = "caller" => retrying' = retrying
            /\ retrying' \in BOOLEAN
    <2>1. CASE job[t].result = "cancelled"
      <3>1. Done(t)
        BY <2>1 DEF Marks
      <3>2. retrying' \in BOOLEAN
        BY <3>1 DEF Done, Inv, Types
      <3>3. QED
        BY <3>1, <3>2, DoneJob
    <2>2. CASE job[t].result # "cancelled"
      <3>1. Goes(t, "count") /\ retrying' = retrying /\ "count" \in Pc
        BY <2>2 DEF Marks, Pc
      <3>2. PICK k \in Job : /\ job' = [job EXCEPT ![t] = k]
                             /\ k.pc = "count" /\ k.left = job[t].left
        BY <3>1, GoesJob
      <3>3. retrying' \in BOOLEAN
        BY <3>1 DEF Inv, Types
      <3>4. QED
        BY <3>1, <3>2, <3>3
    <2>3. QED
      BY <2>1, <2>2
  <1>10. job' \in [Threads -> Job] /\ job'[t] = j
         /\ \A u \in Threads : u # t => job'[u] = job[u]
    BY <1>9 DEF Inv, Types
  <1>11. Types'
    BY <1>6, <1>7, <1>8, <1>9, <1>10 DEF Inv, Types, Around
  <1>12. Once
    BY <1>2, <1>6, <1>8 DEF Once
  <1>13. \A u \in Threads : u # t /\ job[u].pc = "mark" => job[u].n # n
    BY <1>1 DEF Inv, Claims, At, Threads
  <1>14. \A u \in Threads :
            /\ job'[u].left \subseteq DOMAIN runs'
            /\ job'[u].pc \in AtRun => job'[u].n \in DOMAIN runs'
            /\ job'[u].pc = "mark" => /\ job'[u].n \in claimed'
                                      /\ runs'[job'[u].n].status = "running"
    <2> TAKE u \in Threads
    <2>1. CASE u = t
      BY <1>2, <1>6, <1>9, <1>10, <2>1 DEF AtRun
    <2>2. CASE u # t
      <3>1. job'[u] = job[u]
        BY <1>10, <2>2
      <3>2. /\ job[u].left \subseteq DOMAIN runs
            /\ job[u].pc \in AtRun => job[u].n \in DOMAIN runs
        BY DEF Inv, Claims
      <3>3. job[u].pc = "mark" => /\ job[u].n \in claimed
                                  /\ job[u].n \in DOMAIN runs
                                  /\ runs[job[u].n].status = "running"
        BY <3>2 DEF Inv, Claims, At, Running, AtRun
      <3>4. QED
        BY <1>6, <1>8, <1>13, <2>2, <3>1, <3>2, <3>3
    <2>3. QED
      BY <2>1, <2>2
  <1>15. \A m \in claimed' :
            \E u \in Threads : job'[u].pc = "mark" /\ job'[u].n = m
    <2> TAKE m \in claimed'
    <2>1. PICK u \in Threads : job[u].pc = "mark" /\ job[u].n = m
      BY <1>8 DEF Inv, Claims, At
    <2>2. u # t
      BY <1>8, <2>1
    <2>3. QED
      BY <1>10, <2>1, <2>2
  <1>16. job'["worker"].pc = "mark" /\ job'["caller"].pc = "mark"
            => job'["worker"].n # job'["caller"].n
    BY <1>1, <1>9, <1>10
  <1>17. retrying' => job'["worker"].pc # "idle"
    BY <1>1, <1>9, <1>10 DEF Inv, Claims, At, Threads
  <1>18. Claims'
    BY <1>14, <1>15, <1>16, <1>17 DEF Claims, At, Running
  <1>19. QED
    BY <1>11, <1>12, <1>18 DEF Inv

LEMMA CountsSafe ==
    ASSUME Inv, NEW t \in Threads, Counts(t) PROVE Inv' /\ Once
  <1> DEFINE fails == IF job[t].result = "failed" THEN failures + 1 ELSE 0
             j == [job[t] EXCEPT !.pc = "write", !.fails = fails]
  <1>1. job[t] \in Job /\ ~At(t, "mark") /\ failures \in Nat
        /\ job[t].left \subseteq DOMAIN runs
    BY DEF Inv, Types, Claims, Counts, At
  <1>2. job' = [job EXCEPT ![t] = j]
    BY DEF Counts, Inv, Types
  <1>3. j \in Job /\ j.pc = "write" /\ j.left = job[t].left
    <2>1. fails \in Nat
      BY <1>1
    <2> HIDE DEF fails
    <2>2. QED
      BY <1>1, <2>1 DEF Job, Pc
  <1>4. Kept /\ runs' = runs /\ retrying' = retrying /\ retrying' \in BOOLEAN
    BY Unkept DEF Counts, storeVars, moduleVars, Inv, Types
  <1>5. Move(t, j)
    BY <1>1, <1>2, <1>3, <1>4 DEF Move, AtRun
  <1>6. Around'
    BY AroundNow DEF Counts, Around, daemonVars, linkVars, storeVars,
                     moduleVars
  <1>7. QED
    BY <1>4, <1>5, <1>6, Moving

LEMMA WritesCountSafe ==
    ASSUME Inv, NEW t \in Threads, WritesCount(t) PROVE Inv' /\ Once
  <1>1. job[t].fails \in Nat /\ ~At(t, "mark") /\ "disable" \in Pc
    BY DEF Inv, Types, WritesCount, At, Job, Pc
  <1>2. Kept /\ runs' = runs
    BY Unkept DEF WritesCount
  <1>3. PICK j \in Job : Move(t, j) /\ retrying' \in BOOLEAN
    <2>1. CASE job[t].fails >= PauseAfter
      BY <1>1, <1>2, <2>1, GoesMoves DEF WritesCount, AtRun
    <2>2. CASE ~(job[t].fails >= PauseAfter)
      BY <1>1, <1>2, <2>2, DoneMoves DEF WritesCount
    <2>3. QED
      BY <2>1, <2>2
  <1>4. loose' \in BOOLEAN
    BY DEF WritesCount, Firing, Calling, Inv, Types
  <1>5. Around'
    BY <1>1, <1>4, AroundNow DEF WritesCount, Around, daemonVars, linkVars
  <1>6. QED
    BY <1>2, <1>3, <1>5, Moving

LEMMA DisablesSafe ==
    ASSUME Inv, NEW t \in Threads, Disables(t) PROVE Inv' /\ Once
  <1>1. ~At(t, "mark") /\ "unschedule" \in Pc
    BY DEF Disables, At, Pc
  <1>2. Kept /\ runs' = runs /\ retrying' = retrying
    BY Unkept DEF Disables, moduleVars
  <1>3. PICK j \in Job : Move(t, j) /\ retrying' \in BOOLEAN
    BY <1>1, <1>2, GoesMoves DEF Disables, AtRun
  <1>4. Around'
    BY AroundNow DEF Disables, Around, daemonVars, linkVars, moduleVars
  <1>5. QED
    BY <1>2, <1>3, <1>4, Moving

LEMMA UnschedulesSafe ==
    ASSUME Inv, NEW t \in Threads, Unschedules(t) PROVE Inv' /\ Once
  <1>1. ~At(t, "mark")
    BY DEF Unschedules, At
  <1>2. Kept /\ runs' = runs
    BY Unkept DEF Unschedules, storeVars
  <1>3. PICK j \in Job : Move(t, j) /\ retrying' \in BOOLEAN
    BY <1>1, <1>2, DoneMoves DEF Unschedules
  <1>4. /\ entry' \in Entry /\ untold' \subseteq Sessions
        /\ loose' \in BOOLEAN /\ upsets' \in 0..MaxUpsets
    BY EntryWrites, NewUpset DEF Unschedules, Inv, Types
  <1>5. Around'
    BY <1>4, AroundNow DEF Unschedules, Around, linkVars, storeVars
  <1>6. QED
    BY <1>2, <1>3, <1>5, Moving

-----------------------------------------------------------------------------
(* The calls of the owner and the resync.                                  *)

\* The caller goes on, at a run or at none.
LEMMA CallMoves ==
    ASSUME Inv, NEW j \in Job, Calls(j), ~At("caller", "mark"), j.pc # "mark",
           j.left \subseteq DOMAIN runs, j.pc \in AtRun => j.n \in DOMAIN runs,
           UNCHANGED <<runs, proposal, claimed, retrying>>, Around'
    PROVE  Inv' /\ Once
  <1>1. "caller" \in Threads /\ retrying' \in BOOLEAN
    BY DEF Threads, Inv, Types
  <1>2. Move("caller", j)
    BY DEF Move, Calls
  <1>3. Kept
    BY Unkept
  <1>4. QED
    BY <1>1, <1>2, <1>3, Moving

LEMMA CallGoes ==
    ASSUME Inv, NEW pc \in Pc \ AtRun, Goes("caller", pc),
           ~At("caller", "mark"),
           UNCHANGED <<runs, proposal, claimed, retrying>>, Around'
    PROVE  Inv' /\ Once
  <1>1. "caller" \in Threads
    BY DEF Threads
  <1>2. PICK j \in Job : /\ job' = [job EXCEPT !["caller"] = j]
                         /\ j.pc = pc /\ j.left = job["caller"].left
    BY <1>1, GoesJob
  <1>3. job["caller"].left \subseteq DOMAIN runs
    BY <1>1 DEF Inv, Claims
  <1>4. QED
    BY <1>2, <1>3, CallMoves DEF Calls, AtRun

LEMMA CallEnds ==
    ASSUME Inv, Calls(NoJob), ~At("caller", "mark"),
           UNCHANGED <<runs, proposal, claimed, retrying>>, Around'
    PROVE  Inv' /\ Once
  BY CallMoves, NoJobType DEF AtRun

LEMMA RunNumbers == ASSUME Inv PROVE DOMAIN runs \subseteq Nat
  BY DEF Inv, Types

LEMMA TurnOnSafe == ASSUME Inv, TurnOn PROVE Inv' /\ Once
  <1> DEFINE j == [NoJob EXCEPT !.pc = "save on"]
  <1>1. /\ entry' \in Entry /\ untold' \subseteq Sessions
        /\ upsets' \in 0..MaxUpsets /\ loose' \in BOOLEAN
    BY EntryWrites, NewUpset DEF TurnOn, Begins, Pausing, Firing, Inv, Types
  <1>2. Around'
    BY <1>1, AroundNow DEF TurnOn, Around, linkVars, storeVars, moduleVars
  <1>3. UNCHANGED <<runs, proposal, claimed, retrying>> /\ ~At("caller", "mark")
    BY DEF TurnOn, Begins, At, storeVars, moduleVars
  <1>4. CASE job' = job
    BY <1>2, <1>3, <1>4, Quiet
  <1>5. CASE job' # job
    <2>1. Calls(j)
      BY <1>5 DEF TurnOn
    <2>2. j \in Job /\ j.pc = "save on" /\ j.left = {}
      BY NoJobType DEF Job, Pc
    <2>3. QED
      BY <1>2, <1>3, <2>1, <2>2, CallMoves DEF AtRun
  <1>6. QED
    BY <1>4, <1>5

LEMMA SavesOnSafe == ASSUME Inv, SavesOn PROVE Inv' /\ Once
  <1>1. Around'
    BY AroundNow DEF SavesOn, Around, daemonVars, linkVars, moduleVars
  <1>2. "reset" \in Pc \ AtRun
    BY DEF Pc, AtRun
  <1>3. QED
    BY <1>1, <1>2, CallGoes DEF SavesOn, At, moduleVars

LEMMA ResetsSafe == ASSUME Inv, Resets PROVE Inv' /\ Once
  <1>1. Around'
    BY AroundNow DEF Resets, Around, daemonVars, linkVars, moduleVars
  <1>2. QED
    BY <1>1, CallEnds DEF Resets, At, moduleVars

LEMMA TurnOffSafe == ASSUME Inv, TurnOff PROVE Inv' /\ Once
  <1> DEFINE j == [NoJob EXCEPT !.pc = "list", !.then = "save off"]
  <1>1. /\ entry' \in Entry /\ untold' \subseteq Sessions
        /\ upsets' \in 0..MaxUpsets /\ loose' \in BOOLEAN
    BY EntryWrites, NewUpset DEF TurnOff, Begins, Pausing, Firing, Inv, Types
  <1>2. Around'
    BY <1>1, AroundNow DEF TurnOff, Around, linkVars, storeVars, moduleVars
  <1>3. UNCHANGED <<runs, proposal, claimed, retrying>> /\ ~At("caller", "mark")
    BY DEF TurnOff, Begins, At, storeVars, moduleVars
  <1>4. CASE job' = job
    BY <1>2, <1>3, <1>4, Quiet
  <1>5. CASE job' # job
    <2>1. Calls(j)
      BY <1>5 DEF TurnOff
    <2>2. j \in Job /\ j.pc = "list" /\ j.left = {}
      BY NoJobType DEF Job, Pc
    <2>3. QED
      BY <1>2, <1>3, <2>1, <2>2, CallMoves DEF AtRun
  <1>6. QED
    BY <1>4, <1>5

LEMMA SuspendSafe == ASSUME Inv, Suspend PROVE Inv' /\ Once
  <1> DEFINE j == [NoJob EXCEPT !.pc = "list"]
  <1>1. /\ entry' \in Entry /\ untold' \subseteq Sessions
        /\ upsets' \in 0..MaxUpsets
    BY EntryWrites, NewUpset DEF Suspend, Begins, Inv, Types
  <1>2. Around'
    BY <1>1, AroundNow DEF Suspend, Around, linkVars, storeVars, moduleVars
  <1>3. j \in Job /\ j.pc = "list" /\ j.left = {}
    BY NoJobType DEF Job, Pc
  <1>4. QED
    BY <1>2, <1>3, CallMoves
       DEF Suspend, Begins, At, AtRun, storeVars, moduleVars

LEMMA ListsSafe == ASSUME Inv, Lists PROVE Inv' /\ Once
  <1> DEFINE C == job["caller"]
             j == [C EXCEPT !.pc = "cancel", !.left = Latest(CancelRuns)]
  <1>1. "caller" \in Threads /\ C \in Job /\ C.pc = "list"
    BY DEF Threads, Inv, Types, Lists, At
  <1>2. Latest(CancelRuns) \subseteq DOMAIN runs
        /\ Latest(CancelRuns) \subseteq Nat
    BY NewerIn, RunNumbers
  <1>3. \A n \in DOMAIN runs : runs[n].session \in Sessions
    <2> TAKE n \in DOMAIN runs
    <2>1. runs[n] \in Run
      BY DEF Inv, Types
    <2>2. QED
      BY <2>1, SessionNumbers DEF Run
  <1>4. untold' \subseteq Sessions
    BY <1>3 DEF Lists, Inv, Types
  <1>5. Around'
    BY <1>4, AroundNow DEF Lists, Around, daemonVars, linkVars, storeVars,
                           moduleVars
  <1>6. Calls(j)
    BY DEF Lists
  <1>7. j \in Job /\ j.pc = "cancel" /\ j.left = Latest(CancelRuns)
    BY <1>1, <1>2 DEF Job, Pc
  <1>8. QED
    BY <1>1, <1>2, <1>5, <1>6, <1>7, CallMoves
       DEF Lists, At, AtRun, storeVars, moduleVars

LEMMA CancelsSafe == ASSUME Inv, Cancels PROVE Inv' /\ Once
  <1> DEFINE C == job["caller"]
             todo == {m \in C.left : Running(m)}
             n == Newest(todo)
  <1>1. "caller" \in Threads /\ C \in Job /\ C.pc = "cancel"
        /\ C.left \subseteq DOMAIN runs /\ DOMAIN runs \subseteq Nat
    BY RunNumbers DEF Threads, Inv, Types, Claims, Cancels, At
  <1>2. Around'
    BY ClosedType, AroundNow
       DEF Cancels, Around, linkVars, storeVars, moduleVars
  <1>3. UNCHANGED <<runs, proposal, claimed, retrying>> /\ ~At("caller", "mark")
    BY DEF Cancels, At, storeVars, moduleVars
  <1>4. CASE todo = {}
    <2> DEFINE j == [NoJob EXCEPT !.pc = C.then]
    <2>1. C.then \in {"idle", "save off"}
      BY <1>1 DEF Job
    <2>2. j \in Job /\ j.pc = C.then /\ j.left = {}
      BY <2>1, NoJobType DEF Job, Pc
    <2>3. Calls(j)
      BY <1>4 DEF Cancels
    <2>4. QED
      BY <1>2, <1>3, <2>1, <2>2, <2>3, CallMoves DEF AtRun
  <1>5. CASE todo # {}
    <2> DEFINE k == Concludes("caller", n, "cancelled")
               j == [k EXCEPT !.left = {m \in todo : m < n}, !.back = "cancel"]
    <2>1. todo \in SUBSET DOMAIN runs
      BY <1>1
    <2>2. n \in todo /\ n \in DOMAIN runs /\ n \in Nat
      BY <1>1, <1>5, <2>1, NewestIn
    <2>3. k \in Job /\ k.pc = "claim" /\ k.n = n
      BY <1>1, <2>2, ConcludesType
    <2>4. {m \in todo : m < n} \subseteq DOMAIN runs
      BY <2>1
    <2>5. Calls(j)
      BY <1>5 DEF Cancels
    <2> HIDE DEF k, n, todo
    <2>6. j \in Job /\ j.pc = "claim" /\ j.n = n
          /\ j.left = {m \in todo : m < n}
      BY <1>1, <2>3, <2>4 DEF Job
    <2>7. QED
      BY <1>2, <1>3, <2>2, <2>4, <2>5, <2>6, CallMoves
  <1>6. QED
    BY <1>4, <1>5

LEMMA SavesOffSafe == ASSUME Inv, SavesOff PROVE Inv' /\ Once
  <1>1. Around'
    BY AroundNow DEF SavesOff, Around, daemonVars, linkVars, moduleVars
  <1>2. QED
    BY <1>1, CallEnds DEF SavesOff, At, moduleVars

LEMMA SaveSafe ==
    ASSUME Inv, NEW changed \in BOOLEAN, Save(changed) PROVE Inv' /\ Once
  <1> DEFINE keep == IF ~enabled THEN "off"
                     ELSE IF changed THEN "review" ELSE "on"
             j == [NoJob EXCEPT !.pc = "save", !.keep = keep]
  <1>1. upsets' \in 0..MaxUpsets /\ loose' \in BOOLEAN
    BY NewUpset DEF Save, Begins, Pausing, Firing, Inv, Types
  <1>2. Around'
    BY <1>1, AroundNow DEF Save, Around, daemonVars, linkVars, storeVars,
                           moduleVars
  <1>3. Calls(j)
    BY DEF Save
  <1>4. keep \in {"on", "review", "off"}
    OBVIOUS
  <1> HIDE DEF keep
  <1>5. j \in Job /\ j.pc = "save" /\ j.left = {}
    BY <1>4, NoJobType DEF Job, Pc
  <1>6. QED
    BY <1>2, <1>3, <1>5, CallMoves
       DEF Save, Begins, At, AtRun, storeVars, moduleVars

LEMMA SavesFilesSafe == ASSUME Inv, SavesFiles PROVE Inv' /\ Once
  <1>1. Around'
    BY AroundNow DEF SavesFiles, Around, daemonVars, linkVars, moduleVars
  <1>2. "entry" \in Pc \ AtRun
    BY DEF Pc, AtRun
  <1>3. QED
    BY <1>1, <1>2, CallGoes DEF SavesFiles, At, moduleVars

LEMMA SavesEntrySafe == ASSUME Inv, SavesEntry PROVE Inv' /\ Once
  <1>1. /\ entry' \in Entry /\ untold' \subseteq Sessions
        /\ loose' \in BOOLEAN
    BY EntryWrites DEF SavesEntry, Inv, Types
  <1>2. Around'
    BY <1>1, AroundNow DEF SavesEntry, Around, linkVars, storeVars, moduleVars
  <1>3. QED
    BY <1>2, CallEnds DEF SavesEntry, At, storeVars, moduleVars

LEMMA ResyncSafe == ASSUME Inv, Resync PROVE Inv' /\ Once
  <1> DEFINE j == [NoJob EXCEPT !.pc = "reconcile",
                                !.left = Latest(SettleRuns)]
  <1>1. Around'
    BY AroundNow DEF Resync, Around, Pausing, Firing, daemonVars, linkVars,
                     storeVars
  <1>2. Latest(SettleRuns) \subseteq DOMAIN runs
        /\ Latest(SettleRuns) \subseteq Nat
    BY NewerIn, RunNumbers
  <1>3. j \in Job /\ j.pc = "reconcile" /\ j.left = Latest(SettleRuns)
    BY <1>2, NoJobType DEF Job, Pc
  <1>4. QED
    BY <1>1, <1>2, <1>3, CallMoves DEF Resync, At, AtRun, storeVars

LEMMA ReconcilesSafe == ASSUME Inv, Reconciles PROVE Inv' /\ Once
  <1> DEFINE C == job["caller"]
             todo == {m \in C.left :
                         Running(m) /\ ~SaysRunning(runs[m].session)}
             n == Newest(todo)
  <1>1. "caller" \in Threads /\ C \in Job /\ C.pc = "reconcile"
        /\ C.left \subseteq DOMAIN runs /\ DOMAIN runs \subseteq Nat
    BY RunNumbers DEF Threads, Inv, Types, Claims, Reconciles, At
  <1>2. Around'
    BY AroundNow DEF Reconciles, Around, daemonVars, linkVars, storeVars
  <1>3. UNCHANGED <<runs, proposal, claimed, retrying>> /\ ~At("caller", "mark")
    BY DEF Reconciles, At, storeVars
  <1>4. CASE todo = {}
    <2> DEFINE keep == IF enabled THEN "on" ELSE "off"
               j == [NoJob EXCEPT !.pc = "register", !.keep = keep]
    <2>1. Calls(j)
      BY <1>4 DEF Reconciles
    <2>2. keep \in {"on", "review", "off"}
      OBVIOUS
    <2> HIDE DEF keep
    <2>3. j \in Job /\ j.pc = "register" /\ j.left = {}
      BY <2>2, NoJobType DEF Job, Pc
    <2>4. QED
      BY <1>2, <1>3, <2>1, <2>3, CallMoves DEF AtRun
  <1>5. CASE todo # {}
    <2>1. todo \in SUBSET DOMAIN runs
      BY <1>1
    <2>2. n \in todo /\ n \in DOMAIN runs /\ n \in Nat
      BY <1>1, <1>5, <2>1, NewestIn
    <2>3. PICK result \in {"done", "failed", "cancelled"} :
              Calls([Concludes("caller", n, result) EXCEPT
                        !.left = {m \in todo : m < n}, !.back = "reconcile"])
      BY <1>5 DEF Reconciles
    <2> DEFINE k == Concludes("caller", n, result)
               j == [k EXCEPT !.left = {m \in todo : m < n},
                              !.back = "reconcile"]
    <2>4. k \in Job /\ k.pc = "claim" /\ k.n = n
      BY <1>1, <2>2, ConcludesType
    <2>5. {m \in todo : m < n} \subseteq DOMAIN runs
      BY <2>1
    <2>6. Calls(j)
      BY <2>3
    <2> HIDE DEF k, n, todo
    <2>7. j \in Job /\ j.pc = "claim" /\ j.n = n
          /\ j.left = {m \in todo : m < n}
      BY <1>1, <2>4, <2>5 DEF Job
    <2>8. QED
      BY <1>2, <1>3, <2>2, <2>5, <2>6, <2>7, CallMoves
  <1>6. QED
    BY <1>4, <1>5

LEMMA RegistersSafe == ASSUME Inv, Registers PROVE Inv' /\ Once
  <1>1. /\ entry' \in Entry /\ untold' \subseteq Sessions
        /\ loose' \in BOOLEAN /\ upsets' \in 0..MaxUpsets
    BY EntryWrites, NewUpset DEF Registers, Inv, Types
  <1>2. Around'
    BY <1>1, AroundNow DEF Registers, Around, linkVars, storeVars, moduleVars
  <1>3. "stale" \in Pc \ AtRun
    BY DEF Pc, AtRun
  <1>4. QED
    BY <1>2, <1>3, CallGoes DEF Registers, At, storeVars, moduleVars

LEMMA RemovesStaleSafe == ASSUME Inv, RemovesStale PROVE Inv' /\ Once
  <1>1. /\ entry' \in Entry /\ untold' \subseteq Sessions
        /\ loose' \in BOOLEAN /\ upsets' \in 0..MaxUpsets
    BY EntryWrites, NewUpset DEF RemovesStale, Inv, Types
  <1>2. Around'
    BY <1>1, AroundNow DEF RemovesStale, Around, linkVars, storeVars,
                           moduleVars
  <1>3. QED
    BY <1>2, CallEnds DEF RemovesStale, At, storeVars, moduleVars

LEMMA RunNowSafe ==
    ASSUME Inv, RunNow \/ RunNowRegisters \/ RunNowFires PROVE Inv' /\ Once
  <1>1. CASE RunNow
    <2>1. upsets' \in 0..MaxUpsets /\ loose' \in BOOLEAN
      BY <1>1, NewUpset DEF RunNow, Pausing, Calling, Inv, Types
    <2>2. Around'
      BY <1>1, <2>1, AroundNow DEF RunNow, Around, daemonVars, linkVars,
                                   storeVars, moduleVars
    <2>3. QED
      BY <1>1, <2>2, Quiet DEF RunNow, storeVars, moduleVars
  <1>2. CASE RunNowRegisters
    <2>1. entry' \in Entry /\ untold' \subseteq Sessions
      BY <1>2, EntryWrites DEF RunNowRegisters, Inv, Types
    <2>2. Around'
      BY <1>2, <2>1, AroundNow DEF RunNowRegisters, Around, linkVars,
                                   storeVars, moduleVars
    <2>3. QED
      BY <1>2, <2>2, Quiet DEF RunNowRegisters, storeVars, moduleVars
  <1>3. CASE RunNowFires
    <2>1. /\ entry' \in Entry /\ wire' \in Seq(Event)
          /\ sess' \in [Sessions -> {"none", "live", "detached", "closing",
                                     "ended"}]
      BY <1>3, LaunchesType DEF RunNowFires, Inv, Types
    <2>2. Around'
      BY <1>3, <2>1, AroundNow DEF RunNowFires, Around, storeVars, moduleVars
    <2>3. QED
      BY <1>3, <2>2, Quiet DEF RunNowFires, storeVars, moduleVars
  <1>4. QED
    BY <1>1, <1>2, <1>3

-----------------------------------------------------------------------------
(* The theorems.                                                           *)

LEMMA Begin == Init => Inv
  <1> SUFFICES ASSUME Init PROVE Inv
    OBVIOUS
  <1>1. entry \in Entry /\ wire \in Seq(Event) /\ queue \in Seq(Event)
        /\ runs \in Seq(Run) /\ DOMAIN runs = {}
    BY DEF Init, Entry
  <1>2. job \in [Threads -> Job] /\ \A t \in Threads : job[t] = NoJob
    BY NoJobType DEF Init
  <1>3. /\ sess \in [Sessions -> {"none", "live", "detached", "closing",
                                  "ended"}]
        /\ proposal \in [Sessions -> {"queued", "applied", "discarded"}]
        /\ upsets \in 0..MaxUpsets /\ failures \in Nat
        /\ claimed \subseteq DOMAIN runs /\ untold \subseteq Sessions
    BY RoutinesAssumption DEF Init
  <1>4. Types
    BY <1>1, <1>2, <1>3 DEF Init, Types
  <1>5. Claims
    BY <1>1, <1>2, NoJobType DEF Init, Claims, At, AtRun, Threads
  <1>6. QED
    BY <1>4, <1>5 DEF Inv

LEMMA ConclusionSafe ==
    ASSUME Inv, NEW t \in Threads, Conclusion(t) PROVE Inv' /\ Once
  BY SettlesSafe, MarksSafe, CountsSafe, WritesCountSafe, DisablesSafe,
     UnschedulesSafe DEF Conclusion

\* Every step keeps the invariant and concludes no run a second time.
LEMMA StepSafe == Inv /\ Next => Inv' /\ Once
  <1> SUFFICES ASSUME Inv, Next PROVE Inv' /\ Once
    OBVIOUS
  <1>1. CASE WorkerStep
    <2>1. "worker" \in Threads
      BY DEF Threads
    <2>2. QED
      BY <1>1, <2>1, HandleFiredSafe, HandleTimeoutSafe, HandleEndedSafe,
         RetryOnceSafe, StartsRetrySafe, MarksRetrySafe, RetryEndsSafe,
         ConclusionSafe
         DEF WorkerStep
  <1>2. CASE CallerStep
    <2>1. "caller" \in Threads
      BY DEF Threads
    <2>2. QED
      BY <1>2, <2>1, SavesOnSafe, ResetsSafe, ListsSafe, CancelsSafe, SavesOffSafe,
         SavesFilesSafe, SavesEntrySafe, ResyncSafe, ReconcilesSafe,
         RegistersSafe, RemovesStaleSafe, ConclusionSafe DEF CallerStep
  <1>3. CASE OwnerCalls
    BY <1>3, TurnOnSafe, TurnOffSafe, SuspendSafe, RunNowSafe, SaveSafe
       DEF OwnerCalls
  <1>4. CASE \/ SlotFires \/ FirstTick \/ Restart \/ Drop \/ Lags \/ Connect
             \/ AcceptEvent \/ RunNowRegisters \/ RunNowFires
    BY <1>4, SlotFiresSafe, FirstTickSafe, RestartSafe, DropSafe, LagsSafe,
       ConnectSafe, AcceptEventSafe, RunNowSafe
  <1>5. CASE \E kind \in {"ended", "timeout"} : RunSettles(kind)
    BY <1>5, RunSettlesSafe
  <1>6. CASE \E s \in Sessions : SessionEnds(s) \/ Reattached(s)
    BY <1>6, SessionMoves
  <1>7. QED
    BY <1>1, <1>2, <1>3, <1>4, <1>5, <1>6 DEF Next

LEMMA Stutters == Inv /\ UNCHANGED vars => Inv'
  BY DEF Inv, Types, Claims, At, Running, vars, daemonVars, linkVars,
         storeVars, moduleVars

\* Who claims a run is known: one thread, or nobody.
LEMMA Claimers ==
    ASSUME Inv, NEW n \in DOMAIN runs
    PROVE  Cardinality(Claimer(n)) = (IF n \in claimed THEN 1 ELSE 0)
  <1>1. CASE n \in claimed
    <2>1. PICK t \in Threads : At(t, "mark") /\ job[t].n = n
      BY <1>1 DEF Inv, Claims
    <2>2. Claimer(n) = {t}
      BY <2>1 DEF Claimer, Inv, Claims, At, Threads
    <2>3. QED
      BY <1>1, <2>2, FS_Singleton
  <1>2. CASE n \notin claimed
    <2>1. Claimer(n) = {}
      BY <1>2 DEF Claimer, Inv, Claims, At
    <2>2. QED
      BY <1>2, <2>1, FS_EmptySet
  <1>3. QED
    BY <1>1, <1>2

LEMMA Holds == Inv => TypeOK
  BY Claimers DEF Inv, Types, Claims, TypeOK, At

LEMMA Invariant == Spec => []Inv
  <1>1. Inv /\ [Next]_vars => Inv'
    BY StepSafe, Stutters
  <1>2. QED
    BY Begin, <1>1, PTL DEF Spec

\* The state keeps its type, every claimed run has the one thread that is
\* settling it, and the routine skips slots for a retry only while its worker
\* is at it, whatever calls, restarts and lost events there are
\* (service.rs:1458-1469).
THEOREM TypeCorrect == Spec => []TypeOK
  BY Invariant, Holds, PTL

\* A run is concluded once, for any number of sessions, retries, calls and
\* faults: the event, the owner and the reconcile pass never settle the
\* proposals of a run that ended, nor write another end (service.rs:1765-1784).
THEOREM RunsConcludedOnce == Spec => ConcludedOnce
  <1>1. Inv /\ [Next]_vars => [Once]_vars
    BY StepSafe
  <1>2. Spec => [][Once]_vars
    BY Invariant, <1>1, PTL DEF Spec
  <1>3. QED
    BY <1>2 DEF ConcludedOnce, Once

=============================================================================
