-------------------------- MODULE SchedulerProofs ---------------------------
(***************************************************************************)
(* Proofs about Scheduler for every value of its constants: its types,     *)
(* that a slot has one session, that the file is current, that the last    *)
(* handled slot of an entry does not move back, and that the runs of an    *)
(* entry are tracked and do not overlap.                                   *)
(***************************************************************************)
EXTENDS Scheduler, TLAPS, WellFoundedInduction

-----------------------------------------------------------------------------
(* Operators on an entry.                                                  *)

\* A bounded set of numbers that is not empty has a largest element: the
\* distances to the bound have a smallest one.
LEMMA Largest ==
    ASSUME NEW T \in SUBSET Times, T # {}
    PROVE  \E t \in T : \A u \in T : u <= t
  <1> DEFINE D == {MaxNow - t : t \in T}
             R == OpToRel(<, Nat)
  <1>1. MaxNow \in Nat /\ \A t \in T : t \in 0..MaxNow
    BY SchedulerAssumption DEF Times
  <1>2. D \subseteq Nat /\ D # {}
    BY <1>1
  <1>3. IsWellFoundedOn(R, Nat)
    BY NatLessThanWellFounded
  <1>4. PICK x \in D : \A y \in D : ~(<<y, x>> \in R)
    <2> HIDE DEF D, R
    <2> QED BY <1>2, <1>3, WFMin
  <1>5. \A y \in D : ~(y < x)
    BY <1>2, <1>4 DEF OpToRel
  <1>6. PICK t \in T : x = MaxNow - t
    OBVIOUS
  <1>7. ASSUME NEW u \in T
        PROVE  u <= t
    <2>1. ~(MaxNow - u < x)
      BY <1>5
    <2>2. QED
      BY <1>1, <1>6, <2>1
  <1>8. QED
    BY <1>7

\* The slot an entry is due for: it has come, and the anchor is before it.
LEMMA SlotType ==
    ASSUME NEW it \in Item, now \in Times, Passed(it) # {}
    PROVE  /\ Slot(it) \in Times
           /\ it.anchor < Slot(it) /\ Slot(it) <= now
  <1>1. it.plan.slots \in SUBSET Times
    BY SchedulerAssumption DEF Item, Plan
  <1>2. Passed(it) \in SUBSET Times
    BY <1>1 DEF Passed
  <1>3. \E t \in Passed(it) : \A u \in Passed(it) : u <= t
    BY <1>2, Largest
  <1>4. Slot(it) \in Passed(it)
    BY <1>3 DEF Slot
  <1>5. QED
    BY <1>1, <1>4, SchedulerAssumption DEF Passed, Times

LEMMA MinusType ==
    ASSUME NEW a \in Nat, NEW b \in Nat
    PROVE  Minus(a, b) \in Nat
  BY DEF Minus

LEMMA TrackedType ==
    ASSUME NEW it \in Item, NEW first \in BOOLEAN, now \in Times
    PROVE  /\ Tracked(it, first) \in Item
           /\ Tracked(it, first).plan = it.plan
           /\ Tracked(it, first).anchor = it.anchor
           /\ Tracked(it, first).pending = it.pending
  <1>1. now \in Nat /\ 0 \in Times /\ 0 \in 0..MaxSessions
    BY SchedulerAssumption DEF Times
  <1>2. WithoutRun(it) \in Item
    BY <1>1 DEF WithoutRun, Item
  <1>3. PausedNow(it) \in Nat
    <2>1. it.paused \in Nat /\ it.seen \in Nat
      BY <1>1 DEF Item, Times
    <2>2. Minus(now, it.seen) \in Nat
      BY <1>1, <2>1, MinusType
    <2>3. QED
      BY <2>1, <2>2 DEF PausedNow
  <1>4. [it EXCEPT !.seen = now, !.paused = PausedNow(it)] \in Item
    BY <1>1, <1>3 DEF Item
  <1>5. QED
    BY <1>2, <1>4 DEF Tracked, WithoutRun, Item

LEMMA HandledType ==
    ASSUME NEW it \in Item, now \in Times
    PROVE  /\ Handled(it) \in Item
           /\ Handled(it).anchor >= it.anchor
           /\ it.anchor <= now => Handled(it).anchor <= now
           /\ ~Due(it) => Handled(it) = it
  <1>1. CASE Due(it)
    <2>1. /\ Slot(it) \in Times
          /\ it.anchor < Slot(it) /\ Slot(it) <= now
      BY <1>1, SlotType DEF Due
    <2>2. Handled(it) = [it EXCEPT !.anchor = Slot(it),
                                   !.pending = @ \/ Starts(it)]
      BY <1>1 DEF Handled
    <2>3. (it.pending \/ Starts(it)) \in BOOLEAN
      BY DEF Starts
    <2>4. Handled(it) \in Item /\ Handled(it).anchor = Slot(it)
      BY <2>1, <2>2, <2>3 DEF Item
    <2>5. it.anchor \in Nat /\ Slot(it) \in Nat
      BY <2>1, SchedulerAssumption DEF Item, Times
    <2>6. QED
      BY <1>1, <2>1, <2>4, <2>5
  <1>2. CASE ~Due(it)
    BY <1>2, SchedulerAssumption DEF Handled, Item, Times
  <1>3. QED
    BY <1>1, <1>2

LEMMA WorkTypes ==
    ASSUME NEW it \in Item, now \in Times
    PROVE  /\ NoWork \in Work /\ NothingToDo \in [Entries -> Work]
           /\ \A first \in BOOLEAN : TickWork(it, first) \in Work
           /\ FireWork(it) \in Work /\ Fired(it) \in Item
           /\ Fired(it).anchor = it.anchor
  <1>1. NoWork \in Work
    BY SchedulerAssumption DEF NoWork, Work, Times
  <1>2. NothingToDo \in [Entries -> Work]
    BY <1>1 DEF NothingToDo
  <1>3. ASSUME NEW first \in BOOLEAN
        PROVE  TickWork(it, first) \in Work
    <2> DEFINE tr == Tracked(it, first)
    <2>1. tr \in Item
      BY TrackedType
    <2>2. Starts(tr) => Slot(tr) \in Times
      BY <2>1, SlotType DEF Starts, Due
    <2>3. Starts(tr) \in BOOLEAN
      BY DEF Starts
    <2> HIDE DEF tr
    <2>4. [close |-> IF ClosesRun(it, first) THEN it.run ELSE 0,
           launch |-> Starts(tr),
           slot |-> IF Starts(tr) THEN Slot(tr) ELSE 0] \in Work
      BY <2>2, <2>3, SchedulerAssumption DEF Work, Item, Times
    <2>5. QED
      BY <2>4 DEF TickWork, tr
  <1>4. FireWork(it) \in Work
    <2>1. it.run \in 0..MaxSessions /\ 0 \in 0..MaxSessions /\ 0 \in Times
      BY SchedulerAssumption DEF Item, Times
    <2>2. (~Busy(Tracked(it, FALSE))) \in BOOLEAN
      OBVIOUS
    <2>3. QED
      BY <2>1, <2>2 DEF FireWork, Work
  <1>5. Fired(it) \in Item /\ Fired(it).anchor = it.anchor
    <2>1. /\ Tracked(it, FALSE) \in Item
          /\ Tracked(it, FALSE).anchor = it.anchor
      BY TrackedType
    <2>2. QED
      BY <2>1 DEF Fired, Item
  <1>6. QED
    BY <1>1, <1>2, <1>3, <1>4, <1>5

-----------------------------------------------------------------------------
(* Types.                                                                  *)

LEMMA StoredType ==
    ASSUME NEW its, DOMAIN its \subseteq Entries,
           \A e \in DOMAIN its : its[e] \in Item
    PROVE  /\ DOMAIN Stored(its) = DOMAIN its
           /\ \A e \in DOMAIN its : /\ Stored(its)[e] \in Item
                                   /\ ~Stored(its)[e].pending
                                   /\ Essence(Stored(its)[e]) = Essence(its[e])
  BY DEF Stored, Item, Essence

\* What a write of the entries leaves in the file.
LEMMA SavedType ==
    ASSUME EngineType, BoundType, DOMAIN items' \subseteq Entries,
           \A e \in DOMAIN items' : items'[e] \in Item, Saved(items')
    PROVE  /\ DOMAIN file' \subseteq Entries
           /\ \A e \in DOMAIN file' : file'[e] \in Item /\ ~file'[e].pending
           /\ unsaved' \in BOOLEAN /\ faults' \in 0..MaxFaults
  <1>1. CASE file' = Stored(items') /\ unsaved' = FALSE /\ UNCHANGED faults
    <2>1. /\ DOMAIN file' \subseteq Entries
          /\ \A e \in DOMAIN file' : file'[e] \in Item /\ ~file'[e].pending
      BY <1>1, StoredType
    <2>2. QED
      BY <1>1, <2>1 DEF BoundType
  <1>2. CASE /\ faults < MaxFaults /\ faults' = faults + 1
             /\ unsaved' = TRUE /\ UNCHANGED file
    <2>1. faults' \in 0..MaxFaults
      BY <1>2, SchedulerAssumption DEF BoundType
    <2>2. QED
      BY <1>2, <2>1 DEF EngineType
  <1>3. QED
    BY <1>1, <1>2 DEF Saved

\* What Init says of types.
LEMMA InitType == Init => TypeOK
  <1> SUFFICES ASSUME Init PROVE TypeOK
    OBVIOUS
  <1>1. NoWork \in Work /\ NothingToDo \in [Entries -> Work]
    BY SchedulerAssumption DEF NoWork, NothingToDo, Work, Times
  <1>2. EngineType
    <2>1. DOMAIN items = {} /\ DOMAIN file = {}
      BY DEF Init
    <2>2. now \in Times
      BY SchedulerAssumption DEF Init, Times
    <2>3. QED
      BY <2>1, <2>2 DEF Init, EngineType
  <1>3. DriverType /\ LockHeld
    BY <1>1, SchedulerAssumption DEF Init, DriverType, LockHeld, Drivers, None
  <1>4. SessionType /\ BoundType
    BY SchedulerAssumption DEF Init, SessionType, SessionState, BoundType, Entries, Times
  <1>5. QED
    BY <1>2, <1>3, <1>4 DEF TypeOK

LEMMA NewItemType ==
    ASSUME EngineType, NEW e \in Entries, NEW plan \in Plans
    PROVE  /\ NewItem(e, plan) \in Item
           /\ NewItem(e, plan).anchor = KeptAnchor(e, plan)
  <1>1. KeptAnchor(e, plan) \in Times
    BY DEF KeptAnchor, EngineType, Item
  <1>2. ASSUME NEW it \in Item, NEW a \in Times
        PROVE  /\ [it EXCEPT !.plan = plan, !.anchor = a] \in Item
               /\ [it EXCEPT !.plan = plan, !.anchor = a].anchor = a
    BY DEF Item
  <1>3. ASSUME NEW a \in Times
        PROVE  [plan |-> plan, anchor |-> a, pending |-> FALSE, run |-> 0,
                started |-> 0, seen |-> 0, paused |-> 0] \in Item
    BY SchedulerAssumption DEF Item, Times
  <1>4. CASE e \in DOMAIN items
    BY <1>1, <1>2, <1>4 DEF NewItem, EngineType
  <1>5. CASE e \notin DOMAIN items
    BY <1>1, <1>3, <1>5 DEF NewItem
  <1>6. QED
    BY <1>4, <1>5

LEMMA SetType ==
    ASSUME TypeOK, NEW e \in Entries, NEW plan \in Plans, Set(e, plan)
    PROVE  TypeOK'
  <1>1. NewItem(e, plan) \in Item
    BY NewItemType DEF TypeOK
  <1>2. \A x \in DOMAIN With(items, e, NewItem(e, plan)) :
            With(items, e, NewItem(e, plan))[x] \in Item
    BY <1>1 DEF With, TypeOK, EngineType
  <1>3. DOMAIN items' \subseteq Entries /\ \A x \in DOMAIN items' : items'[x] \in Item
    BY <1>2 DEF Set, With, TypeOK, EngineType
  <1>4. /\ DOMAIN file' \subseteq Entries
        /\ \A x \in DOMAIN file' : file'[x] \in Item /\ ~file'[x].pending
        /\ unsaved' \in BOOLEAN /\ faults' \in 0..MaxFaults
    <2>1. CASE file' = Stored(items') /\ unsaved' = FALSE /\ UNCHANGED faults
      <3>1. /\ DOMAIN file' \subseteq Entries
            /\ \A x \in DOMAIN file' : file'[x] \in Item /\ ~file'[x].pending
        BY <1>3, <2>1, StoredType
      <3>2. QED
        BY <2>1, <3>1 DEF TypeOK, BoundType
    <2>2. CASE UNCHANGED <<items, file, unsaved>>
      BY <2>2, SchedulerAssumption DEF Set, TypeOK, EngineType, BoundType
    <2>3. QED
      BY <2>1, <2>2 DEF Set
  <1>5. QED
    BY <1>3, <1>4
    DEF Set, TypeOK, EngineType, DriverType, SessionType, SessionState,
        BoundType, LockHeld, driverVars, sessionVars

LEMMA RemoveType ==
    ASSUME TypeOK, NEW e \in Entries, Remove(e)
    PROVE  TypeOK'
  <1>1. DOMAIN items' \subseteq Entries /\ \A x \in DOMAIN items' : items'[x] \in Item
    BY DEF Remove, TypeOK, EngineType
  <1>2. /\ DOMAIN file' \subseteq Entries
        /\ \A x \in DOMAIN file' : file'[x] \in Item /\ ~file'[x].pending
        /\ unsaved' \in BOOLEAN /\ faults' \in 0..MaxFaults
    BY <1>1, SavedType DEF Remove, TypeOK
  <1>3. QED
    BY <1>1, <1>2, SchedulerAssumption
    DEF Remove, TypeOK, EngineType, DriverType, SessionType, SessionState,
        BoundType, LockHeld, driverVars, sessionVars

LEMMA TickType ==
    ASSUME TypeOK, Tick
    PROVE  TypeOK'
  <1>1. now \in Times /\ (~booted) \in BOOLEAN /\ TickDriver \in Drivers
    BY SchedulerAssumption DEF TypeOK, EngineType, TickDriver, Drivers
  <1>2. /\ DOMAIN items' = DOMAIN items
        /\ \A x \in DOMAIN items' :
               items'[x] = Handled(Tracked(items[x], ~booted))
    BY DEF Tick
  <1>3. DOMAIN items' \subseteq Entries /\ \A x \in DOMAIN items' : items'[x] \in Item
    BY <1>1, <1>2, TrackedType, HandledType DEF TypeOK, EngineType
  <1>4. /\ DOMAIN file' \subseteq Entries
        /\ \A x \in DOMAIN file' : file'[x] \in Item /\ ~file'[x].pending
        /\ unsaved' \in BOOLEAN /\ faults' \in 0..MaxFaults
    <2>1. CASE Saved(items')
      BY <1>3, <2>1, SavedType DEF TypeOK
    <2>2. CASE NotSaved
      BY <2>2 DEF NotSaved, fileVars, TypeOK, EngineType, BoundType
    <2>3. QED
      BY <2>1, <2>2 DEF Tick
  <1>5. todo' \in [Drivers -> [Entries -> Work]]
    <2>1. [e \in Entries |-> IF e \in DOMAIN items
                             THEN TickWork(items[e], ~booted) ELSE NoWork]
              \in [Entries -> Work]
      <3>1. NoWork \in Work
        BY SchedulerAssumption DEF NoWork, Work, Times
      <3>2. QED
        BY <1>1, <3>1, WorkTypes DEF TypeOK, EngineType
    <2>2. QED
      BY <1>1, <2>1 DEF Tick, TypeOK, DriverType
  <1>6. QED
    BY <1>3, <1>4, <1>5
    DEF Tick, TypeOK, EngineType, DriverType, SessionType, SessionState,
        BoundType, LockHeld, sessionVars

LEMMA FireType ==
    ASSUME TypeOK, NEW d \in Drivers, NEW e \in Entries, Fire(d, e)
    PROVE  TypeOK'
  <1>1. now \in Times /\ e \in DOMAIN items /\ items[e] \in Item
    BY DEF TypeOK, EngineType, Fire
  <1>2. FireWork(items[e]) \in Work /\ Fired(items[e]) \in Item
    BY <1>1, WorkTypes
  <1>3. DOMAIN items' \subseteq Entries /\ \A x \in DOMAIN items' : items'[x] \in Item
    BY <1>2 DEF Fire, TypeOK, EngineType
  <1>4. /\ DOMAIN file' \subseteq Entries
        /\ \A x \in DOMAIN file' : file'[x] \in Item /\ ~file'[x].pending
        /\ unsaved' \in BOOLEAN /\ faults' \in 0..MaxFaults
    BY <1>3, SavedType DEF Fire, TypeOK
  <1>5. todo' \in [Drivers -> [Entries -> Work]]
    BY <1>2 DEF Fire, TypeOK, DriverType
  <1>6. QED
    BY <1>3, <1>4, <1>5
    DEF Fire, TypeOK, EngineType, DriverType, SessionType, SessionState,
        BoundType, LockHeld, sessionVars

LEMMA ClosesType ==
    ASSUME TypeOK, NEW x, Closes(x)
    PROVE  st' \in [Sessions -> SessionState]
  BY DEF Closes, TypeOK, SessionType, SessionState

LEMMA CloseRunType ==
    ASSUME TypeOK, NEW d \in Drivers, NEW e \in Entries, CloseRun(d, e)
    PROVE  TypeOK'
  <1>1. ASSUME NEW w \in Work
        PROVE  [w EXCEPT !.close = 0] \in Work
    BY SchedulerAssumption DEF Work
  <1>2. [todo[d][e] EXCEPT !.close = 0] \in Work
    BY <1>1 DEF TypeOK, DriverType
  <1>3. todo' \in [Drivers -> [Entries -> Work]]
    BY <1>2 DEF CloseRun, TypeOK, DriverType
  <1>4. st' \in [Sessions -> SessionState]
    BY ClosesType DEF CloseRun
  <1>5. QED
    BY <1>3, <1>4
    DEF CloseRun, TypeOK, EngineType, DriverType, SessionType, BoundType,
        LockHeld, engineVars, fileVars

LEMMA CloseUntrackedType ==
    ASSUME TypeOK, NEW d \in Drivers, NEW s \in Sessions, CloseUntracked(d, s)
    PROVE  TypeOK'
  <1>1. ends' \in [Drivers -> SUBSET Sessions]
    BY DEF CloseUntracked, TypeOK, DriverType
  <1>2. st' \in [Sessions -> SessionState]
    BY ClosesType DEF CloseUntracked
  <1>3. QED
    BY <1>1, <1>2
    DEF CloseUntracked, TypeOK, EngineType, DriverType, SessionType,
        BoundType, LockHeld, engineVars, fileVars

LEMMA CreateBeginsType ==
    ASSUME TypeOK, NEW d \in Drivers, NEW e \in Entries, CreateBegins(d, e)
    PROVE  TypeOK'
  <1>1. UNCHANGED <<now, engineVars, fileVars, todo, ends, sessionVars,
                    daemon, restarts, removes, cut>>
    BY DEF CreateBegins
  <1>2. None \notin Drivers
    BY SchedulerAssumption DEF None, Drivers
  <1>3. CASE daemon = "stopping" /\ at' = [at EXCEPT ![d] = "report"]
             /\ UNCHANGED <<made, keyLock>>
    <2>1. DriverType' /\ LockHeld'
      BY <1>1, <1>2, <1>3 DEF CreateBegins, TypeOK, DriverType, LockHeld
    <2>2. QED
      BY <1>1, <2>1 DEF TypeOK, EngineType, SessionType, BoundType,
         engineVars, fileVars, sessionVars
  <1>4. CASE /\ \E s \in ByKey(<<e, todo[d][e].slot>>) :
                    made' = [made EXCEPT ![d] = s]
             /\ at' = [at EXCEPT ![d] = "report"] /\ UNCHANGED keyLock
    <2>1. PICK s \in Sessions : made' = [made EXCEPT ![d] = s]
      BY <1>4 DEF ByKey, Known
    <2>2. DriverType' /\ LockHeld'
      BY <1>1, <1>2, <1>4, <2>1, SchedulerAssumption
      DEF CreateBegins, TypeOK, DriverType, LockHeld, Sessions
    <2>3. QED
      BY <1>1, <2>2 DEF TypeOK, EngineType, SessionType, BoundType,
         engineVars, fileVars, sessionVars
  <1>5. CASE at' = [at EXCEPT ![d] = "making"] /\ keyLock' = d /\ UNCHANGED made
    <2>1. DriverType' /\ LockHeld'
      BY <1>1, <1>2, <1>5 DEF CreateBegins, TypeOK, DriverType, LockHeld
    <2>2. QED
      BY <1>1, <2>1 DEF TypeOK, EngineType, SessionType, BoundType,
         engineVars, fileVars, sessionVars
  <1>6. QED
    BY <1>3, <1>4, <1>5 DEF CreateBegins

LEMMA CreateRegistersType ==
    ASSUME TypeOK, NEW d \in Drivers, NEW e \in Entries, CreateRegisters(d, e)
    PROVE  TypeOK'
  <1>1. PICK s \in Sessions :
            /\ st' = [st EXCEPT ![s] = "up"]
            /\ key' = [key EXCEPT ![s] = <<e, todo[d][e].slot>>]
            /\ made' = [made EXCEPT ![d] = s]
    BY DEF CreateRegisters
  <1>2. todo[d][e].slot \in Times
    BY DEF TypeOK, DriverType, Work
  <1>3. SessionType'
    BY <1>1, <1>2 DEF CreateRegisters, TypeOK, SessionType, SessionState
  <1>4. DriverType' /\ LockHeld'
    BY <1>1, SchedulerAssumption
    DEF CreateRegisters, TypeOK, DriverType, LockHeld, Sessions
  <1>5. QED
    BY <1>3, <1>4 DEF CreateRegisters, TypeOK, EngineType, BoundType,
       engineVars, fileVars

LEMMA CreateEndsType ==
    ASSUME TypeOK, NEW d \in Drivers, CreateFails(d) \/ CreateDone(d)
    PROVE  TypeOK'
  <1>1. None \notin Drivers
    BY SchedulerAssumption DEF None, Drivers
  <1>2. CASE CreateFails(d)
    <2>1. DriverType' /\ LockHeld'
      BY <1>1, <1>2, SchedulerAssumption
      DEF CreateFails, TypeOK, DriverType, LockHeld
    <2>2. SessionType'
      BY <1>2 DEF CreateFails, TypeOK, SessionType, SessionState
    <2>3. QED
      BY <1>2, <2>1, <2>2 DEF CreateFails, TypeOK, EngineType, BoundType,
         engineVars, fileVars
  <1>3. CASE CreateDone(d)
    <2>1. DriverType' /\ LockHeld'
      BY <1>1, <1>3 DEF CreateDone, TypeOK, DriverType, LockHeld
    <2>2. QED
      BY <1>3, <2>1 DEF CreateDone, TypeOK, EngineType, SessionType, BoundType,
         engineVars, fileVars
  <1>4. QED
    BY <1>2, <1>3

LEMMA ReportedType ==
    ASSUME NEW it \in Item, NEW s \in 0..MaxSessions, now \in Times
    PROVE  /\ Reported(it, s) \in Item
           /\ Reported(it, s).anchor = it.anchor
  BY SchedulerAssumption DEF Reported, Item, Times

LEMMA LaunchedType ==
    ASSUME TypeOK, NEW d \in Drivers, NEW e \in Entries, Launched(d, e)
    PROVE  TypeOK'
  <1>1. made[d] \in 0..MaxSessions /\ NoWork \in Work
    BY SchedulerAssumption DEF TypeOK, DriverType, NoWork, Work, Times
  <1>2. /\ DOMAIN items' \subseteq Entries
        /\ \A x \in DOMAIN items' : items'[x] \in Item
        /\ ends' \in [Drivers -> SUBSET Sessions]
    <2>1. CASE e \in DOMAIN items
      <3>1. Reported(items[e], made[d]) \in Item
        BY <1>1, <2>1, ReportedType DEF TypeOK, EngineType
      <3>2. QED
        BY <2>1, <3>1 DEF Launched, TypeOK, EngineType, DriverType
    <2>2. CASE e \notin DOMAIN items
      BY <1>1, <2>2, SchedulerAssumption
      DEF Launched, TypeOK, EngineType, DriverType, Sessions
    <2>3. QED
      BY <2>1, <2>2
  <1>3. /\ DOMAIN file' \subseteq Entries
        /\ \A x \in DOMAIN file' : file'[x] \in Item /\ ~file'[x].pending
        /\ unsaved' \in BOOLEAN /\ faults' \in 0..MaxFaults
    BY <1>2, SavedType DEF Launched, TypeOK
  <1>4. /\ todo' \in [Drivers -> [Entries -> Work]]
        /\ made' \in [Drivers -> 0..MaxSessions]
    BY <1>1, SchedulerAssumption DEF Launched, TypeOK, DriverType
  <1>5. /\ at' \in [Drivers -> {"next", "making", "made", "report"}]
        /\ LockHeld'
    BY <1>1 DEF Launched, TypeOK, DriverType, LockHeld
  <1>6. DriverType'
    BY <1>2, <1>4, <1>5 DEF Launched, TypeOK, DriverType
  <1>7. QED
    BY <1>2, <1>3, <1>5, <1>6
    DEF Launched, TypeOK, EngineType, SessionType, BoundType, sessionVars

LEMMA SessionStepType ==
    ASSUME TypeOK, NEW s \in Sessions, SessionEnds(s) \/ Ask(s) \/ Forget(s)
    PROVE  TypeOK'
  <1> USE DEF TypeOK, EngineType, DriverType, SessionType, SessionState,
          BoundType, LockHeld, engineVars, fileVars, driverVars, sessionVars
  <1>1. CASE SessionEnds(s)
    BY <1>1 DEF SessionEnds
  <1>2. CASE Ask(s)
    BY <1>2 DEF Ask
  <1>3. CASE Forget(s)
    BY <1>3 DEF Forget
  <1>4. QED
    BY <1>1, <1>2, <1>3

LEMMA DaemonStepType ==
    ASSUME TypeOK, Pass \/ RequestStop \/ Start
    PROVE  TypeOK'
  <1> USE DEF TypeOK, EngineType, DriverType, SessionType, SessionState,
          BoundType, LockHeld, engineVars, fileVars, driverVars, sessionVars
  <1>1. CASE Pass
    <2>1. now' \in Times
      BY <1>1, SchedulerAssumption DEF Pass, Times
    <2>2. QED
      BY <1>1, <2>1 DEF Pass
  <1>2. CASE RequestStop
    BY <1>2 DEF RequestStop
  <1>3. CASE Start
    BY <1>3 DEF Start
  <1>4. QED
    BY <1>1, <1>2, <1>3

LEMMA StopType ==
    ASSUME TypeOK, Stop
    PROVE  TypeOK'
  <1>1. NoWork \in Work /\ NothingToDo \in [Entries -> Work] /\ None \notin Drivers
    BY SchedulerAssumption
    DEF NoWork, NothingToDo, Work, Times, None, Drivers
  <1>2. EngineType'
    BY DEF Stop, TypeOK, EngineType
  <1>3. DriverType' /\ LockHeld'
    BY <1>1, SchedulerAssumption DEF Stop, DriverType, LockHeld
  <1>4. SessionType'
    BY DEF Stop, TypeOK, SessionType, SessionState
  <1>5. BoundType'
    BY SchedulerAssumption DEF Stop, TypeOK, BoundType
  <1>6. QED
    BY <1>2, <1>3, <1>4, <1>5 DEF TypeOK

\* The parts of the scheduler keep their types, and the lock of the keyed
\* create is held by the driver that creates, for any number of entries,
\* sessions and requests.
THEOREM TypeCorrect == Spec => []TypeOK
  <1>1. Init => TypeOK
    BY InitType
  <1>2. TypeOK /\ [Next]_vars => TypeOK'
    <2> SUFFICES ASSUME TypeOK, [Next]_vars
                 PROVE  TypeOK'
      OBVIOUS
    <2>1. CASE \E e \in Entries, plan \in Plans : Set(e, plan)
      BY <2>1, SetType
    <2>2. CASE \E e \in Entries : Remove(e)
      BY <2>2, RemoveType
    <2>3. CASE Tick
      BY <2>3, TickType
    <2>4. CASE \E d \in Drivers, e \in Entries : Fire(d, e)
      BY <2>4, FireType
    <2>5. ASSUME NEW d \in Drivers, DriverStep(d)
          PROVE  TypeOK'
      <3>1. CASE \E e \in Entries : CloseRun(d, e)
        BY <3>1, CloseRunType
      <3>2. CASE \E e \in Entries : CreateBegins(d, e)
        BY <3>2, CreateBeginsType
      <3>3. CASE \E e \in Entries : CreateRegisters(d, e)
        BY <3>3, CreateRegistersType
      <3>4. CASE \E e \in Entries : Launched(d, e)
        BY <3>4, LaunchedType
      <3>5. CASE \E s \in Sessions : CloseUntracked(d, s)
        BY <3>5, CloseUntrackedType
      <3>6. CASE CreateFails(d) \/ CreateDone(d)
        BY <3>6, CreateEndsType
      <3>7. QED
        BY <2>5, <3>1, <3>2, <3>3, <3>4, <3>5, <3>6 DEF DriverStep
    <2>6. CASE \E s \in Sessions : SessionEnds(s) \/ Ask(s) \/ Forget(s)
      BY <2>6, SessionStepType
    <2>7. CASE Pass \/ RequestStop \/ Start
      BY <2>7, DaemonStepType
    <2>8. CASE Stop
      BY <2>8, StopType
    <2>9. CASE UNCHANGED vars
      BY <2>9 DEF vars, engineVars, fileVars, driverVars, sessionVars, TypeOK,
         EngineType, DriverType, SessionType, SessionState, BoundType, LockHeld
    <2>10. QED
      BY <2>1, <2>2, <2>3, <2>4, <2>5, <2>6, <2>7, <2>8, <2>9 DEF Next
  <1>3. QED
    BY <1>1, <1>2, PTL DEF Spec

-----------------------------------------------------------------------------
(* A slot has one session.                                                 *)

\* The entry whose launch driver d has in hand.
First(d, e) == HasWork(d, e) /\ \A x \in Entries : HasWork(d, x) => e <= x

\* While a session is being prepared, no known session has its key: the one
\* look at the keys stays true because the lock keeps other creates out.
MakingKeyFree ==
    \A d \in Drivers, e \in Entries :
        at[d] = "making" /\ First(d, e)
            => \A s \in Known : key[s] # <<e, todo[d][e].slot>>

SlotInv == OnePerSlot /\ MakingKeyFree

\* A step after which no session is known that was not, and that does not
\* touch the launches in hand, keeps the invariant.
LEMMA SlotInvKept ==
    ASSUME TypeOK, SlotInv, key' = key,
           \A s \in Sessions : st'[s] \in {"up", "closing", "ended"}
                                => st[s] \in {"up", "closing", "ended"},
           \A d \in Drivers : at'[d] = "making"
                                => at[d] = "making" /\ todo'[d] = todo[d]
    PROVE  SlotInv'
  <1>1. Known' \subseteq Known
    BY DEF Known
  <1>2. OnePerSlot'
    BY <1>1 DEF SlotInv, OnePerSlot
  <1>3. MakingKeyFree'
    BY <1>1 DEF SlotInv, MakingKeyFree, First, HasWork
  <1>4. QED
    BY <1>2, <1>3 DEF SlotInv

LEMMA SlotInvClientStep ==
    ASSUME TypeOK, SlotInv, NEW e \in Entries,
           \/ \E plan \in Plans : Set(e, plan)
           \/ Remove(e)
           \/ Tick
           \/ \E d \in Drivers : Fire(d, e)
    PROVE  SlotInv'
  <1>1. CASE (\E plan \in Plans : Set(e, plan)) \/ Remove(e)
    BY <1>1, SlotInvKept DEF Set, Remove, driverVars, sessionVars
  <1>2. CASE Tick
    <2>1. \A d \in Drivers : at[d] = "making" => todo'[d] = todo[d]
      BY <1>2 DEF Tick, Idle, TypeOK, DriverType
    <2>2. QED
      BY <1>2, <2>1, SlotInvKept DEF Tick, sessionVars
  <1>3. ASSUME NEW d \in Drivers, Fire(d, e)
        PROVE  SlotInv'
    <2>1. \A x \in Drivers : at[x] = "making" => todo'[x] = todo[x]
      BY <1>3 DEF Fire, Idle, TypeOK, DriverType
    <2>2. QED
      BY <1>3, <2>1, SlotInvKept DEF Fire, sessionVars
  <1>4. QED
    BY <1>1, <1>2, <1>3

LEMMA SlotInvCreateBegins ==
    ASSUME TypeOK, SlotInv, NEW d \in Drivers, NEW e \in Entries,
           CreateBegins(d, e)
    PROVE  SlotInv'
  <1>1. UNCHANGED <<todo, st, key>>
    BY DEF CreateBegins, sessionVars
  <1>2. CASE at' = [at EXCEPT ![d] = "report"]
    <2>1. \A x \in Drivers : at'[x] = "making" => at[x] = "making"
      BY <1>2 DEF TypeOK, DriverType
    <2>2. QED
      BY <1>1, <2>1, SlotInvKept
  <1>3. CASE /\ ByKey(<<e, todo[d][e].slot>>) = {}
             /\ at' = [at EXCEPT ![d] = "making"]
    <2>1. Known' = Known
      BY <1>1 DEF Known
    <2>2. \A s \in Known : key[s] # <<e, todo[d][e].slot>>
      BY <1>3 DEF ByKey
    <2>3. First(d, e)
      BY DEF CreateBegins, Turn, First
    <2>4. ASSUME NEW x \in Entries, First(d, x)
          PROVE  x = e
      BY <2>3, <2>4, SchedulerAssumption DEF First, Entries
    <2>5. ASSUME NEW y \in Drivers, NEW x \in Entries,
                 at'[y] = "making", First(y, x)'
          PROVE  \A s \in Known' : key'[s] # <<x, todo'[y][x].slot>>
      <3>1. First(y, x)
        BY <1>1, <2>5 DEF First, HasWork
      <3>2. CASE y = d
        BY <1>1, <2>1, <2>2, <2>4, <3>1, <3>2
      <3>3. CASE y # d
        <4>1. at[y] = "making"
          BY <1>3, <2>5, <3>3 DEF TypeOK, DriverType
        <4>2. QED
          BY <1>1, <2>1, <3>1, <4>1 DEF SlotInv, MakingKeyFree
      <3>4. QED
        BY <3>2, <3>3
    <2>6. MakingKeyFree'
      BY <2>5 DEF MakingKeyFree
    <2>7. OnePerSlot'
      BY <1>1, <2>1 DEF SlotInv, OnePerSlot
    <2>8. QED
      BY <2>6, <2>7 DEF SlotInv
  <1>4. QED
    BY <1>2, <1>3 DEF CreateBegins

LEMMA SlotInvCreateRegisters ==
    ASSUME TypeOK, SlotInv, NEW d \in Drivers, NEW e \in Entries,
           CreateRegisters(d, e)
    PROVE  SlotInv'
  <1>1. PICK n \in Sessions :
            /\ st[n] = "none" /\ st' = [st EXCEPT ![n] = "up"]
            /\ key' = [key EXCEPT ![n] = <<e, todo[d][e].slot>>]
    BY DEF CreateRegisters
  <1>2. at[d] = "making" /\ First(d, e) /\ at' = [at EXCEPT ![d] = "made"]
    BY DEF CreateRegisters, Turn, First
  <1>3. \A s \in Known : key[s] # <<e, todo[d][e].slot>>
    BY <1>2 DEF SlotInv, MakingKeyFree
  <1>4. Known' = Known \cup {n} /\ n \notin Known
    BY <1>1 DEF Known, TypeOK, SessionType
  <1>5. /\ key'[n] = <<e, todo[d][e].slot>>
        /\ \A s \in Known : key'[s] = key[s]
    BY <1>1, <1>4 DEF Known, TypeOK, SessionType
  <1>6. OnePerSlot'
    BY <1>3, <1>4, <1>5 DEF SlotInv, OnePerSlot
  <1>7. \A x \in Drivers : at'[x] # "making"
    BY <1>2 DEF TypeOK, DriverType, LockHeld
  <1>8. QED
    BY <1>6, <1>7 DEF SlotInv, MakingKeyFree

LEMMA SlotInvDriverStep ==
    ASSUME TypeOK, SlotInv, NEW d \in Drivers, DriverStep(d)
    PROVE  SlotInv'
  <1>1. ASSUME NEW x, Closes(x)
        PROVE  \A s \in Sessions : st'[s] \in {"up", "closing", "ended"}
                                 => st[s] \in {"up", "closing", "ended"}
    BY <1>1 DEF Closes, TypeOK, SessionType
  <1>2. ASSUME NEW e \in Entries, CloseRun(d, e)
        PROVE  SlotInv'
    <2>1. \A x \in Drivers : at[x] = "making" => todo'[x] = todo[x]
      BY <1>2 DEF CloseRun, TypeOK, DriverType
    <2>2. QED
      BY <1>1, <1>2, <2>1, SlotInvKept DEF CloseRun
  <1>3. ASSUME NEW s \in Sessions, CloseUntracked(d, s)
        PROVE  SlotInv'
    BY <1>1, <1>3, SlotInvKept DEF CloseUntracked
  <1>4. ASSUME NEW e \in Entries, Launched(d, e)
        PROVE  SlotInv'
    <2>1. \A x \in Drivers : at'[x] = "making"
                => at[x] = "making" /\ todo'[x] = todo[x]
      BY <1>4 DEF Launched, TypeOK, DriverType
    <2>2. QED
      BY <1>4, <2>1, SlotInvKept DEF Launched, sessionVars
  <1>5. CASE CreateFails(d)
    <2>1. \A x \in Drivers : at'[x] = "making" => at[x] = "making"
      BY <1>5 DEF CreateFails, TypeOK, DriverType
    <2>2. \A s \in Sessions : st'[s] \in {"up", "closing", "ended"}
                           => st[s] \in {"up", "closing", "ended"}
      BY <1>5 DEF CreateFails, TypeOK, SessionType
    <2>3. QED
      BY <1>5, <2>1, <2>2, SlotInvKept DEF CreateFails
  <1>6. CASE CreateDone(d)
    <2>1. \A x \in Drivers : at'[x] = "making" => at[x] = "making"
      BY <1>6 DEF CreateDone, TypeOK, DriverType
    <2>2. QED
      BY <1>6, <2>1, SlotInvKept DEF CreateDone
  <1>7. QED
    BY <1>2, <1>3, <1>4, <1>5, <1>6, SlotInvCreateBegins,
       SlotInvCreateRegisters DEF DriverStep

LEMMA SlotInvWorldStep ==
    ASSUME TypeOK, SlotInv,
           \/ \E s \in Sessions : SessionEnds(s) \/ Ask(s) \/ Forget(s)
           \/ Pass \/ RequestStop \/ Stop \/ Start
    PROVE  SlotInv'
  <1>1. ASSUME NEW s \in Sessions, SessionEnds(s) \/ Ask(s) \/ Forget(s)
        PROVE  SlotInv'
    <2>1. UNCHANGED <<at, todo, key>>
      BY <1>1 DEF SessionEnds, Ask, Forget, driverVars
    <2>2. \A x \in Sessions : st'[x] \in {"up", "closing", "ended"}
                           => st[x] \in {"up", "closing", "ended"}
      BY <1>1 DEF SessionEnds, Ask, Forget, Alive, TypeOK, SessionType
    <2>3. QED
      BY <2>1, <2>2, SlotInvKept
  <1>2. CASE Pass \/ RequestStop \/ Start
    BY <1>2, SlotInvKept DEF Pass, RequestStop, Start, driverVars, sessionVars
  <1>3. CASE Stop
    <2>1. \A d \in Drivers : at'[d] # "making"
      BY <1>3 DEF Stop
    <2>2. \A x \in Sessions : st'[x] \in {"up", "closing", "ended"}
                           => st[x] \in {"up", "closing", "ended"}
      BY <1>3 DEF Stop, TypeOK, SessionType
    <2>3. key' = key
      BY <1>3 DEF Stop
    <2>4. QED
      BY <2>1, <2>2, <2>3, SlotInvKept
  <1>4. QED
    BY <1>1, <1>2, <1>3

\* For any number of entries, sessions, requests and restarts: the daemon
\* never has records of two sessions for one slot of an entry.
THEOREM SlotsRunOnce == Spec => []OnePerSlot
  <1>1. Init => SlotInv
    BY DEF Init, SlotInv, OnePerSlot, MakingKeyFree, Known
  <1>2. TypeOK /\ SlotInv /\ [Next]_vars => SlotInv'
    <2> SUFFICES ASSUME TypeOK, SlotInv, [Next]_vars
                 PROVE  SlotInv'
      OBVIOUS
    <2>1. CASE UNCHANGED vars
      BY <2>1, SlotInvKept DEF vars, driverVars, sessionVars
    <2>2. CASE Tick
      <3>1. 1 \in Entries
        BY SchedulerAssumption DEF Entries
      <3>2. QED
        BY <2>2, <3>1, SlotInvClientStep
    <2>3. QED
      BY <2>1, <2>2, SlotInvClientStep, SlotInvDriverStep, SlotInvWorldStep
      DEF Next
  <1>3. SlotInv => OnePerSlot
    BY DEF SlotInv
  <1>4. QED
    BY <1>1, <1>2, <1>3, TypeCorrect, PTL DEF Spec

-----------------------------------------------------------------------------
(* The file, and the last handled slot of an entry.                        *)

\* A call that saves leaves a current file, or a save that failed.
LEMMA SavedIsCurrent ==
    ASSUME EngineType', Saved(items')
    PROVE  FileIsCurrent'
  <1>1. CASE file' = Stored(items')
    BY <1>1, StoredType DEF EngineType, FileIsCurrent
  <1>2. CASE unsaved' = TRUE
    BY <1>2 DEF FileIsCurrent
  <1>3. QED
    BY <1>1, <1>2 DEF Saved

\* What a tick does not report as changed is what the file has.
LEMMA CleanEntry ==
    ASSUME NEW it \in Item, NEW first \in BOOLEAN, now \in Times,
           ~Dirty(it, first)
    PROVE  Essence(Handled(Tracked(it, first))) = Essence(it)
  <1> DEFINE tr == Tracked(it, first)
  <1>1. ~Settles(it, first) /\ ~Due(tr)
    BY DEF Dirty
  <1>2. Handled(tr) = tr
    BY <1>1, TrackedType, HandledType
  <1>3. tr = [it EXCEPT !.seen = now, !.paused = PausedNow(it)] \/ tr = it
    BY <1>1 DEF Tracked
  <1>4. Essence(tr) = Essence(it)
    BY <1>3 DEF Essence, Item
  <1>5. QED
    BY <1>2, <1>4

\* The essence of an entry has its anchor.
LEMMA EssenceAnchor ==
    ASSUME NEW a, NEW b, Essence(a) = Essence(b)
    PROVE  a.anchor = b.anchor
  BY DEF Essence

LEMMA EssenceRun ==
    ASSUME NEW a, NEW b, Essence(a) = Essence(b)
    PROVE  a.run = b.run
  BY DEF Essence

LEMMA FileInvStep ==
    ASSUME TypeOK, TypeOK', FileIsCurrent, [Next]_vars
    PROVE  FileIsCurrent'
  <1> USE DEF TypeOK
  <1>1. ASSUME UNCHANGED <<items, file, unsaved>>
        PROVE  FileIsCurrent'
    BY <1>1 DEF FileIsCurrent
  <1>2. ASSUME NEW e \in Entries, NEW plan \in Plans, Set(e, plan)
        PROVE  FileIsCurrent'
    <2>1. CASE file' = Stored(items')
      BY <2>1, StoredType DEF EngineType, FileIsCurrent
    <2>2. QED
      BY <1>1, <1>2, <2>1 DEF Set
  <1>3. ASSUME NEW e \in Entries, Remove(e)
        PROVE  FileIsCurrent'
    BY <1>3, SavedIsCurrent DEF Remove
  <1>4. CASE Tick
    <2>1. CASE \E e \in DOMAIN items : Dirty(items[e], ~booted)
      BY <1>4, <2>1, SavedIsCurrent DEF Tick
    <2>2. CASE \A e \in DOMAIN items : ~Dirty(items[e], ~booted)
      <3>1. UNCHANGED <<file, unsaved>> /\ DOMAIN items' = DOMAIN items
        BY <1>4, <2>2 DEF Tick, NotSaved, fileVars
      <3>2. ASSUME NEW e \in DOMAIN items
            PROVE  Essence(items'[e]) = Essence(items[e])
        <4>1. items'[e] = Handled(Tracked(items[e], ~booted))
          BY <1>4 DEF Tick
        <4>2. items[e] \in Item /\ (~booted) \in BOOLEAN /\ now \in Times
          BY DEF EngineType
        <4>3. QED
          BY <2>2, <4>1, <4>2, CleanEntry
      <3>3. QED
        BY <3>1, <3>2 DEF FileIsCurrent
    <2>3. QED
      BY <2>1, <2>2
  <1>5. ASSUME NEW d \in Drivers, NEW e \in Entries, Fire(d, e)
        PROVE  FileIsCurrent'
    BY <1>5, SavedIsCurrent DEF Fire
  <1>6. ASSUME NEW d \in Drivers, DriverStep(d)
        PROVE  FileIsCurrent'
    <2>1. ASSUME NEW e \in Entries, Launched(d, e)
          PROVE  FileIsCurrent'
      BY <2>1, SavedIsCurrent DEF Launched
    <2>2. ASSUME NEW e \in Entries,
                 CloseRun(d, e) \/ CreateBegins(d, e) \/ CreateRegisters(d, e)
          PROVE  FileIsCurrent'
      BY <1>1, <2>2 DEF CloseRun, CreateBegins, CreateRegisters, engineVars, fileVars
    <2>3. ASSUME NEW s \in Sessions, CloseUntracked(d, s)
          PROVE  FileIsCurrent'
      BY <1>1, <2>3 DEF CloseUntracked, engineVars, fileVars
    <2>4. CASE CreateFails(d) \/ CreateDone(d)
      BY <1>1, <2>4 DEF CreateFails, CreateDone, engineVars, fileVars
    <2>5. QED
      BY <1>6, <2>1, <2>2, <2>3, <2>4 DEF DriverStep
  <1>7. CASE (\E s \in Sessions : SessionEnds(s) \/ Ask(s) \/ Forget(s))
             \/ Pass \/ RequestStop \/ Start
    BY <1>1, <1>7 DEF SessionEnds, Ask, Forget, Pass, RequestStop, Start,
       engineVars, fileVars
  <1>8. CASE Stop
    BY <1>8 DEF Stop, FileIsCurrent
  <1>9. CASE UNCHANGED vars
    BY <1>1, <1>9 DEF vars, engineVars, fileVars
  <1>10. QED
    BY <1>2, <1>3, <1>4, <1>5, <1>6, <1>7, <1>8, <1>9 DEF Next

\* Whatever the calls change of an entry is in the file after them, unless
\* the last save failed: a tick that saves nothing changed nothing.
THEOREM FileStaysCurrent == Spec => []FileIsCurrent
  <1>1. Init => FileIsCurrent
    BY DEF Init, FileIsCurrent
  <1>2. TypeOK /\ TypeOK' /\ FileIsCurrent /\ [Next]_vars => FileIsCurrent'
    BY FileInvStep
  <1>3. QED
    BY <1>1, <1>2, TypeCorrect, PTL DEF Spec

\* No slot is handled before it has come, in memory or in the file.
AnchorsPast ==
    /\ \A e \in DOMAIN items : items[e].anchor <= now
    /\ \A e \in DOMAIN file : file[e].anchor <= now

AnchorStep ==
    \A e \in DOMAIN items \cap DOMAIN items' :
        items'[e].anchor >= items[e].anchor \/ unsaved

\* A save keeps the handled slots.
LEMMA SavedAnchors ==
    ASSUME EngineType', Saved(items'), AnchorsPast, now' = now,
           \A e \in DOMAIN items' : items'[e].anchor <= now
    PROVE  AnchorsPast'
  <1>1. CASE file' = Stored(items')
    <2>1. \A e \in DOMAIN file' : /\ e \in DOMAIN items'
                                 /\ file'[e].anchor = items'[e].anchor
      BY <1>1, StoredType, EssenceAnchor DEF EngineType
    <2>2. QED
      BY <2>1 DEF AnchorsPast
  <1>2. CASE file' = file
    BY <1>2 DEF AnchorsPast
  <1>3. QED
    BY <1>1, <1>2 DEF Saved

\* The anchors of a type-correct engine are numbers.
LEMMA AnchorNumbers ==
    ASSUME EngineType
    PROVE  /\ now \in Nat
           /\ \A e \in DOMAIN items : items[e].anchor \in Nat
           /\ \A e \in DOMAIN file : file[e].anchor \in Nat
  BY SchedulerAssumption DEF EngineType, Item, Times

\* A step that leaves the entries and the file alone, while time may pass.
LEMMA AnchorsLeftAlone ==
    ASSUME TypeOK, AnchorsPast, UNCHANGED <<items, file>>,
           now' = now \/ now' = now + 1
    PROVE  AnchorsPast' /\ AnchorStep
  BY AnchorNumbers DEF TypeOK, AnchorsPast, AnchorStep

LEMMA AnchorsClientStep ==
    ASSUME TypeOK, TypeOK', AnchorsPast, NEW e \in Entries,
           \/ \E plan \in Plans : Set(e, plan)
           \/ Remove(e)
           \/ \E d \in Drivers : Fire(d, e)
           \/ \E d \in Drivers : Launched(d, e)
    PROVE  AnchorsPast' /\ AnchorStep
  <1> USE AnchorNumbers DEF TypeOK
  <1>1. ASSUME NEW plan \in Plans, Set(e, plan)
        PROVE  AnchorsPast' /\ AnchorStep
    <2>1. CASE /\ items' = With(items, e, NewItem(e, plan))
               /\ file' = Stored(items')
      <3>1. /\ KeptAnchor(e, plan) <= now
            /\ e \in DOMAIN items => KeptAnchor(e, plan) >= items[e].anchor
        BY DEF KeptAnchor, AnchorsPast
      <3>2. NewItem(e, plan).anchor = KeptAnchor(e, plan)
        BY NewItemType
      <3>3. \A x \in DOMAIN items' :
                \/ x = e /\ items'[x] = NewItem(e, plan)
                \/ x \in DOMAIN items /\ items'[x] = items[x]
        BY <2>1 DEF With
      <3>4. \A x \in DOMAIN items' : items'[x].anchor <= now
        BY <3>1, <3>2, <3>3 DEF AnchorsPast
      <3>5. \A x \in DOMAIN items \cap DOMAIN items' :
                items'[x].anchor >= items[x].anchor
        BY <3>1, <3>2, <3>3
      <3>6. \A x \in DOMAIN file' : /\ x \in DOMAIN items'
                                   /\ file'[x].anchor = items'[x].anchor
        BY <2>1, StoredType, EssenceAnchor DEF EngineType
      <3>7. now' = now
        BY <1>1 DEF Set
      <3>8. QED
        BY <3>4, <3>5, <3>6, <3>7 DEF AnchorsPast, AnchorStep
    <2>2. CASE UNCHANGED <<items, file>>
      BY <1>1, <2>2, AnchorsLeftAlone DEF Set
    <2>3. QED
      BY <1>1, <2>1, <2>2 DEF Set
  <1>2. CASE Remove(e)
    <2>1. \A x \in DOMAIN items' : x \in DOMAIN items /\ items'[x] = items[x]
      BY <1>2 DEF Remove
    <2>2. AnchorsPast'
      BY <1>2, <2>1, SavedAnchors DEF Remove, AnchorsPast
    <2>3. QED
      BY <2>1, <2>2 DEF AnchorStep
  <1>3. ASSUME NEW d \in Drivers, Fire(d, e)
        PROVE  AnchorsPast' /\ AnchorStep
    <2>1. e \in DOMAIN items /\ Fired(items[e]).anchor = items[e].anchor
      BY <1>3, WorkTypes DEF Fire, EngineType
    <2>2. \A x \in DOMAIN items' : /\ x \in DOMAIN items
                                  /\ items'[x].anchor = items[x].anchor
      BY <1>3, <2>1 DEF Fire
    <2>3. AnchorsPast'
      BY <1>3, <2>2, SavedAnchors DEF Fire, AnchorsPast
    <2>4. QED
      BY <2>2, <2>3 DEF AnchorStep
  <1>4. ASSUME NEW d \in Drivers, Launched(d, e)
        PROVE  AnchorsPast' /\ AnchorStep
    <2>1. \A x \in DOMAIN items' : /\ x \in DOMAIN items
                                  /\ items'[x].anchor = items[x].anchor
      <3>1. CASE e \in DOMAIN items
        <4>1. Reported(items[e], made[d]).anchor = items[e].anchor
          BY <3>1, ReportedType DEF EngineType, DriverType
        <4>2. QED
          BY <1>4, <3>1, <4>1 DEF Launched
      <3>2. CASE e \notin DOMAIN items
        BY <1>4, <3>2 DEF Launched
      <3>3. QED
        BY <3>1, <3>2
    <2>2. AnchorsPast'
      BY <1>4, <2>1, SavedAnchors DEF Launched, AnchorsPast
    <2>3. QED
      BY <2>1, <2>2 DEF AnchorStep
  <1>5. QED
    BY <1>1, <1>2, <1>3, <1>4

LEMMA AnchorsTick ==
    ASSUME TypeOK, TypeOK', AnchorsPast, Tick
    PROVE  AnchorsPast' /\ AnchorStep
  <1> USE AnchorNumbers DEF TypeOK
  <1>1. ASSUME NEW e \in DOMAIN items
        PROVE  items[e].anchor <= items'[e].anchor /\ items'[e].anchor <= now
    <2> DEFINE tr == Tracked(items[e], ~booted)
    <2>1. now \in Times /\ items[e] \in Item /\ (~booted) \in BOOLEAN
      BY DEF EngineType
    <2>2. tr \in Item /\ tr.anchor = items[e].anchor
      BY <2>1, TrackedType
    <2>3. items[e].anchor \in Nat /\ items[e].anchor <= now
      BY DEF AnchorsPast
    <2>4. items'[e] = Handled(tr) /\ e \in DOMAIN items'
      BY DEF Tick
    <2> HIDE DEF tr
    <2>5. Handled(tr).anchor >= tr.anchor /\ Handled(tr).anchor <= now
      BY <2>1, <2>2, <2>3, HandledType
    <2>6. QED
      BY <2>2, <2>3, <2>4, <2>5
  <1>2. DOMAIN items' = DOMAIN items /\ now' = now
    BY DEF Tick
  <1>3. AnchorsPast'
    <2>1. CASE Saved(items')
      BY <1>1, <1>2, <2>1, SavedAnchors
    <2>2. CASE NotSaved
      BY <1>1, <1>2, <2>2 DEF NotSaved, fileVars, AnchorsPast
    <2>3. QED
      BY <2>1, <2>2 DEF Tick
  <1>4. QED
    BY <1>1, <1>2, <1>3 DEF AnchorStep

\* The daemon comes back with the anchors of the file, which are those it
\* had, unless its last save failed.
LEMMA AnchorsStop ==
    ASSUME TypeOK, FileIsCurrent, AnchorsPast, Stop
    PROVE  AnchorsPast' /\ AnchorStep
  <1>1. AnchorsPast'
    BY DEF Stop, AnchorsPast
  <1>2. ASSUME NEW e \in DOMAIN items \cap DOMAIN items', ~unsaved
        PROVE  items'[e].anchor >= items[e].anchor
    <2>1. items' = file /\ file[e].anchor = items[e].anchor
      BY <1>2, EssenceAnchor DEF Stop, FileIsCurrent
    <2>2. QED
      BY <2>1, AnchorNumbers DEF TypeOK
  <1>3. QED
    BY <1>1, <1>2 DEF AnchorStep

LEMMA AnchorsNext ==
    ASSUME TypeOK, TypeOK', FileIsCurrent, AnchorsPast, [Next]_vars
    PROVE  AnchorsPast' /\ AnchorStep
  <1>1. ASSUME NEW d \in Drivers, DriverStep(d)
        PROVE  AnchorsPast' /\ AnchorStep
    <2>1. ASSUME NEW e \in Entries, Launched(d, e)
          PROVE  AnchorsPast' /\ AnchorStep
      BY <2>1, AnchorsClientStep
    <2>2. ASSUME NEW e \in Entries,
                 CloseRun(d, e) \/ CreateBegins(d, e) \/ CreateRegisters(d, e)
          PROVE  AnchorsPast' /\ AnchorStep
      BY <2>2, AnchorsLeftAlone
      DEF CloseRun, CreateBegins, CreateRegisters, engineVars, fileVars
    <2>3. ASSUME NEW s \in Sessions, CloseUntracked(d, s)
          PROVE  AnchorsPast' /\ AnchorStep
      BY <2>3, AnchorsLeftAlone DEF CloseUntracked, engineVars, fileVars
    <2>4. CASE CreateFails(d) \/ CreateDone(d)
      BY <2>4, AnchorsLeftAlone DEF CreateFails, CreateDone, engineVars, fileVars
    <2>5. QED
      BY <1>1, <2>1, <2>2, <2>3, <2>4 DEF DriverStep
  <1>2. CASE (\E s \in Sessions : SessionEnds(s) \/ Ask(s) \/ Forget(s))
             \/ Pass \/ RequestStop \/ Start
    BY <1>2, AnchorsLeftAlone
    DEF SessionEnds, Ask, Forget, Pass, RequestStop, Start, engineVars, fileVars
  <1>3. CASE UNCHANGED vars
    BY <1>3, AnchorsLeftAlone DEF vars, engineVars, fileVars
  <1>4. QED
    BY <1>1, <1>2, <1>3, AnchorsClientStep, AnchorsTick, AnchorsStop DEF Next

\* The last handled slot of an entry does not move back, whatever clients
\* set and whenever the daemon restarts, unless its save had failed.
THEOREM SlotsStayHandled == Spec => AnchorsAdvance
  <1>1. Init => AnchorsPast
    BY DEF Init, AnchorsPast
  <1>2. TypeOK /\ TypeOK' /\ FileIsCurrent /\ AnchorsPast /\ [Next]_vars
            => AnchorsPast'
    BY AnchorsNext
  <1>3. TypeOK /\ TypeOK' /\ FileIsCurrent /\ AnchorsPast /\ [Next]_vars
            => [AnchorStep]_vars
    BY AnchorsNext
  <1>4. Spec => [][AnchorStep]_vars
    BY <1>1, <1>2, <1>3, TypeCorrect, FileStaysCurrent, PTL DEF Spec
  <1>5. QED
    BY <1>4 DEF AnchorsAdvance, AnchorStep

-----------------------------------------------------------------------------
(* The runs of an entry.                                                   *)

\* The launch a driver has in hand.
Launching(d, e) == First(d, e) /\ todo[d][e].close = 0 /\ todo[d][e].launch

\* A driver that is past the start of its step has a launch in hand; a
\* session it got is one of that launch's entry.
HandInv ==
    \A d \in Drivers :
        /\ at[d] # "next" => \E e \in Entries : Launching(d, e)
        /\ made[d] # 0 =>
               /\ at[d] \in {"made", "report"} /\ st[made[d]] # "none"
               /\ \A e \in Entries : First(d, e) => key[made[d]][1] = e

\* A recorded run, in memory or in the file, was started for its entry.
Recorded(its) ==
    \A e \in DOMAIN its : HasRun(its[e]) =>
        key[its[e].run][1] = e /\ st[its[e].run] # "none"

RecordInv == Recorded(items) /\ Recorded(file)

\* Of an entry, either a run is recorded, or one start is under way, or none.
OneAtATime ==
    /\ \A d \in Drivers, e \in Entries :
           todo[d][e].launch => e \in DOMAIN items /\ items[e].pending
    /\ \A c, d \in Drivers, e \in Entries :
           todo[c][e].launch /\ todo[d][e].launch => c = d
    /\ \A e \in DOMAIN items : items[e].pending => ~HasRun(items[e])

\* Who runs and is not about to be closed is recorded or about to be.
Accounted ==
    \A s \in Sessions :
        st[s] = "up" /\ ~Closing(s) /\ s \notin cut
            => HasEntry(s) \/ \E d \in Drivers : made[d] = s

RunInv ==
    /\ HandInv /\ RecordInv
    /\ removes = 0 => OneAtATime /\ Accounted

\* A session that was started keeps its key and never becomes a new one.
KeysKept ==
    \A s \in Sessions :
        st[s] # "none" => st'[s] # "none" /\ key'[s] = key[s]

LEMMA FirstUnique ==
    ASSUME NEW d \in Drivers, NEW e \in Entries, NEW x \in Entries,
           First(d, e), First(d, x)
    PROVE  e = x
  BY SchedulerAssumption DEF First, Entries

\* Every step keeps RecordInv: an entry of the next state has no run, the run
\* it had in memory or in the file, or one that was started for it.
LEMMA RecordStep ==
    ASSUME TypeOK, TypeOK', RecordInv, KeysKept,
           \A e \in DOMAIN items' :
               \/ items'[e].run = 0
               \/ e \in DOMAIN items /\ items'[e].run = items[e].run
               \/ e \in DOMAIN file /\ items'[e].run = file[e].run
               \/ /\ key'[items'[e].run][1] = e
                  /\ st'[items'[e].run] # "none",
           file' = file \/ file' = Stored(items')
    PROVE  RecordInv'
  <1>1. ASSUME NEW r \in 0..MaxSessions, r # 0
        PROVE  r \in Sessions
    BY <1>1, SchedulerAssumption DEF Sessions
  <1>2. /\ \A e \in DOMAIN items : items[e].run \in 0..MaxSessions
        /\ \A e \in DOMAIN file : file[e].run \in 0..MaxSessions
    BY DEF TypeOK, EngineType, Item
  <1>3. Recorded(items)'
    BY <1>1, <1>2 DEF RecordInv, Recorded, HasRun, KeysKept
  <1>4. CASE file' = file
    <2>1. Recorded(file)'
      BY <1>1, <1>2, <1>4 DEF RecordInv, Recorded, HasRun, KeysKept
    <2>2. QED
      BY <1>3, <2>1 DEF RecordInv
  <1>5. CASE file' = Stored(items')
    <2>1. /\ DOMAIN file' = DOMAIN items'
          /\ \A e \in DOMAIN items' : Essence(file'[e]) = Essence(items'[e])
      BY <1>5, StoredType DEF TypeOK, EngineType
    <2>2. \A e \in DOMAIN items' : file'[e].run = items'[e].run
      BY <2>1, EssenceRun
    <2>3. Recorded(file)'
      BY <1>3, <2>1, <2>2 DEF Recorded, HasRun
    <2>4. QED
      BY <1>3, <2>3 DEF RecordInv
  <1>6. QED
    BY <1>4, <1>5

\* A step that changes no driver with a launch in hand, except to begin one
\* or to give it a session of its entry.
LEMMA HandStep ==
    ASSUME TypeOK, HandInv, KeysKept,
           \A d \in Drivers : at'[d] # "next" =>
               /\ todo'[d] = todo[d]
               /\ at[d] # "next" \/ \E e \in Entries : Launching(d, e),
           \A d \in Drivers : made'[d] # 0 =>
               /\ at'[d] \in {"made", "report"}
               /\ \/ made'[d] = made[d]
                  \/ \E e \in Entries :
                         /\ Launching(d, e) /\ st'[made'[d]] # "none"
                         /\ key'[made'[d]][1] = e
    PROVE  HandInv'
  <1> SUFFICES ASSUME NEW d \in Drivers
               PROVE  /\ at'[d] # "next" => \E e \in Entries : Launching(d, e)'
                      /\ made'[d] # 0 =>
                             /\ at'[d] \in {"made", "report"}
                             /\ st'[made'[d]] # "none"
                             /\ \A e \in Entries :
                                    First(d, e)' => key'[made'[d]][1] = e
    BY DEF HandInv
  <1>1. ASSUME at'[d] # "next"
        PROVE  \A e \in Entries : /\ First(d, e)' <=> First(d, e)
                                 /\ Launching(d, e)' <=> Launching(d, e)
    <2>1. todo'[d] = todo[d]
      BY <1>1
    <2>2. QED
      BY <2>1 DEF First, Launching, HasWork
  <1>2. ASSUME at'[d] # "next"
        PROVE  \E e \in Entries : Launching(d, e)'
    BY <1>1, <1>2 DEF HandInv
  <1>3. ASSUME made'[d] # 0
        PROVE  /\ at'[d] \in {"made", "report"}
               /\ st'[made'[d]] # "none"
               /\ \A e \in Entries : First(d, e)' => key'[made'[d]][1] = e
    <2>1. at'[d] \in {"made", "report"} /\ todo'[d] = todo[d]
      BY <1>3
    <2>2. CASE made'[d] = made[d]
      <3>1. made[d] \in Sessions
        BY <1>3, <2>2, SchedulerAssumption DEF TypeOK, DriverType, Sessions
      <3>2. /\ st[made[d]] # "none"
            /\ \A e \in Entries : First(d, e) => key[made[d]][1] = e
        BY <1>3, <2>2 DEF HandInv
      <3>3. st'[made'[d]] # "none" /\ key'[made'[d]] = key[made[d]]
        BY <2>2, <3>1, <3>2 DEF KeysKept
      <3>4. ASSUME NEW e \in Entries, First(d, e)'
            PROVE  key'[made'[d]][1] = e
        <4>1. First(d, e)
          BY <2>1, <3>4 DEF First, HasWork
        <4>2. QED
          BY <3>2, <3>3, <4>1
      <3>5. QED
        BY <2>1, <3>3, <3>4
    <2>3. CASE \E e \in Entries :
                   /\ Launching(d, e) /\ st'[made'[d]] # "none"
                   /\ key'[made'[d]][1] = e
      <3>1. PICK x \in Entries :
                /\ Launching(d, x) /\ st'[made'[d]] # "none"
                /\ key'[made'[d]][1] = x
        BY <2>3
      <3>2. ASSUME NEW e \in Entries, First(d, e)'
            PROVE  key'[made'[d]][1] = e
        <4>1. First(d, e) /\ First(d, x)
          BY <2>1, <3>1, <3>2 DEF First, HasWork, Launching
        <4>2. QED
          BY <3>1, <4>1, FirstUnique
      <3>3. QED
        BY <2>1, <3>1, <3>2
    <2>4. QED
      BY <1>3, <2>1, <2>2, <2>3
  <1>4. QED
    BY <1>2, <1>3

\* A step that starts nothing and forgets no start.
LEMMA OneAtATimeKept ==
    ASSUME OneAtATime,
           \A d \in Drivers, e \in Entries :
               todo'[d][e].launch => todo[d][e].launch,
           \A e \in DOMAIN items : e \in DOMAIN items' ,
           \A e \in DOMAIN items' :
               \/ ~items'[e].pending /\ e \notin DOMAIN items
               \/ /\ e \in DOMAIN items /\ items'[e].run = items[e].run
                  /\ items'[e].pending <=> items[e].pending
    PROVE  OneAtATime'
  BY DEF OneAtATime, HasRun

\* A step in which driver d decides on starts of entries that are free.
LEMMA OneAtATimeStarts ==
    ASSUME OneAtATime, NEW d \in Drivers,
           \A c \in Drivers : c # d => todo'[c] = todo[c],
           DOMAIN items' = DOMAIN items,
           \A e \in Entries : todo'[d][e].launch =>
               e \in DOMAIN items /\ ~items[e].pending /\ items'[e].pending,
           \A e \in DOMAIN items :
               /\ items[e].pending => items'[e].pending
               /\ items'[e].pending => items'[e].run = 0
    PROVE  OneAtATime'
  BY DEF OneAtATime, HasRun

\* What a tick does to an entry: a run it forgets has ended or is closed by
\* it, and it starts only an entry that is free.
LEMMA TickEntry ==
    ASSUME NEW it \in Item, NEW first \in BOOLEAN, now \in Times,
           it.pending => ~HasRun(it)
    PROVE  LET h == Handled(Tracked(it, first))
               w == TickWork(it, first)
           IN  /\ h.run = it.run \/ h.run = 0
               /\ HasRun(it) /\ h.run # it.run /\ Alive(it.run)
                      => w.close = it.run
               /\ it.pending => h.pending
               /\ h.pending => h.run = 0
               /\ w.launch => ~it.pending /\ h.pending
  <1> DEFINE tr == Tracked(it, first)
             h == Handled(tr)
             w == TickWork(it, first)
  <1>1. /\ tr \in Item /\ tr.pending = it.pending
        /\ tr.run = IF Settles(it, first) THEN 0 ELSE it.run
    <2>1. tr \in Item /\ tr.pending = it.pending
      BY TrackedType
    <2>2. tr.run = IF Settles(it, first) THEN 0 ELSE it.run
      BY DEF Tracked, WithoutRun, Item
    <2>3. QED
      BY <2>1, <2>2
  <1>2. /\ h.run = tr.run
        /\ tr.pending => h.pending
        /\ h.pending => tr.pending \/ Starts(tr)
        /\ Starts(tr) => h.pending
    <2> HIDE DEF tr
    <2>1. CASE Due(tr)
      <3>1. h = [tr EXCEPT !.anchor = Slot(tr), !.pending = @ \/ Starts(tr)]
        BY <2>1 DEF Handled
      <3>2. QED
        BY <1>1, <3>1 DEF Item
    <2>2. CASE ~Due(tr)
      BY <2>2 DEF Handled, Starts
    <2>3. QED
      BY <2>1, <2>2
  <1>3. Starts(tr) => tr.run = 0 /\ ~tr.pending
    BY DEF Starts, Busy, HasRun
  <1>4. w.launch => Starts(tr)
    BY DEF TickWork
  <1>5. HasRun(it) /\ h.run # it.run /\ Alive(it.run) => w.close = it.run
    <2>1. SUFFICES ASSUME HasRun(it), h.run # it.run, Alive(it.run)
                   PROVE  w.close = it.run
      OBVIOUS
    <2>2. Settles(it, first)
      BY <1>1, <1>2, <2>1
    <2>3. ClosesRun(it, first)
      BY <2>1, <2>2 DEF Settles, ClosesRun
    <2>4. QED
      BY <2>3 DEF TickWork
  <1> HIDE DEF tr, h, w
  <1>6. /\ h.run = it.run \/ h.run = 0
        /\ it.pending => h.pending
        /\ h.pending => h.run = 0
        /\ w.launch => ~it.pending /\ h.pending
    BY <1>1, <1>2, <1>3, <1>4 DEF HasRun
  <1>7. QED
    BY <1>5, <1>6 DEF tr, h, w

\* The same for a fire.
LEMMA FireEntry ==
    ASSUME NEW it \in Item, now \in Times, it.pending => ~HasRun(it)
    PROVE  LET h == Fired(it)
               w == FireWork(it)
           IN  /\ h.run = it.run \/ h.run = 0
               /\ HasRun(it) /\ h.run # it.run /\ Alive(it.run)
                      => w.close = it.run
               /\ it.pending => h.pending
               /\ h.pending => h.run = 0
               /\ w.launch => ~it.pending /\ h.pending
  <1> DEFINE tr == Tracked(it, FALSE)
             h == Fired(it)
             w == FireWork(it)
  <1>1. /\ tr \in Item /\ tr.pending = it.pending
        /\ tr.run = IF Settles(it, FALSE) THEN 0 ELSE it.run
    <2>1. tr \in Item /\ tr.pending = it.pending
      BY TrackedType
    <2>2. tr.run = IF Settles(it, FALSE) THEN 0 ELSE it.run
      BY DEF Tracked, WithoutRun, Item
    <2>3. QED
      BY <2>1, <2>2
  <1>2. h = [tr EXCEPT !.pending = @ \/ ~Busy(tr)]
    BY DEF Fired
  <1>3. /\ h.run = tr.run
        /\ h.pending <=> tr.pending \/ ~Busy(tr)
    <2> HIDE DEF tr, h
    <2> QED BY <1>1, <1>2 DEF Item
  <1>4. ~Busy(tr) => tr.run = 0 /\ ~tr.pending
    BY DEF Busy, HasRun
  <1>5. w.launch => ~Busy(tr)
    BY DEF FireWork
  <1>6. HasRun(it) /\ h.run # it.run /\ Alive(it.run) => w.close = it.run
    <2>1. SUFFICES ASSUME HasRun(it), h.run # it.run, Alive(it.run)
                   PROVE  w.close = it.run
      OBVIOUS
    <2>2. Settles(it, FALSE)
      BY <1>1, <1>3, <2>1
    <2>3. ClosesRun(it, FALSE)
      BY <2>1, <2>2 DEF Settles, ClosesRun
    <2>4. QED
      BY <2>3 DEF FireWork
  <1> HIDE DEF tr, h, w
  <1>7. /\ h.run = it.run \/ h.run = 0
        /\ it.pending => h.pending
        /\ h.pending => h.run = 0
        /\ w.launch => ~it.pending /\ h.pending
    BY <1>1, <1>3, <1>4, <1>5 DEF HasRun
  <1>8. QED
    BY <1>6, <1>7 DEF tr, h, w

\* Who is accounted for stays so, when a driver that had nothing to do takes
\* a decision and whoever loses its entry is closed by it.
LEMMA AccountedDecision ==
    ASSUME TypeOK, Accounted, NEW d \in Drivers, Idle(d),
           UNCHANGED <<st, ends, made, cut>>,
           \A c \in Drivers : c # d => todo'[c] = todo[c],
           \A e \in DOMAIN items :
               /\ e \in DOMAIN items'
               /\ \/ items'[e].run = items[e].run
                  \/ ~HasRun(items[e]) \/ ~Alive(items[e].run)
                  \/ todo'[d][e].close = items[e].run
    PROVE  Accounted'
  <1> SUFFICES ASSUME NEW s \in Sessions, st'[s] = "up", ~Closing(s)', s \notin cut'
               PROVE  HasEntry(s)' \/ \E c \in Drivers : made'[c] = s
    BY DEF Accounted
  <1>1. \A e \in Entries : todo[d][e].close = 0
    BY DEF Idle, NothingToDo, NoWork
  <1>2. s # 0
    BY SchedulerAssumption DEF Sessions
  <1>3. ~Closing(s)
    BY <1>1, <1>2 DEF Closing
  <1>4. HasEntry(s) \/ \E c \in Drivers : made[c] = s
    BY <1>3 DEF Accounted
  <1>5. ASSUME NEW e \in DOMAIN items, items[e].run = s
        PROVE  HasEntry(s)'
    <2>1. HasRun(items[e]) /\ Alive(items[e].run)
      BY <1>2, <1>5 DEF HasRun, Alive
    <2>2. e \in Entries
      BY DEF TypeOK, EngineType
    <2>3. todo'[d][e].close # s
      BY <2>2 DEF Closing
    <2>4. items'[e].run = s /\ e \in DOMAIN items'
      BY <1>5, <2>1, <2>3
    <2>5. QED
      BY <2>4 DEF HasEntry
  <1>6. QED
    BY <1>4, <1>5 DEF HasEntry

\* What becomes of the run of an entry.
LEMMA TrackedRun ==
    ASSUME NEW it \in Item, NEW first \in BOOLEAN, now \in Times
    PROVE  Tracked(it, first).run = it.run \/ Tracked(it, first).run = 0
  BY DEF Tracked, WithoutRun, Item

LEMMA HandledRun ==
    ASSUME NEW it \in Item
    PROVE  Handled(it).run = it.run
  BY DEF Handled, Item

LEMMA FiredRun ==
    ASSUME NEW it \in Item, now \in Times
    PROVE  Fired(it).run = it.run \/ Fired(it).run = 0
  <1>1. Tracked(it, FALSE) \in Item
    BY TrackedType
  <1>2. Fired(it).run = Tracked(it, FALSE).run
    BY <1>1 DEF Fired, Item
  <1>3. QED
    BY <1>2, TrackedRun

LEMMA SameSessions ==
    ASSUME UNCHANGED <<st, key>>
    PROVE  KeysKept
  BY DEF KeysKept

LEMMA RunInvTick ==
    ASSUME TypeOK, TypeOK', RunInv, Tick
    PROVE  RunInv'
  <1> DEFINE first == ~booted
  <1>1. /\ UNCHANGED <<st, key, ends, made, at, cut, removes>> /\ KeysKept
        /\ TickDriver \in Drivers /\ Idle(TickDriver)
        /\ now \in Times /\ first \in BOOLEAN
    BY SameSessions, SchedulerAssumption
    DEF Tick, sessionVars, TickDriver, Drivers, TypeOK, EngineType
  <1>2. /\ DOMAIN items' = DOMAIN items
        /\ \A e \in DOMAIN items :
               items'[e] = Handled(Tracked(items[e], first))
    BY DEF Tick
  <1>3. /\ \A c \in Drivers : c # TickDriver => todo'[c] = todo[c]
        /\ \A e \in Entries :
               todo'[TickDriver][e] = IF e \in DOMAIN items
                                      THEN TickWork(items[e], first) ELSE NoWork
    BY <1>1 DEF Tick, TypeOK, DriverType
  <1>4. DOMAIN items \subseteq Entries /\ \A e \in DOMAIN items : items[e] \in Item
    BY DEF TypeOK, EngineType
  <1> HIDE DEF first
  <1>5. HandInv'
    BY <1>1, <1>3, HandStep DEF RunInv, HandInv, Idle
  <1>6. \A e \in DOMAIN items : items'[e].run = items[e].run \/ items'[e].run = 0
    <2>1. ASSUME NEW e \in DOMAIN items
          PROVE  items'[e].run = items[e].run \/ items'[e].run = 0
      <3>1. /\ Tracked(items[e], first) \in Item
            /\ \/ Tracked(items[e], first).run = items[e].run
               \/ Tracked(items[e], first).run = 0
        BY <1>1, <1>4, TrackedRun, TrackedType
      <3>2. Handled(Tracked(items[e], first)).run = Tracked(items[e], first).run
        BY <3>1, HandledRun
      <3>3. QED
        BY <1>2, <3>1, <3>2
    <2>2. QED
      BY <2>1
  <1>7. RecordInv'
    <2>1. file' = file \/ file' = Stored(items')
      BY DEF Tick, Saved, NotSaved, fileVars
    <2>2. QED
      BY <1>1, <1>2, <1>6, <2>1, RecordStep DEF RunInv
  <1>8. ASSUME removes = 0
        PROVE  OneAtATime' /\ Accounted'
    <2>1. OneAtATime /\ Accounted
      BY <1>8 DEF RunInv
    <2>2. ASSUME NEW e \in DOMAIN items
          PROVE  /\ HasRun(items[e]) /\ items'[e].run # items[e].run
                        /\ Alive(items[e].run)
                        => todo'[TickDriver][e].close = items[e].run
                 /\ items[e].pending => items'[e].pending
                 /\ items'[e].pending => items'[e].run = 0
                 /\ todo'[TickDriver][e].launch
                        => ~items[e].pending /\ items'[e].pending
      <3>1. items[e].pending => ~HasRun(items[e])
        BY <2>1 DEF OneAtATime
      <3>2. /\ items'[e] = Handled(Tracked(items[e], first))
            /\ todo'[TickDriver][e] = TickWork(items[e], first)
        BY <1>2, <1>3, <1>4
      <3>3. QED
        BY <1>1, <1>4, <3>1, <3>2, TickEntry
    <2>3. \A e \in Entries : todo'[TickDriver][e].launch => e \in DOMAIN items
      BY <1>3 DEF NoWork
    <2>4. OneAtATime'
      BY <1>1, <1>2, <1>3, <2>1, <2>2, <2>3, OneAtATimeStarts
    <2>5. Accounted'
      BY <1>1, <1>2, <1>3, <2>1, <2>2, AccountedDecision
    <2>6. QED
      BY <2>4, <2>5
  <1>9. QED
    BY <1>1, <1>5, <1>7, <1>8 DEF RunInv

LEMMA RunInvFire ==
    ASSUME TypeOK, TypeOK', RunInv, NEW d \in Drivers, NEW e \in Entries,
           Fire(d, e)
    PROVE  RunInv'
  <1>1. /\ UNCHANGED <<st, key, ends, made, at, cut, removes>> /\ KeysKept
        /\ Idle(d) /\ e \in DOMAIN items
        /\ now \in Times /\ items[e] \in Item
    BY SameSessions DEF Fire, sessionVars, TypeOK, EngineType
  <1>2. /\ DOMAIN items' = DOMAIN items
        /\ items'[e] = Fired(items[e])
        /\ \A x \in DOMAIN items : x # e => items'[x] = items[x]
    BY <1>1 DEF Fire
  <1>3. /\ \A c \in Drivers : c # d => todo'[c] = todo[c]
        /\ todo'[d][e] = FireWork(items[e])
        /\ \A x \in Entries : x # e => todo'[d][x] = NoWork
    BY <1>1 DEF Fire, TypeOK, DriverType, Idle, NothingToDo
  <1>4. HandInv'
    BY <1>1, <1>3, HandStep DEF RunInv, HandInv, Idle
  <1>5. items'[e].run = items[e].run \/ items'[e].run = 0
    BY <1>1, <1>2, FiredRun
  <1>6. RecordInv'
    <2>1. file' = file \/ file' = Stored(items')
      BY DEF Fire, Saved
    <2>2. \A x \in DOMAIN items' :
              items'[x].run = 0 \/ items'[x].run = items[x].run
      BY <1>2, <1>5
    <2>3. QED
      BY <1>1, <1>2, <2>1, <2>2, RecordStep DEF RunInv
  <1>7. ASSUME removes = 0
        PROVE  OneAtATime' /\ Accounted'
    <2>1. OneAtATime /\ Accounted
      BY <1>7 DEF RunInv
    <2>2. /\ HasRun(items[e]) /\ items'[e].run # items[e].run
                 /\ Alive(items[e].run)
                 => todo'[d][e].close = items[e].run
          /\ items[e].pending => items'[e].pending
          /\ items'[e].pending => items'[e].run = 0
          /\ todo'[d][e].launch => ~items[e].pending /\ items'[e].pending
      <3>1. items[e].pending => ~HasRun(items[e])
        BY <1>1, <2>1 DEF OneAtATime
      <3>2. QED
        BY <1>1, <1>2, <1>3, <3>1, FireEntry
    <2>3. \A x \in Entries : todo'[d][x].launch =>
              x \in DOMAIN items /\ ~items[x].pending /\ items'[x].pending
      BY <1>1, <1>3, <2>2 DEF NoWork
    <2>4. \A x \in DOMAIN items :
              /\ items[x].pending => items'[x].pending
              /\ items'[x].pending => items'[x].run = 0
      BY <1>2, <2>1, <2>2 DEF OneAtATime, HasRun
    <2>5. OneAtATime'
      BY <1>2, <1>3, <2>1, <2>3, <2>4, OneAtATimeStarts
    <2>6. Accounted'
      BY <1>1, <1>2, <1>3, <2>1, <2>2, AccountedDecision
    <2>7. QED
      BY <2>5, <2>6
  <1>8. QED
    BY <1>1, <1>4, <1>6, <1>7 DEF RunInv

LEMMA RunInvSet ==
    ASSUME TypeOK, TypeOK', RunInv, NEW e \in Entries, NEW plan \in Plans,
           Set(e, plan)
    PROVE  RunInv'
  <1>1. /\ UNCHANGED <<st, key, todo, ends, made, at, cut, removes>> /\ KeysKept
    BY SameSessions DEF Set, sessionVars, driverVars
  <1>2. HandInv'
    BY <1>1, HandStep DEF RunInv, HandInv
  <1>3. /\ \A x \in DOMAIN items : x \in DOMAIN items'
        /\ \A x \in DOMAIN items' :
               \/ /\ x \in DOMAIN items /\ items'[x].run = items[x].run
                  /\ items'[x].pending <=> items[x].pending
               \/ /\ x \notin DOMAIN items /\ items'[x].run = 0
                  /\ ~items'[x].pending
    <2>1. CASE items' = With(items, e, NewItem(e, plan))
      <3>1. \A x \in DOMAIN items' :
                \/ x = e /\ items'[x] = NewItem(e, plan)
                \/ x # e /\ x \in DOMAIN items /\ items'[x] = items[x]
        BY <2>1 DEF With
      <3>2. \A x \in DOMAIN items : x \in DOMAIN items'
        BY <2>1 DEF With
      <3>3. e \in DOMAIN items => /\ NewItem(e, plan).run = items[e].run
                                  /\ NewItem(e, plan).pending = items[e].pending
        <4>1. ASSUME NEW it \in Item, NEW a
              PROVE  /\ [it EXCEPT !.plan = plan, !.anchor = a].run = it.run
                     /\ [it EXCEPT !.plan = plan, !.anchor = a].pending
                            = it.pending
          BY DEF Item
        <4>2. QED
          BY <4>1 DEF NewItem, TypeOK, EngineType
      <3>4. e \notin DOMAIN items => /\ NewItem(e, plan).run = 0
                                     /\ NewItem(e, plan).pending = FALSE
        BY DEF NewItem
      <3>5. QED
        BY <3>1, <3>2, <3>3, <3>4
    <2>2. CASE items' = items
      BY <2>2
    <2>3. QED
      BY <2>1, <2>2 DEF Set
  <1>4. RecordInv'
    <2>1. file' = file \/ file' = Stored(items')
      BY DEF Set
    <2>2. QED
      BY <1>1, <1>3, <2>1, RecordStep DEF RunInv
  <1>5. ASSUME removes = 0
        PROVE  OneAtATime' /\ Accounted'
    <2>1. OneAtATime /\ Accounted
      BY <1>5 DEF RunInv
    <2>2. OneAtATime'
      BY <1>1, <1>3, <2>1, OneAtATimeKept
    <2>3. \A s \in Sessions : HasEntry(s) => HasEntry(s)'
      BY <1>3 DEF HasEntry
    <2>4. Accounted'
      BY <1>1, <2>1, <2>3 DEF Accounted, Closing
    <2>5. QED
      BY <2>2, <2>4
  <1>6. QED
    BY <1>1, <1>2, <1>4, <1>5 DEF RunInv

LEMMA RunInvRemove ==
    ASSUME TypeOK, TypeOK', RunInv, NEW e \in Entries, Remove(e)
    PROVE  RunInv'
  <1>1. /\ UNCHANGED <<st, key, todo, ends, made, at>> /\ KeysKept
        /\ removes' # 0
    BY SameSessions, SchedulerAssumption
    DEF Remove, sessionVars, driverVars, TypeOK, BoundType
  <1>2. HandInv'
    BY <1>1, HandStep DEF RunInv, HandInv
  <1>3. \A x \in DOMAIN items' : x \in DOMAIN items /\ items'[x] = items[x]
    BY DEF Remove
  <1>4. RecordInv'
    <2>1. file' = file \/ file' = Stored(items')
      BY DEF Remove, Saved
    <2>2. QED
      BY <1>1, <1>3, <2>1, RecordStep DEF RunInv
  <1>5. QED
    BY <1>1, <1>2, <1>4 DEF RunInv

\* Steps that leave the entries and the launches of the drivers alone.
LEMMA RunInvQuiet ==
    ASSUME TypeOK, TypeOK', RunInv, KeysKept,
           UNCHANGED <<items, file, todo, ends, made, cut, removes>>,
           \A d \in Drivers : at'[d] # "next" =>
               at[d] # "next" \/ \E e \in Entries : Launching(d, e),
           \A d \in Drivers : made[d] # 0 => at'[d] \in {"made", "report"},
           \A s \in Sessions : st'[s] = "up" => st[s] = "up"
    PROVE  RunInv'
  <1>1. HandInv'
    BY HandStep DEF RunInv
  <1>2. RecordInv'
    BY RecordStep DEF RunInv
  <1>3. ASSUME removes = 0
        PROVE  OneAtATime' /\ Accounted'
    <2>1. OneAtATime'
      BY <1>3, OneAtATimeKept DEF RunInv
    <2>2. Accounted'
      BY <1>3 DEF RunInv, Accounted, Closing, HasEntry
    <2>3. QED
      BY <2>1, <2>2
  <1>4. QED
    BY <1>1, <1>2, <1>3 DEF RunInv

\* What a close does to the states of sessions.
LEMMA ClosesKeeps ==
    ASSUME TypeOK, NEW x, Closes(x), UNCHANGED key
    PROVE  /\ KeysKept
           /\ \A s \in Sessions : st'[s] = "up" => st[s] = "up" /\ s # x
  BY DEF Closes, KeysKept, TypeOK, SessionType

LEMMA RunInvCloseRun ==
    ASSUME TypeOK, TypeOK', RunInv, NEW d \in Drivers, NEW e \in Entries,
           CloseRun(d, e)
    PROVE  RunInv'
  <1> DEFINE x == todo[d][e].close
  <1>1. /\ UNCHANGED <<items, file, ends, made, at, key, cut, removes>>
        /\ at[d] = "next"
    BY DEF CloseRun, engineVars, fileVars
  <1>2. /\ KeysKept
        /\ \A s \in Sessions : st'[s] = "up" => st[s] = "up" /\ s # x
    BY <1>1, ClosesKeeps DEF CloseRun
  <1>3. /\ \A c \in Drivers : c # d => todo'[c] = todo[c]
        /\ \A y \in Entries : y # e => todo'[d][y] = todo[d][y]
        /\ todo'[d][e] = [todo[d][e] EXCEPT !.close = 0]
    BY DEF CloseRun, TypeOK, DriverType
  <1>4. todo'[d][e].launch = todo[d][e].launch
    <2>1. ASSUME NEW w \in Work
          PROVE  [w EXCEPT !.close = 0].launch = w.launch
      BY DEF Work
    <2>2. QED
      BY <1>3, <2>1 DEF TypeOK, DriverType
  <1>5. HandInv'
    BY <1>1, <1>2, <1>3, HandStep DEF RunInv, HandInv
  <1>6. RecordInv'
    BY <1>1, <1>2, RecordStep DEF RunInv
  <1>7. ASSUME removes = 0
        PROVE  OneAtATime' /\ Accounted'
    <2>1. \A c \in Drivers, y \in Entries : todo'[c][y].launch => todo[c][y].launch
      BY <1>3, <1>4
    <2>2. OneAtATime'
      BY <1>1, <1>7, <2>1, OneAtATimeKept DEF RunInv
    <2>3. ASSUME NEW s \in Sessions, s # x, Closing(s)
          PROVE  Closing(s)'
      BY <1>1, <1>3, <2>3 DEF Closing
    <2>4. ASSUME NEW s \in Sessions, st'[s] = "up", ~Closing(s)', s \notin cut'
          PROVE  HasEntry(s)' \/ \E c \in Drivers : made'[c] = s
      <3>1. st[s] = "up" /\ ~Closing(s) /\ s \notin cut
        BY <1>1, <1>2, <2>3, <2>4
      <3>2. HasEntry(s) \/ \E c \in Drivers : made[c] = s
        BY <1>7, <3>1 DEF RunInv, Accounted
      <3>3. QED
        BY <1>1, <3>2 DEF HasEntry
    <2>5. QED
      BY <2>2, <2>4 DEF Accounted
  <1>8. QED
    BY <1>1, <1>5, <1>6, <1>7 DEF RunInv

LEMMA RunInvCloseUntracked ==
    ASSUME TypeOK, TypeOK', RunInv, NEW d \in Drivers, NEW x \in Sessions,
           CloseUntracked(d, x)
    PROVE  RunInv'
  <1>1. /\ UNCHANGED <<items, file, todo, made, at, key, cut, removes>>
    BY DEF CloseUntracked, engineVars, fileVars
  <1>2. /\ KeysKept
        /\ \A s \in Sessions : st'[s] = "up" => st[s] = "up" /\ s # x
    BY <1>1, ClosesKeeps DEF CloseUntracked
  <1>3. HandInv'
    BY <1>1, <1>2, HandStep DEF RunInv, HandInv
  <1>4. RecordInv'
    BY <1>1, <1>2, RecordStep DEF RunInv
  <1>5. ASSUME removes = 0
        PROVE  OneAtATime' /\ Accounted'
    <2>1. OneAtATime'
      BY <1>1, <1>5, OneAtATimeKept DEF RunInv
    <2>2. ASSUME NEW s \in Sessions, s # x, Closing(s)
          PROVE  Closing(s)'
      BY <1>1, <2>2 DEF Closing, CloseUntracked, TypeOK, DriverType
    <2>3. ASSUME NEW s \in Sessions, st'[s] = "up", ~Closing(s)', s \notin cut'
          PROVE  HasEntry(s)' \/ \E c \in Drivers : made'[c] = s
      <3>1. st[s] = "up" /\ ~Closing(s) /\ s \notin cut
        BY <1>1, <1>2, <2>2, <2>3
      <3>2. HasEntry(s) \/ \E c \in Drivers : made[c] = s
        BY <1>5, <3>1 DEF RunInv, Accounted
      <3>3. QED
        BY <1>1, <3>2 DEF HasEntry
    <2>4. QED
      BY <2>1, <2>3 DEF Accounted
  <1>6. QED
    BY <1>1, <1>3, <1>4, <1>5 DEF RunInv

LEMMA RunInvCreateBegins ==
    ASSUME TypeOK, TypeOK', RunInv, NEW d \in Drivers, NEW e \in Entries,
           CreateBegins(d, e)
    PROVE  RunInv'
  <1>1. /\ UNCHANGED <<items, file, todo, ends, st, key, cut, removes>>
        /\ KeysKept /\ at[d] = "next" /\ Launching(d, e)
    BY SameSessions
    DEF CreateBegins, engineVars, fileVars, sessionVars, Turn, First, Launching
  <1>2. made[d] = 0
    BY <1>1 DEF RunInv, HandInv
  <1>3. \A c \in Drivers : c # d => at'[c] = at[c]
    BY DEF CreateBegins, TypeOK, DriverType
  <1>4. CASE UNCHANGED made
    <2>1. \A c \in Drivers : made[c] # 0 => at'[c] \in {"made", "report"}
      BY <1>2, <1>3 DEF RunInv, HandInv
    <2>2. \A c \in Drivers : at'[c] # "next" =>
              at[c] # "next" \/ \E y \in Entries : Launching(c, y)
      BY <1>1, <1>3
    <2>3. QED
      BY <1>1, <1>4, <2>1, <2>2, RunInvQuiet
  <1>5. CASE /\ \E s \in ByKey(<<e, todo[d][e].slot>>) :
                    made' = [made EXCEPT ![d] = s]
             /\ at' = [at EXCEPT ![d] = "report"]
    <2>1. PICK n \in Sessions :
              /\ st[n] # "none" /\ key[n] = <<e, todo[d][e].slot>>
              /\ made' = [made EXCEPT ![d] = n]
      BY <1>5 DEF ByKey, Known
    <2>2. /\ made'[d] = n /\ at'[d] = "report"
          /\ \A c \in Drivers : c # d => made'[c] = made[c]
      BY <1>5, <2>1 DEF TypeOK, DriverType
    <2>3. key'[made'[d]][1] = e /\ st'[made'[d]] # "none"
      BY <1>1, <2>1, <2>2
    <2>4. \A c \in Drivers : at'[c] # "next" =>
              /\ todo'[c] = todo[c]
              /\ at[c] # "next" \/ \E y \in Entries : Launching(c, y)
      BY <1>1, <1>3
    <2>5. \A c \in Drivers : made'[c] # 0 =>
              /\ at'[c] \in {"made", "report"}
              /\ \/ made'[c] = made[c]
                 \/ \E y \in Entries :
                        /\ Launching(c, y) /\ st'[made'[c]] # "none"
                        /\ key'[made'[c]][1] = y
      BY <1>1, <1>3, <2>2, <2>3 DEF RunInv, HandInv
    <2>6. HandInv'
      BY <1>1, <2>4, <2>5, HandStep DEF RunInv
    <2>7. RecordInv'
      BY <1>1, RecordStep DEF RunInv
    <2>8. ASSUME removes = 0
          PROVE  OneAtATime' /\ Accounted'
      <3>1. OneAtATime'
        BY <1>1, <2>8, OneAtATimeKept DEF RunInv
      <3>2. \A s \in Sessions : (\E c \in Drivers : made[c] = s)
                                => \E c \in Drivers : made'[c] = s
        BY <1>2, <2>2, SchedulerAssumption DEF Sessions
      <3>3. Accounted'
        BY <1>1, <2>8, <3>2 DEF RunInv, Accounted, Closing, HasEntry
      <3>4. QED
        BY <3>1, <3>3
    <2>9. QED
      BY <1>1, <2>6, <2>7, <2>8 DEF RunInv
  <1>6. QED
    BY <1>4, <1>5 DEF CreateBegins

LEMMA RunInvCreateRegisters ==
    ASSUME TypeOK, TypeOK', RunInv, NEW d \in Drivers, NEW e \in Entries,
           CreateRegisters(d, e)
    PROVE  RunInv'
  <1>1. UNCHANGED <<items, file, todo, ends, cut, removes>>
    BY DEF CreateRegisters, engineVars, fileVars
  <1>2. PICK n \in Sessions :
            /\ st[n] = "none" /\ st' = [st EXCEPT ![n] = "up"]
            /\ key' = [key EXCEPT ![n] = <<e, todo[d][e].slot>>]
            /\ made' = [made EXCEPT ![d] = n]
    BY DEF CreateRegisters
  <1>3. /\ at[d] = "making" /\ First(d, e) /\ at' = [at EXCEPT ![d] = "made"]
    BY DEF CreateRegisters, Turn, First
  <1>4. Launching(d, e) /\ made[d] = 0
    BY <1>3, FirstUnique DEF RunInv, HandInv, Launching
  <1>5. /\ KeysKept /\ st'[n] = "up" /\ key'[n][1] = e
        /\ \A s \in Sessions : s # n => st'[s] = st[s]
    BY <1>2 DEF KeysKept, TypeOK, SessionType
  <1>6. /\ made'[d] = n /\ at'[d] = "made"
        /\ \A c \in Drivers : c # d => made'[c] = made[c] /\ at'[c] = at[c]
    BY <1>2, <1>3 DEF TypeOK, DriverType
  <1>7. \A c \in Drivers : at'[c] # "next" =>
            /\ todo'[c] = todo[c]
            /\ at[c] # "next" \/ \E y \in Entries : Launching(c, y)
    BY <1>1, <1>4, <1>6
  <1>8. \A c \in Drivers : made'[c] # 0 =>
            /\ at'[c] \in {"made", "report"}
            /\ \/ made'[c] = made[c]
               \/ \E y \in Entries :
                      /\ Launching(c, y) /\ st'[made'[c]] # "none"
                      /\ key'[made'[c]][1] = y
    BY <1>4, <1>5, <1>6 DEF RunInv, HandInv
  <1>9. HandInv'
    BY <1>5, <1>7, <1>8, HandStep DEF RunInv
  <1>10. RecordInv'
    BY <1>1, <1>5, RecordStep DEF RunInv
  <1>11. ASSUME removes = 0
         PROVE  OneAtATime' /\ Accounted'
    <2>1. OneAtATime'
      BY <1>1, <1>11, OneAtATimeKept DEF RunInv
    <2>2. ASSUME NEW s \in Sessions, st'[s] = "up", ~Closing(s)', s \notin cut'
          PROVE  HasEntry(s)' \/ \E c \in Drivers : made'[c] = s
      <3>1. CASE s = n
        BY <1>6, <3>1
      <3>2. CASE s # n
        <4>1. st[s] = "up" /\ ~Closing(s) /\ s \notin cut
          BY <1>1, <1>5, <2>2, <3>2 DEF Closing
        <4>2. HasEntry(s) \/ \E c \in Drivers : made[c] = s
          BY <1>11, <4>1 DEF RunInv, Accounted
        <4>3. s # 0
          BY SchedulerAssumption DEF Sessions
        <4>4. QED
          BY <1>1, <1>4, <1>6, <4>2, <4>3 DEF HasEntry
      <3>3. QED
        BY <3>1, <3>2
    <2>3. QED
      BY <2>1, <2>2 DEF Accounted
  <1>12. QED
    BY <1>1, <1>9, <1>10, <1>11 DEF RunInv

LEMMA RunInvCreateFails ==
    ASSUME TypeOK, TypeOK', RunInv, NEW d \in Drivers, CreateFails(d)
    PROVE  RunInv'
  <1>1. /\ UNCHANGED <<items, file, todo, ends, key, cut, removes>>
        /\ at[d] \in {"making", "made"}
    BY DEF CreateFails, engineVars, fileVars
  <1>2. /\ made'[d] = 0
        /\ \A c \in Drivers : c # d => made'[c] = made[c] /\ at'[c] = at[c]
    BY DEF CreateFails, TypeOK, DriverType
  <1>3. /\ \A s \in Sessions : st'[s] = "up" => st[s] = "up" /\ s # made[d]
        /\ KeysKept
    <2>1. CASE at[d] = "made"
      BY <1>1, <2>1 DEF CreateFails, KeysKept, TypeOK, SessionType
    <2>2. CASE at[d] = "making"
      <3>1. made[d] = 0 /\ st' = st
        BY <2>2 DEF CreateFails, RunInv, HandInv
      <3>2. QED
        BY <1>1, <3>1, SchedulerAssumption DEF KeysKept, Sessions
    <2>3. QED
      BY <1>1, <2>1, <2>2
  <1>4. HandInv'
    BY <1>1, <1>2, <1>3, HandStep DEF RunInv, HandInv
  <1>5. RecordInv'
    BY <1>1, <1>3, RecordStep DEF RunInv
  <1>6. ASSUME removes = 0
        PROVE  OneAtATime' /\ Accounted'
    <2>1. OneAtATime'
      BY <1>1, <1>6, OneAtATimeKept DEF RunInv
    <2>2. Accounted'
      BY <1>1, <1>2, <1>3, <1>6 DEF RunInv, Accounted, Closing, HasEntry
    <2>3. QED
      BY <2>1, <2>2
  <1>7. QED
    BY <1>1, <1>4, <1>5, <1>6 DEF RunInv

LEMMA RunInvCreateDone ==
    ASSUME TypeOK, TypeOK', RunInv, NEW d \in Drivers, CreateDone(d)
    PROVE  RunInv'
  <1>1. /\ UNCHANGED <<items, file, todo, ends, made, st, key, cut, removes>>
        /\ KeysKept
    BY SameSessions DEF CreateDone, engineVars, fileVars
  <1>2. /\ \A c \in Drivers : at'[c] # "next" => at[c] # "next"
        /\ \A c \in Drivers : made[c] # 0 => at'[c] \in {"made", "report"}
    BY DEF CreateDone, TypeOK, DriverType, RunInv, HandInv
  <1>3. QED
    BY <1>1, <1>2, RunInvQuiet

\* What a report does to an entry.
LEMMA ReportedRun ==
    ASSUME NEW it \in Item, NEW s
    PROVE  /\ Reported(it, s).pending = FALSE
           /\ Reported(it, s).run = IF s = 0 THEN it.run ELSE s
  BY DEF Reported, Item

LEMMA RunInvLaunched ==
    ASSUME TypeOK, TypeOK', RunInv, NEW d \in Drivers, NEW e \in Entries,
           Launched(d, e)
    PROVE  RunInv'
  <1>1. /\ UNCHANGED <<st, key, cut, removes>> /\ KeysKept
        /\ file' = file \/ file' = Stored(items')
    BY SameSessions DEF Launched, sessionVars, Saved
  <1>2. /\ todo'[d][e] = NoWork /\ made'[d] = 0 /\ at'[d] = "next"
        /\ \A y \in Entries : y # e => todo'[d][y] = todo[d][y]
        /\ \A c \in Drivers : c # d =>
               todo'[c] = todo[c] /\ made'[c] = made[c] /\ at'[c] = at[c]
    BY DEF Launched, TypeOK, DriverType
  <1>3. First(d, e) /\ Launching(d, e)
    BY FirstUnique DEF Launched, Turn, First, RunInv, HandInv, Launching
  <1>4. made[d] # 0 => key[made[d]][1] = e /\ st[made[d]] # "none"
    BY <1>3 DEF RunInv, HandInv
  <1>5. /\ DOMAIN items' = DOMAIN items
        /\ \A x \in DOMAIN items : x # e => items'[x] = items[x]
        /\ e \in DOMAIN items =>
               /\ items'[e].pending = FALSE
               /\ items'[e].run = IF made[d] = 0 THEN items[e].run ELSE made[d]
    <2>1. CASE e \in DOMAIN items
      <3>1. items' = [items EXCEPT ![e] = Reported(items[e], made[d])]
        BY <2>1 DEF Launched
      <3>2. /\ DOMAIN items' = DOMAIN items
            /\ \A x \in DOMAIN items : x # e => items'[x] = items[x]
            /\ items'[e] = Reported(items[e], made[d])
        BY <2>1, <3>1
      <3>3. items[e] \in Item
        BY <2>1 DEF TypeOK, EngineType
      <3>4. /\ Reported(items[e], made[d]).pending = FALSE
            /\ Reported(items[e], made[d]).run
                   = IF made[d] = 0 THEN items[e].run ELSE made[d]
        BY <3>3, ReportedRun
      <3>5. QED
        BY <3>2, <3>4
    <2>2. CASE e \notin DOMAIN items
      BY <2>2 DEF Launched
    <2>3. QED
      BY <2>1, <2>2
  <1>6. HandInv'
    BY <1>1, <1>2, HandStep DEF RunInv, HandInv
  <1>7. RecordInv'
    <2>1. \A x \in DOMAIN items' :
              \/ x \in DOMAIN items /\ items'[x].run = items[x].run
              \/ key'[items'[x].run][1] = x /\ st'[items'[x].run] # "none"
      BY <1>1, <1>4, <1>5
    <2>2. QED
      BY <1>1, <2>1, RecordStep DEF RunInv
  <1>8. ASSUME removes = 0
        PROVE  OneAtATime' /\ Accounted'
    <2>1. OneAtATime /\ Accounted
      BY <1>8 DEF RunInv
    <2>2. /\ todo[d][e].launch /\ todo[d][e].close = 0 /\ e \in DOMAIN items
          /\ items[e].pending /\ ~HasRun(items[e])
          /\ \A c \in Drivers : todo[c][e].launch => c = d
      BY <1>3, <2>1 DEF Launching, OneAtATime
    <2>3. ~todo'[d][e].launch
      BY <1>2 DEF NoWork
    <2>4. \A c \in Drivers, y \in Entries :
              todo'[c][y].launch => todo[c][y].launch /\ y # e
      BY <1>2, <2>2, <2>3
    <2>5. OneAtATime'
      <3>1. \A c \in Drivers, y \in Entries :
                todo'[c][y].launch => y \in DOMAIN items' /\ items'[y].pending
        BY <1>5, <2>1, <2>4 DEF OneAtATime
      <3>2. \A b, c \in Drivers, y \in Entries :
                todo'[b][y].launch /\ todo'[c][y].launch => b = c
        BY <2>1, <2>4 DEF OneAtATime
      <3>3. \A y \in DOMAIN items' : items'[y].pending => ~HasRun(items'[y])
        BY <1>5, <2>1 DEF OneAtATime
      <3>4. QED
        BY <3>1, <3>2, <3>3 DEF OneAtATime
    <2>6. ASSUME NEW s \in Sessions, st'[s] = "up", ~Closing(s)', s \notin cut'
          PROVE  HasEntry(s)' \/ \E c \in Drivers : made'[c] = s
      <3>1. s # 0
        BY SchedulerAssumption DEF Sessions
      <3>2. ends' = ends
        BY <2>2 DEF Launched
      <3>3. ~Closing(s)
        BY <1>2, <2>2, <2>6, <3>1, <3>2 DEF Closing
      <3>4. HasEntry(s) \/ \E c \in Drivers : made[c] = s
        BY <1>1, <2>1, <2>6, <3>3 DEF Accounted
      <3>5. CASE HasEntry(s)
        <4>1. PICK x \in DOMAIN items : items[x].run = s
          BY <3>5 DEF HasEntry
        <4>2. x # e
          BY <2>2, <3>1, <4>1 DEF HasRun
        <4>3. QED
          BY <1>5, <4>1, <4>2 DEF HasEntry
      <3>6. CASE \E c \in Drivers : made[c] = s
        <4>1. PICK c \in Drivers : made[c] = s
          BY <3>6
        <4>2. CASE c = d
          BY <1>5, <2>2, <3>1, <4>1, <4>2 DEF HasEntry
        <4>3. CASE c # d
          BY <1>2, <4>1, <4>3
        <4>4. QED
          BY <4>2, <4>3
      <3>7. QED
        BY <3>4, <3>5, <3>6
    <2>7. QED
      BY <2>5, <2>6 DEF Accounted
  <1>9. QED
    BY <1>1, <1>6, <1>7, <1>8 DEF RunInv

LEMMA RunInvSessionStep ==
    ASSUME TypeOK, TypeOK', RunInv, NEW s \in Sessions,
           SessionEnds(s) \/ Ask(s) \/ Forget(s)
    PROVE  RunInv'
  <1>1. UNCHANGED <<items, file, todo, ends, at, made, key, cut, removes>>
    BY DEF SessionEnds, Ask, Forget, engineVars, fileVars, driverVars
  <1>2. /\ KeysKept
        /\ \A x \in Sessions : st'[x] = "up" => st[x] = "up"
    BY <1>1
    DEF SessionEnds, Ask, Forget, KeysKept, TypeOK, SessionType
  <1>3. \A d \in Drivers : made[d] # 0 => at'[d] \in {"made", "report"}
    BY <1>1 DEF RunInv, HandInv
  <1>4. QED
    BY <1>1, <1>2, <1>3, RunInvQuiet

LEMMA RunInvDaemonStep ==
    ASSUME TypeOK, TypeOK', RunInv,
           Pass \/ RequestStop \/ Start \/ UNCHANGED vars
    PROVE  RunInv'
  <1>1. /\ UNCHANGED <<items, file, todo, ends, at, made, st, key, cut, removes>>
        /\ KeysKept
    BY SameSessions
    DEF Pass, RequestStop, Start, vars, engineVars, fileVars, driverVars,
        sessionVars
  <1>2. \A d \in Drivers : made[d] # 0 => at'[d] \in {"made", "report"}
    BY <1>1 DEF RunInv, HandInv
  <1>3. QED
    BY <1>1, <1>2, RunInvQuiet

\* After the end of the daemon nothing is in hand, and the file accounts for
\* every session that was not cut off.
LEMMA RunInvStop ==
    ASSUME TypeOK, TypeOK', RunInv, Stop
    PROVE  RunInv'
  <1>1. /\ items' = file /\ file' = file /\ UNCHANGED <<key, removes>>
        /\ \A d \in Drivers, e \in Entries : todo'[d][e] = NoWork
        /\ \A d \in Drivers : at'[d] = "next" /\ made'[d] = 0
    BY DEF Stop, NothingToDo
  <1>2. KeysKept
    BY DEF Stop, KeysKept, TypeOK, SessionType
  <1>3. HandInv'
    BY <1>1 DEF HandInv
  <1>4. RecordInv'
    BY <1>1, <1>2, RecordStep DEF RunInv
  <1>5. OneAtATime'
    <2>1. \A e \in DOMAIN items' : ~items'[e].pending
      BY <1>1 DEF TypeOK, EngineType
    <2>2. \A d \in Drivers, e \in Entries : ~todo'[d][e].launch
      BY <1>1 DEF NoWork
    <2>3. QED
      BY <2>1, <2>2 DEF OneAtATime
  <1>6. ASSUME NEW s \in Sessions, st'[s] = "up", s \notin cut'
        PROVE  HasEntry(s)'
    <2>1. Alive(s)
      BY <1>6 DEF Stop, Alive
    <2>2. PICK e \in DOMAIN file : file[e].run = s
      BY <1>6, <2>1 DEF Stop
    <2>3. QED
      BY <1>1, <2>2 DEF HasEntry
  <1>7. QED
    BY <1>3, <1>4, <1>5, <1>6 DEF RunInv, Accounted

LEMMA RunInvInit ==
    ASSUME Init
    PROVE  RunInv
  <1>1. /\ items = [e \in {} |-> NoWork] /\ file = items
        /\ \A d \in Drivers, e \in Entries : todo[d][e] = NoWork
        /\ \A d \in Drivers : at[d] = "next" /\ made[d] = 0
        /\ \A s \in Sessions : st[s] = "none"
    BY DEF Init, NothingToDo
  <1>2. DOMAIN items = {} /\ DOMAIN file = {}
    BY <1>1
  <1>3. HandInv
    BY <1>1 DEF HandInv
  <1>4. RecordInv
    BY <1>2 DEF RecordInv, Recorded
  <1>5. OneAtATime
    BY <1>1, <1>2 DEF OneAtATime, NoWork
  <1>6. Accounted
    BY <1>1 DEF Accounted
  <1>7. QED
    BY <1>3, <1>4, <1>5, <1>6 DEF RunInv

LEMMA RunInvNext ==
    ASSUME TypeOK, TypeOK', RunInv, [Next]_vars
    PROVE  RunInv'
  <1>1. CASE \E e \in Entries, plan \in Plans : Set(e, plan)
    BY <1>1, RunInvSet
  <1>2. CASE \E e \in Entries : Remove(e)
    BY <1>2, RunInvRemove
  <1>3. CASE Tick
    BY <1>3, RunInvTick
  <1>4. CASE \E d \in Drivers, e \in Entries : Fire(d, e)
    BY <1>4, RunInvFire
  <1>5. ASSUME NEW d \in Drivers, DriverStep(d)
        PROVE  RunInv'
    <2>1. CASE \E e \in Entries : CloseRun(d, e)
      BY <2>1, RunInvCloseRun
    <2>2. CASE \E e \in Entries : CreateBegins(d, e)
      BY <2>2, RunInvCreateBegins
    <2>3. CASE \E e \in Entries : CreateRegisters(d, e)
      BY <2>3, RunInvCreateRegisters
    <2>4. CASE \E e \in Entries : Launched(d, e)
      BY <2>4, RunInvLaunched
    <2>5. CASE \E s \in Sessions : CloseUntracked(d, s)
      BY <2>5, RunInvCloseUntracked
    <2>6. CASE CreateFails(d) \/ CreateDone(d)
      BY <2>6, RunInvCreateFails, RunInvCreateDone
    <2>7. QED
      BY <1>5, <2>1, <2>2, <2>3, <2>4, <2>5, <2>6 DEF DriverStep
  <1>6. CASE \E s \in Sessions : SessionEnds(s) \/ Ask(s) \/ Forget(s)
    BY <1>6, RunInvSessionStep
  <1>7. CASE Pass \/ RequestStop \/ Start \/ UNCHANGED vars
    BY <1>7, RunInvDaemonStep
  <1>8. CASE Stop
    BY <1>8, RunInvStop
  <1>9. QED
    BY <1>1, <1>2, <1>3, <1>4, <1>5, <1>6, <1>7, <1>8 DEF Next

LEMMA RunInvHolds == Spec => []RunInv
  <1>1. Init => RunInv
    BY RunInvInit
  <1>2. TypeOK /\ TypeOK' /\ RunInv /\ [Next]_vars => RunInv'
    BY RunInvNext
  <1>3. QED
    BY <1>1, <1>2, TypeCorrect, PTL DEF Spec

\* As long as no entry is removed, no session runs that neither its entry nor
\* a driver knows, whatever order decisions, reports, closes and failures
\* come in; an end of the daemon loses only those of which the file had no
\* record (Engine::launched, Item::track).
THEOREM RunsStayTracked == Spec => []RunsAreTracked
  <1>1. RunInv => RunsAreTracked
    BY DEF RunInv, Accounted, RunsAreTracked, InHand, Closing
  <1>2. QED
    BY <1>1, RunInvHolds, PTL

\* Two sessions of an entry that run: each is recorded, or in hand as the
\* one start under way, and not both kinds at once.
LEMMA RunInvSeparates ==
    ASSUME TypeOK, RunInv
    PROVE  NoOverlap
  <1> SUFFICES ASSUME removes = 0,
                      NEW s \in Sessions \ cut, NEW t \in Sessions \ cut,
                      st[s] = "up", ~Closing(s), st[t] = "up", ~Closing(t),
                      key[s][1] = key[t][1]
               PROVE  s = t
    BY DEF NoOverlap
  <1> DEFINE e == key[s][1]
             HasRecord(x) == e \in DOMAIN items /\ items[e].run = x
             HasStart(x) == \E d \in Drivers :
                                made[d] = x /\ todo[d][e].launch
  <1>1. ASSUME NEW x \in Sessions \ cut, st[x] = "up", ~Closing(x),
               key[x][1] = e
        PROVE  HasRecord(x) \/ HasStart(x)
    <2>1. x # 0
      BY SchedulerAssumption DEF Sessions
    <2>2. HasEntry(x) \/ \E d \in Drivers : made[d] = x
      BY <1>1 DEF RunInv, Accounted
    <2>3. CASE HasEntry(x)
      BY <1>1, <2>1, <2>3 DEF HasEntry, RunInv, RecordInv, Recorded, HasRun
    <2>4. ASSUME NEW d \in Drivers, made[d] = x
          PROVE  HasStart(x)
      <3>1. at[d] # "next"
        BY <2>1, <2>4 DEF RunInv, HandInv
      <3>2. PICK y \in Entries : Launching(d, y)
        BY <3>1 DEF RunInv, HandInv
      <3>3. key[x][1] = y
        BY <2>1, <2>4, <3>2 DEF RunInv, HandInv, Launching
      <3>4. QED
        BY <1>1, <2>4, <3>2, <3>3 DEF Launching
    <2>5. QED
      BY <2>2, <2>3, <2>4
  <1>2. e \in Entries
    BY DEF TypeOK, SessionType
  <1>3. HasRecord(s) \/ HasStart(s)
    BY <1>1
  <1>4. HasRecord(t) \/ HasStart(t)
    BY <1>1
  <1>5. s # 0 /\ t # 0
    BY SchedulerAssumption DEF Sessions
  <1>6. ASSUME HasStart(s) \/ HasStart(t)
        PROVE  ~(HasRecord(s) \/ HasRecord(t))
    BY <1>2, <1>5, <1>6 DEF RunInv, OneAtATime, HasRun
  <1>7. HasStart(s) /\ HasStart(t) => s = t
    BY <1>2 DEF RunInv, OneAtATime
  <1>8. QED
    BY <1>3, <1>4, <1>6, <1>7

\* As long as no entry is removed, an entry never has two sessions that run
\* and that no driver is about to close, except for what an end of the daemon
\* cut off: a start needs an entry without a run and without a start, and
\* holds its place from the decision to the report (Item::due,
\* Engine::fire, Engine::launched).
THEOREM RunsNeverOverlap == Spec => []NoOverlap
  <1>1. TypeOK /\ RunInv => NoOverlap
    BY RunInvSeparates
  <1>2. QED
    BY <1>1, TypeCorrect, RunInvHolds, PTL
=============================================================================
