------------------------- MODULE SessionActorProofs -------------------------
(***************************************************************************)
(* Proofs about SessionActor for every value of its constants: its types,  *)
(* that a KILL never strays to another process, and, when nobody watches   *)
(* the session while it exits, that it implements SessionLife and that     *)
(* one agent runs at a time.                                               *)
(***************************************************************************)
EXTENDS SessionActor, FiniteSetTheorems, TLAPS

-----------------------------------------------------------------------------
(* Types.                                                                  *)

Wake == [hooked : BOOLEAN, output : BOOLEAN, queue : Seq(Pieces)]
Clients == [Gens -> {"none", "task", "actor", "attached"}]

\* The elements of a queue are pieces of input.
LEMMA ElemsType ==
    ASSUME NEW q \in Seq(Pieces)
    PROVE  Elems(q) \in SUBSET Pieces
  <1>1. \A i \in 1..Len(q) : q[i] \in Pieces
    OBVIOUS
  <1>2. QED
    BY <1>1 DEF Elems

\* The connections the actor can have.
LEMMA LinkTypes ==
    /\ NoLink \in Link
    /\ \A g \in Gens : NewLink(g) \in Link
  BY BoundsAssumption DEF Link, NoLink, NewLink, Gens

LEMMA WakeTypes ==
    /\ NoWake \in Wake
    /\ \A q \in Seq(Pieces) : [NoWake EXCEPT !.queue = q] \in Wake
  <1>1. NoWake \in Wake
    BY DEF NoWake, Wake
  <1>2. QED
    BY <1>1 DEF Wake

\* What dropping a connection and a KILL leave behind.
LEMMA DropAndKillTypes ==
    ASSUME TypeOK
    PROVE  ClientsWithoutLink \in Clients /\ KillChild \in SUBSET Gens
  <1>1. ClientsWithoutLink \in Clients
    BY DEF TypeOK, HolderType, Clients, ClientsWithoutLink
  <1>2. link.gen \in 0..MaxGen /\ killed \in SUBSET Gens
    BY DEF TypeOK, HolderType, Link
  <1>3. CASE LinkUp
    <2>1. link.gen \in Gens
      BY <1>2, <1>3, BoundsAssumption DEF LinkUp, Gens
    <2>2. QED
      BY <1>1, <1>2, <2>1 DEF KillChild
  <1>4. CASE ~LinkUp
    BY <1>1, <1>2, <1>4 DEF KillChild
  <1>5. QED
    BY <1>3, <1>4

\* The shared endings keep the types of what they change.
LEMMA ExitedTypes ==
    ASSUME TypeOK, NEW b \in BOOLEAN, Exited(b)
    PROVE  /\ link' \in Link /\ status' \in {"hibernated", "exited"}
           /\ killAt' \in BOOLEAN /\ retry' \in BOOLEAN
           /\ closePending' \in {"none", "term", "kill"}
           /\ hibernating' \in BOOLEAN /\ client' \in Clients
           /\ wakeAsked' \in BOOLEAN
           /\ sleepWake' \in {"none", "asked", "calling"}
           /\ wake' = NoWake /\ dropped' \in SUBSET Pieces
           /\ launch' \in {"sealed", "damaged", "none"}
  <1>1. CASE hibernating /\ ~b
    <2>1. Hibernated
      BY <1>1 DEF Exited
    <2>2. QED
      BY <1>1, <2>1, LinkTypes, DropAndKillTypes
      DEF Hibernated, TypeOK, RecordType, CallType, InputType, WakeOnlyWaking
  <1>2. CASE ~(hibernating /\ ~b)
    <2>0. Ended(b)
      BY <1>2 DEF Exited
    <2>1. link' \in Link
      BY <2>0 DEF Ended, TypeOK, Link
    <2>2. Elems(wake.queue) \in SUBSET Pieces
      BY ElemsType DEF TypeOK, InputType
    <2>3. QED
      BY <2>0, <2>1, <2>2
      DEF Ended, TypeOK, RecordType, CallType, InputType, HolderType, Clients
  <1>3. QED
    BY <1>1, <1>2

LEMMA FinishWakeTypes ==
    ASSUME TypeOK, status = "waking", NEW l \in Link, NEW up, FinishWake(l, up)
    PROVE  /\ status' \in {"waking", "running"} /\ wake' \in Wake
           /\ status' # "waking" => wake' = NoWake
           /\ got' \in Seq(Pieces) /\ lost' \in SUBSET Pieces
  <1>1. wake \in Wake /\ got \in Seq(Pieces) /\ lost \in SUBSET Pieces
    BY DEF TypeOK, InputType, Wake
  <1>2. Elems(wake.queue) \in SUBSET Pieces /\ wake.queue \in Seq(Pieces)
    BY <1>1, ElemsType DEF Wake
  <1>3. [wake EXCEPT !.hooked = TRUE] \in Wake
    BY <1>1 DEF Wake
  <1>4. status' \in {"waking", "running"} /\ (status' # "waking" => wake' = NoWake)
    BY DEF FinishWake
  <1>5. wake' \in Wake
    BY <1>3, WakeTypes DEF FinishWake
  <1>6. got' \in Seq(Pieces)
    <2>1. got \o wake.queue \in Seq(Pieces)
      BY <1>1, <1>2
    <2>2. QED
      BY <1>1, <2>1 DEF FinishWake
  <1>7. lost' \in SUBSET Pieces
    BY <1>1, <1>2 DEF FinishWake
  <1>8. QED
    BY <1>4, <1>5, <1>6, <1>7

LEMMA WakeFailedTypes ==
    ASSUME TypeOK, NEW p \in 0..MaxGen, WakeFailed(p)
    PROVE  /\ link' \in Link /\ status' \in {"hibernated", "exited"}
           /\ pid' \in 0..MaxGen
           /\ killAt' \in BOOLEAN /\ retry' \in BOOLEAN
           /\ closePending' \in {"none", "term", "kill"}
           /\ hibernating' \in BOOLEAN /\ client' \in Clients
           /\ wakeAsked' \in BOOLEAN
           /\ sleepWake' \in {"none", "asked", "calling"}
           /\ wake' = NoWake /\ dropped' \in SUBSET Pieces
           /\ launch' \in {"sealed", "damaged", "none"}
  <1>1. CASE closing
    BY <1>1, ExitedTypes DEF WakeFailed, TypeOK, RecordType
  <1>2. CASE ~closing
    <2>1. Elems(wake.queue) \in SUBSET Pieces
      BY ElemsType DEF TypeOK, InputType
    <2>2. QED
      BY <1>2, <2>1, LinkTypes, DropAndKillTypes, BoundsAssumption
      DEF WakeFailed, TypeOK, RecordType, CallType, InputType, HolderType
  <1>3. QED
    BY <1>1, <1>2

LEMMA TypeInput ==
    ASSUME TypeOK, Input
    PROVE  TypeOK'
  <1>a. typed' \in Pieces /\ typed' \in 0..MaxInput
    BY BoundsAssumption DEF TypeOK, InputType, Input, Pieces
  <1>b. /\ Append(wake.queue, typed') \in Seq(Pieces)
         /\ Append(sleepQueue, typed') \in Seq(Pieces)
         /\ Append(got, typed') \in Seq(Pieces)
    BY <1>a DEF TypeOK, InputType
  <1>1. link' \in Link
    BY DEF TypeOK, Input, actorVars
  <1>2. RecordType'
    BY DEF TypeOK, Input, actorVars, RecordType, Status
  <1>3. InputType'
    BY BoundsAssumption, <1>a, <1>b
    DEF TypeOK, Input, InputQueuedForWake, InputQueuedForSleep, InputSent,
        InputType
  <1>4. CallType'
    BY DEF TypeOK, Input, wakeCallVars, CallType
  <1>5. HolderType'
    BY BoundsAssumption
    DEF TypeOK, Input, holdVars, HolderType, HoldState, Gens
  <1>6. WakeOnlyWaking'
    BY DEF TypeOK, Input, InputQueuedForWake, InputQueuedForSleep, InputSent,
        actorVars, WakeOnlyWaking, RecordType
  <1>7. QED
    BY <1>1, <1>2, <1>3, <1>4, <1>5, <1>6 DEF TypeOK

LEMMA TypeClose ==
    ASSUME TypeOK, NEW graceful \in BOOLEAN, Close(graceful)
    PROVE  TypeOK'
  <1>1. CASE CloseAsleep
    <2>1. Exited(TRUE) /\ killed' = killed
      BY <1>1 DEF CloseAsleep
    <2>2. RecordType' /\ WakeOnlyWaking'
      BY <2>1, ExitedTypes
      DEF Close, TypeOK, RecordType, Status, WakeOnlyWaking
    <2>3. InputType' /\ CallType'
      BY <2>1, ExitedTypes, WakeTypes
      DEF Close, TypeOK, InputType, CallType, Wake
    <2>4. HolderType'
      BY <2>1, ExitedTypes DEF Close, TypeOK, HolderType, Clients
    <2>5. QED
      BY <2>1, <2>2, <2>3, <2>4, ExitedTypes DEF TypeOK
  <1>2. CASE CloseLater(graceful) \/ CloseNow(graceful)
    <2>1. RecordType'
      BY <1>2 DEF Close, CloseLater, CloseNow, TypeOK, RecordType
    <2>2. link' \in Link /\ InputType' /\ WakeOnlyWaking'
      BY <1>2
      DEF Close, CloseLater, CloseNow, TypeOK, InputType, WakeOnlyWaking
    <2>3. CallType'
      BY <1>2 DEF Close, CloseLater, CloseNow, TypeOK, CallType
    <2>4. HolderType'
      BY <1>2, DropAndKillTypes
      DEF Close, CloseLater, CloseNow, TypeOK, HolderType
    <2>5. QED
      BY <2>1, <2>2, <2>3, <2>4 DEF TypeOK
  <1>3. QED
    BY <1>1, <1>2 DEF Close

LEMMA TypeGoToSleep ==
    ASSUME TypeOK, GoToSleep
    PROVE  TypeOK'
  <1>1. link' \in Link
    BY DEF TypeOK, GoToSleep
  <1>2. RecordType'
    BY DEF TypeOK, GoToSleep, SleepTerm, RecordType, Status
  <1>3. InputType'
    BY BoundsAssumption DEF TypeOK, GoToSleep, inputVars, InputType
  <1>4. CallType'
    BY DEF TypeOK, GoToSleep, wakeCallVars, CallType
  <1>5. HolderType'
    BY BoundsAssumption
    DEF TypeOK, GoToSleep, holdVars, HolderType, HoldState, Gens
  <1>6. WakeOnlyWaking'
    BY DEF TypeOK, GoToSleep, MaySleep, SleepTerm, WakeOnlyWaking
  <1>7. QED
    BY <1>1, <1>2, <1>3, <1>4, <1>5, <1>6 DEF TypeOK

LEMMA TypeHook ==
    ASSUME TypeOK, Hook
    PROVE  TypeOK'
  <1>1. link' \in Link
    BY DEF TypeOK, Hook
  <1>2. RecordType'
    BY FinishWakeTypes DEF TypeOK, Hook, RecordType, Status, Wake
  <1>3. InputType'
    BY BoundsAssumption, FinishWakeTypes DEF TypeOK, Hook, InputType, Wake
  <1>4. CallType'
    BY DEF TypeOK, Hook, wakeCallVars, CallType
  <1>5. HolderType'
    BY BoundsAssumption DEF TypeOK, Hook, holdVars, HolderType, HoldState, Gens
  <1>6. WakeOnlyWaking'
    BY FinishWakeTypes DEF TypeOK, Hook, WakeOnlyWaking, RecordType, Wake
  <1>7. QED
    BY <1>1, <1>2, <1>3, <1>4, <1>5, <1>6 DEF TypeOK

LEMMA TypeExpire ==
    ASSUME TypeOK, Expire
    PROVE  TypeOK'
  <1>1. link' \in Link
    BY LinkTypes DEF TypeOK, Expire
  <1>2. RecordType'
    BY DEF TypeOK, Expire, RecordType, Status
  <1>3. InputType'
    BY BoundsAssumption, ElemsType DEF TypeOK, Expire, InputType
  <1>4. CallType'
    BY DEF TypeOK, Expire, CallType
  <1>5. HolderType'
    BY BoundsAssumption, DropAndKillTypes
    DEF TypeOK, Expire, HolderType, HoldState, Gens, Clients
  <1>6. WakeOnlyWaking'
    BY DEF TypeOK, Expire, WakeOnlyWaking, RecordType
  <1>7. QED
    BY <1>1, <1>2, <1>3, <1>4, <1>5, <1>6 DEF TypeOK

LEMMA TypeSleepInputDropped ==
    ASSUME TypeOK, SleepInputDropped
    PROVE  TypeOK'
  <1>1. link' \in Link
    BY DEF TypeOK, SleepInputDropped
  <1>2. RecordType'
    BY DEF TypeOK, SleepInputDropped, RecordType, Status
  <1>3. InputType'
    BY BoundsAssumption, ElemsType DEF TypeOK, SleepInputDropped, InputType
  <1>4. CallType'
    BY DEF TypeOK, SleepInputDropped, CallType
  <1>5. HolderType'
    BY BoundsAssumption
    DEF TypeOK, SleepInputDropped, holdVars, HolderType, HoldState, Gens
  <1>6. WakeOnlyWaking'
    BY DEF TypeOK, SleepInputDropped, WakeOnlyWaking, RecordType
  <1>7. QED
    BY <1>1, <1>2, <1>3, <1>4, <1>5, <1>6 DEF TypeOK

LEMMA TypeReadAnswer ==
    ASSUME TypeOK, ReadAnswer
    PROVE  TypeOK'
  <1>1. link' \in Link
    BY DEF TypeOK, ReadAnswer, Link
  <1>2. RecordType'
    BY BoundsAssumption DEF TypeOK, ReadAnswer, RecordType, Status, Link
  <1>3. InputType'
    BY BoundsAssumption DEF TypeOK, ReadAnswer, inputVars, InputType
  <1>4. CallType'
    BY DEF TypeOK, ReadAnswer, wakeCallVars, CallType
  <1>5. HolderType'
    BY BoundsAssumption, DropAndKillTypes
    DEF TypeOK, ReadAnswer, HolderType, HoldState, Gens
  <1>6. WakeOnlyWaking'
    BY DEF TypeOK, ReadAnswer, WakeOnlyWaking, RecordType
  <1>7. QED
    BY <1>1, <1>2, <1>3, <1>4, <1>5, <1>6 DEF TypeOK

LEMMA TypeReadOutput ==
    ASSUME TypeOK, ReadOutput
    PROVE  TypeOK'
  <1>1. link' \in Link
    BY DEF TypeOK, ReadOutput, actorVars
  <1>2. RecordType'
    BY DEF TypeOK, ReadOutput, actorVars, RecordType, Status
  <1>3. InputType'
    BY BoundsAssumption DEF TypeOK, ReadOutput, inputVars, InputType
  <1>4. CallType'
    BY DEF TypeOK, ReadOutput, wakeCallVars, CallType
  <1>5. HolderType'
    BY BoundsAssumption
    DEF TypeOK, ReadOutput, holdVars, HolderType, HoldState, Gens
  <1>6. WakeOnlyWaking'
    BY DEF TypeOK, ReadOutput, actorVars, WakeOnlyWaking, RecordType
  <1>7. QED
    BY <1>1, <1>2, <1>3, <1>4, <1>5, <1>6 DEF TypeOK

LEMMA TypeReadExit ==
    ASSUME TypeOK, ReadExit
    PROVE  TypeOK'
  <1>1. link' \in Link
    BY ExitedTypes, WakeTypes DEF TypeOK, ReadExit, RecordType, Clients, Wake
  <1>2. RecordType'
    BY ExitedTypes, WakeTypes
    DEF TypeOK, ReadExit, RecordType, Status, Clients, Wake
  <1>3. InputType'
    BY BoundsAssumption, ExitedTypes, WakeTypes
    DEF TypeOK, ReadExit, InputType, RecordType, Clients, Wake
  <1>4. CallType'
    BY ExitedTypes, WakeTypes
    DEF TypeOK, ReadExit, CallType, RecordType, Clients, Wake
  <1>5. HolderType'
    BY BoundsAssumption, ExitedTypes, WakeTypes
    DEF TypeOK, ReadExit, HolderType, HoldState, Gens, RecordType, Clients,
        Wake
  <1>6. WakeOnlyWaking'
    BY ExitedTypes, WakeTypes
    DEF TypeOK, ReadExit, WakeOnlyWaking, RecordType, Clients, Wake
  <1>7. QED
    BY <1>1, <1>2, <1>3, <1>4, <1>5, <1>6 DEF TypeOK

LEMMA TypeReadEof ==
    ASSUME TypeOK, ReadEof
    PROVE  TypeOK'
  <1>1. link' \in Link
    BY DEF TypeOK, ReadEof, HolderLost, Link
  <1>2. RecordType'
    BY DEF TypeOK, ReadEof, HolderLost, RecordType, Status
  <1>3. InputType'
    BY BoundsAssumption DEF TypeOK, ReadEof, inputVars, InputType
  <1>4. CallType'
    BY DEF TypeOK, ReadEof, wakeCallVars, CallType
  <1>5. HolderType'
    BY BoundsAssumption
    DEF TypeOK, ReadEof, holdVars, HolderType, HoldState, Gens
  <1>6. WakeOnlyWaking'
    BY DEF TypeOK, ReadEof, HolderLost, WakeOnlyWaking, RecordType
  <1>7. QED
    BY <1>1, <1>2, <1>3, <1>4, <1>5, <1>6 DEF TypeOK

LEMMA TypeKillFires ==
    ASSUME TypeOK, KillFires
    PROVE  TypeOK'
  <1>1. link' \in Link
    BY DEF TypeOK, KillFires
  <1>2. RecordType'
    BY DEF TypeOK, KillFires, RecordType, Status
  <1>3. InputType'
    BY BoundsAssumption DEF TypeOK, KillFires, inputVars, InputType
  <1>4. CallType'
    BY DEF TypeOK, KillFires, wakeCallVars, CallType
  <1>5. HolderType'
    BY BoundsAssumption, DropAndKillTypes
    DEF TypeOK, KillFires, HolderType, HoldState, Gens
  <1>6. WakeOnlyWaking'
    BY DEF TypeOK, KillFires, WakeOnlyWaking, RecordType
  <1>7. QED
    BY <1>1, <1>2, <1>3, <1>4, <1>5, <1>6 DEF TypeOK

LEMMA TypeReconnect ==
    ASSUME TypeOK, Reconnect
    PROVE  TypeOK'
  <1>1. CASE Reconnected
    <2>1. sock \in Gens /\ sock' = sock
      BY <1>1, BoundsAssumption DEF Reconnected, TypeOK, HolderType, Gens
    <2>2. link' \in Link /\ client' \in Clients
      BY <1>1, <2>1, LinkTypes, DropAndKillTypes DEF Reconnected, Clients
    <2>3. RecordType' /\ WakeOnlyWaking'
      BY <1>1 DEF Reconnect, Reconnected, TypeOK, RecordType, WakeOnlyWaking
    <2>3a. InputType' /\ CallType'
      BY <1>1 DEF Reconnect, Reconnected, TypeOK, InputType, CallType
    <2>4. HolderType'
      BY <2>1, <2>2 DEF Reconnect, TypeOK, HolderType, Clients
    <2>5. QED
      BY <2>2, <2>3, <2>3a, <2>4 DEF TypeOK
  <1>2. CASE HolderGone
    <2>1. Exited(closing) /\ closing \in BOOLEAN /\ sock' \in 0..MaxGen
      BY <1>2, BoundsAssumption DEF HolderGone, TypeOK, RecordType
    <2>2. RecordType' /\ WakeOnlyWaking'
      BY <2>1, ExitedTypes
      DEF Reconnect, TypeOK, RecordType, Status, WakeOnlyWaking
    <2>3. InputType' /\ CallType'
      BY <2>1, ExitedTypes, WakeTypes
      DEF Reconnect, TypeOK, InputType, CallType, Wake
    <2>4. HolderType'
      BY <2>1, ExitedTypes DEF Reconnect, TypeOK, HolderType, Clients
    <2>5. QED
      BY <2>1, <2>2, <2>3, <2>4, ExitedTypes DEF TypeOK
  <1>3. QED
    BY <1>1, <1>2 DEF Reconnect

LEMMA TypeWakeQuiet ==
    ASSUME TypeOK, WakeQuiet
    PROVE  TypeOK'
  <1>1. link' \in Link
    BY DEF TypeOK, WakeQuiet
  <1>2. RecordType'
    BY FinishWakeTypes DEF TypeOK, WakeQuiet, RecordType, Status, Wake
  <1>3. InputType'
    BY BoundsAssumption, FinishWakeTypes DEF TypeOK, WakeQuiet, InputType, Wake
  <1>4. CallType'
    BY DEF TypeOK, WakeQuiet, wakeCallVars, CallType
  <1>5. HolderType'
    BY BoundsAssumption
    DEF TypeOK, WakeQuiet, holdVars, HolderType, HoldState, Gens
  <1>6. WakeOnlyWaking'
    BY FinishWakeTypes DEF TypeOK, WakeQuiet, WakeOnlyWaking, RecordType, Wake
  <1>7. QED
    BY <1>1, <1>2, <1>3, <1>4, <1>5, <1>6 DEF TypeOK

LEMMA TypeWakeCap ==
    ASSUME TypeOK, WakeCap
    PROVE  TypeOK'
  <1>1. CASE link.gen # 0
    <2>1. FinishWake(link, LinkUp) /\ status = "waking" /\ link \in Link
      BY <1>1 DEF WakeCap, TypeOK
    <2>2. RecordType' /\ WakeOnlyWaking'
      BY <1>1, <2>1, FinishWakeTypes
      DEF WakeCap, TypeOK, RecordType, Status, WakeOnlyWaking
    <2>3. InputType'
      BY <1>1, <2>1, FinishWakeTypes DEF WakeCap, TypeOK, InputType, Wake
    <2>4. link' \in Link /\ CallType' /\ HolderType'
      BY <1>1 DEF WakeCap, TypeOK, CallType, HolderType
    <2>5. QED
      BY <2>2, <2>3, <2>4 DEF TypeOK
  <1>2. CASE link.gen = 0
    <2>1. WakeFailed(pid) /\ UNCHANGED <<got, lost>> /\ pid \in 0..MaxGen
      BY <1>2 DEF WakeCap, TypeOK, RecordType
    <2>2. RecordType' /\ WakeOnlyWaking'
      BY <2>1, WakeFailedTypes DEF WakeCap, TypeOK, RecordType, Status, WakeOnlyWaking
    <2>3. InputType'
      BY <2>1, WakeFailedTypes, WakeTypes
      DEF WakeCap, TypeOK, InputType, Wake
    <2>4. CallType' /\ HolderType'
      BY <2>1, WakeFailedTypes
      DEF WakeCap, TypeOK, CallType, HolderType, Clients
    <2>5. QED
      BY <2>1, <2>2, <2>3, <2>4, WakeFailedTypes DEF TypeOK
  <1>3. QED
    BY <1>1, <1>2

LEMMA TypeSpawned ==
    ASSUME TypeOK, NEW g \in Gens, Spawned(g)
    PROVE  TypeOK'
  <1>0. spawned' \in [Gens -> {"no", "ok", "err"}]
    BY DEF Spawned, TypeOK, HolderType
  <1>1. CASE SpawnedTooLate(g)
    BY <1>0, <1>1
    DEF Spawned, SpawnedTooLate, TypeOK, RecordType, InputType, CallType,
        HolderType, HoldState, WakeOnlyWaking
  <1>2. CASE SpawnedOk(g)
    <2>1. link' \in Link /\ client' \in Clients /\ pid' \in 0..MaxGen
      BY <1>2, LinkTypes, DropAndKillTypes, BoundsAssumption
      DEF SpawnedOk, Clients, Gens
    <2>2. /\ status' \in {"waking", "running"} /\ wake' \in Wake
          /\ status' # "waking" => wake' = NoWake
          /\ got' \in Seq(Pieces) /\ lost' \in SUBSET Pieces
      <3>1. CASE wake.hooked
        BY <1>2, <3>1, LinkTypes, FinishWakeTypes DEF SpawnedOk
      <3>2. CASE ~wake.hooked
        BY <1>2, <3>2 DEF SpawnedOk, TypeOK, InputType, Wake
      <3>3. QED
        BY <3>1, <3>2
    <2>3. RecordType' /\ WakeOnlyWaking'
      BY <1>2, <2>1, <2>2
      DEF Spawned, SpawnedOk, TypeOK, RecordType, Status, WakeOnlyWaking
    <2>4. InputType' /\ CallType'
      BY <1>2, <2>2 DEF Spawned, SpawnedOk, TypeOK, InputType, CallType, Wake
    <2>5. HolderType'
      BY <1>0, <1>2, <2>1
      DEF Spawned, SpawnedOk, TypeOK, HolderType, Clients
    <2>6. QED
      BY <2>1, <2>2, <2>3, <2>4, <2>5 DEF TypeOK
  <1>3. CASE SpawnedErr(g) \/ SpawnedBroken(g)
    <2>1. PICK p \in 0..MaxGen : WakeFailed(p)
      BY <1>3, BoundsAssumption
      DEF SpawnedErr, SpawnedBroken, TypeOK, RecordType, Gens
    <2>1a. UNCHANGED <<got, lost>> /\ hold' \in [Gens -> HoldState]
      BY <1>3 DEF SpawnedErr, SpawnedBroken, TypeOK, HolderType, HoldState
    <2>2. RecordType' /\ WakeOnlyWaking'
      BY <2>1, WakeFailedTypes DEF Spawned, TypeOK, RecordType, Status, WakeOnlyWaking
    <2>3. InputType'
      BY <2>1, <2>1a, WakeFailedTypes, WakeTypes
      DEF Spawned, TypeOK, InputType, Wake
    <2>4. CallType' /\ HolderType'
      BY <1>0, <2>1, <2>1a, WakeFailedTypes
      DEF Spawned, TypeOK, CallType, HolderType, Clients
    <2>5. QED
      BY <2>1, <2>2, <2>3, <2>4, WakeFailedTypes DEF TypeOK
  <1>4. QED
    BY <1>1, <1>2, <1>3 DEF Spawned

LEMMA TypeActorEnds ==
    ASSUME TypeOK, ActorEnds
    PROVE  TypeOK'
  <1>1. link' \in Link
    BY LinkTypes DEF TypeOK, ActorEnds
  <1>2. RecordType'
    BY DEF TypeOK, ActorEnds, RecordType, Status
  <1>3. InputType'
    BY BoundsAssumption, ElemsType DEF TypeOK, ActorEnds, InputType
  <1>4. CallType'
    BY DEF TypeOK, ActorEnds, CallType
  <1>5. HolderType'
    BY BoundsAssumption, DropAndKillTypes
    DEF TypeOK, ActorEnds, HolderType, HoldState, Gens, Clients
  <1>6. WakeOnlyWaking'
    BY DEF TypeOK, ActorEnds, WakeOnlyWaking, RecordType
  <1>7. QED
    BY <1>1, <1>2, <1>3, <1>4, <1>5, <1>6 DEF TypeOK

LEMMA TypeSpawnedToNobody ==
    ASSUME TypeOK, NEW g \in Gens, SpawnedToNobody(g)
    PROVE  TypeOK'
  <1>1. link' \in Link
    BY DEF TypeOK, SpawnedToNobody, actorVars
  <1>2. RecordType'
    BY DEF TypeOK, SpawnedToNobody, actorVars, RecordType, Status
  <1>3. InputType'
    BY BoundsAssumption DEF TypeOK, SpawnedToNobody, inputVars, InputType
  <1>4. CallType'
    BY DEF TypeOK, SpawnedToNobody, wakeCallVars, CallType
  <1>5. HolderType'
    BY BoundsAssumption
    DEF TypeOK, SpawnedToNobody, HolderType, HoldState, Gens
  <1>6. WakeOnlyWaking'
    BY DEF TypeOK, SpawnedToNobody, actorVars, WakeOnlyWaking, RecordType
  <1>7. QED
    BY <1>1, <1>2, <1>3, <1>4, <1>5, <1>6 DEF TypeOK

LEMMA TypeWakeCall ==
    ASSUME TypeOK, NEW byTask \in BOOLEAN, WakeCall(byTask)
    PROVE  TypeOK'
  <1>1. link' \in Link
    BY DEF TypeOK, WakeCall, actorVars
  <1>2. RecordType'
    BY DEF TypeOK, WakeCall, actorVars, RecordType, Status
  <1>3. InputType'
    BY BoundsAssumption DEF TypeOK, WakeCall, inputVars, InputType
  <1>4. CallType'
    BY DEF TypeOK, WakeCall, WakeBegins, WakeNotNeeded, CallType
  <1>5. HolderType'
    BY BoundsAssumption
    DEF TypeOK, WakeCall, holdVars, HolderType, HoldState, Gens
  <1>6. WakeOnlyWaking'
    BY DEF TypeOK, WakeCall, actorVars, WakeOnlyWaking, RecordType
  <1>7. QED
    BY <1>1, <1>2, <1>3, <1>4, <1>5, <1>6 DEF TypeOK

LEMMA TypeWakeAsks ==
    ASSUME TypeOK, WakeAsks
    PROVE  TypeOK'
  <1>1. link' \in Link
    BY DEF TypeOK, WakeAsks
  <1>2. RecordType'
    BY DEF TypeOK, WakeAsks, RecordType, Status
  <1>3. InputType'
    BY BoundsAssumption DEF TypeOK, WakeAsks, inputVars, InputType
  <1>4. CallType'
    BY DEF TypeOK, WakeAsks, CallReturnsOk, CallFails, CallType
  <1>5. HolderType'
    BY BoundsAssumption
    DEF TypeOK, WakeAsks, holdVars, HolderType, HoldState, Gens
  <1>6. WakeOnlyWaking'
    BY DEF TypeOK, WakeAsks, WakeOnlyWaking, RecordType
  <1>7. QED
    BY <1>1, <1>2, <1>3, <1>4, <1>5, <1>6 DEF TypeOK

LEMMA TypeLaunchOpens ==
    ASSUME TypeOK, LaunchOpens
    PROVE  TypeOK'
  <1>1. link' \in Link
    BY DEF TypeOK, LaunchOpens, actorVars
  <1>2. RecordType'
    BY DEF TypeOK, LaunchOpens, actorVars, RecordType, Status
  <1>3. InputType'
    BY BoundsAssumption DEF TypeOK, LaunchOpens, inputVars, InputType
  <1>4. CallType'
    BY DEF TypeOK, LaunchOpens, CallType
  <1>5. HolderType'
    BY BoundsAssumption
    DEF TypeOK, LaunchOpens, holdVars, HolderType, HoldState, Gens
  <1>6. WakeOnlyWaking'
    BY DEF TypeOK, LaunchOpens, actorVars, WakeOnlyWaking, RecordType
  <1>7. QED
    BY <1>1, <1>2, <1>3, <1>4, <1>5, <1>6 DEF TypeOK

LEMMA TypeLaunchGone ==
    ASSUME TypeOK, LaunchGone
    PROVE  TypeOK'
  <1>1. link' \in Link
    BY DEF TypeOK, LaunchGone
  <1>2. RecordType'
    BY DEF TypeOK, LaunchGone, LaunchLostAsleep, LaunchLostElse, RecordType,
        Status
  <1>3. InputType'
    BY BoundsAssumption DEF TypeOK, LaunchGone, inputVars, InputType
  <1>4. CallType'
    BY DEF TypeOK, LaunchGone, LaunchLostAsleep, LaunchLostElse, CallFails,
        CallType
  <1>5. HolderType'
    BY BoundsAssumption
    DEF TypeOK, LaunchGone, holdVars, HolderType, HoldState, Gens
  <1>6. WakeOnlyWaking'
    BY DEF TypeOK, LaunchGone, LaunchLostAsleep, LaunchLostElse,
        WakeOnlyWaking, RecordType
  <1>7. QED
    BY <1>1, <1>2, <1>3, <1>4, <1>5, <1>6 DEF TypeOK

LEMMA TypeWakeGivesUp ==
    ASSUME TypeOK, WakeGivesUp
    PROVE  TypeOK'
  <1>1. link' \in Link
    BY DEF TypeOK, WakeGivesUp, actorVars
  <1>2. RecordType'
    BY DEF TypeOK, WakeGivesUp, actorVars, RecordType, Status
  <1>3. InputType'
    BY BoundsAssumption DEF TypeOK, WakeGivesUp, inputVars, InputType
  <1>4. CallType'
    BY DEF TypeOK, WakeGivesUp, CallFails, CallType
  <1>5. HolderType'
    BY BoundsAssumption
    DEF TypeOK, WakeGivesUp, holdVars, HolderType, HoldState, Gens
  <1>6. WakeOnlyWaking'
    BY DEF TypeOK, WakeGivesUp, actorVars, WakeOnlyWaking, RecordType
  <1>7. QED
    BY <1>1, <1>2, <1>3, <1>4, <1>5, <1>6 DEF TypeOK

LEMMA TypeWakeStartsActor ==
    ASSUME TypeOK, WakeStartsActor
    PROVE  TypeOK'
  <1>1. link' \in Link
    BY DEF TypeOK, WakeStartsActor
  <1>2. RecordType'
    BY DEF TypeOK, WakeStartsActor, RecordType, Status
  <1>3. InputType'
    BY BoundsAssumption DEF TypeOK, WakeStartsActor, inputVars, InputType
  <1>4. CallType'
    BY DEF TypeOK, WakeStartsActor, CallType
  <1>5. HolderType'
    BY BoundsAssumption
    DEF TypeOK, WakeStartsActor, holdVars, HolderType, HoldState, Gens
  <1>6. WakeOnlyWaking'
    BY DEF TypeOK, WakeStartsActor, MayStartActor, WakeOnlyWaking
  <1>7. QED
    BY <1>1, <1>2, <1>3, <1>4, <1>5, <1>6 DEF TypeOK

LEMMA TypeWakeRefused ==
    ASSUME TypeOK, WakeRefused
    PROVE  TypeOK'
  <1>1. link' \in Link
    BY DEF TypeOK, WakeRefused, actorVars
  <1>2. RecordType'
    BY DEF TypeOK, WakeRefused, actorVars, RecordType, Status
  <1>3. InputType'
    BY BoundsAssumption DEF TypeOK, WakeRefused, inputVars, InputType
  <1>4. CallType'
    BY DEF TypeOK, WakeRefused, CallFails, CallType
  <1>5. HolderType'
    BY BoundsAssumption
    DEF TypeOK, WakeRefused, holdVars, HolderType, HoldState, Gens
  <1>6. WakeOnlyWaking'
    BY DEF TypeOK, WakeRefused, actorVars, WakeOnlyWaking, RecordType
  <1>7. QED
    BY <1>1, <1>2, <1>3, <1>4, <1>5, <1>6 DEF TypeOK

LEMMA TypeBeginWake ==
    ASSUME TypeOK, BeginWake
    PROVE  TypeOK'
  <1>a. gen + 1 \in Gens /\ gen' = gen + 1
    BY BoundsAssumption DEF TypeOK, HolderType, BeginWake, Gens
  <1>1. link' \in Link
    BY DEF TypeOK, BeginWake
  <1>b. pid' \in 0..MaxGen /\ status' \in Status
    BY BoundsAssumption DEF BeginWake, Status
  <1>2. RecordType'
    BY <1>b DEF TypeOK, BeginWake, RecordType
  <1>3. InputType'
    BY BoundsAssumption, WakeTypes
    DEF TypeOK, BeginWake, TakeSleepInput, inputVars, InputType, Wake
  <1>4. CallType'
    BY DEF TypeOK, BeginWake, CallReturnsOk, CallType
  <1>5. HolderType'
    BY BoundsAssumption, <1>a
    DEF TypeOK, BeginWake, HolderType, HoldState, Gens, RecordType
  <1>6. WakeOnlyWaking'
    BY DEF TypeOK, BeginWake, TakeSleepInput, WakeOnlyWaking, RecordType,
        Serves
  <1>7. QED
    BY <1>1, <1>2, <1>3, <1>4, <1>5, <1>6 DEF TypeOK

LEMMA TypeSpawnUp ==
    ASSUME TypeOK, NEW g \in Gens, SpawnUp(g)
    PROVE  TypeOK'
  <1>1. link' \in Link
    BY DEF TypeOK, SpawnUp, actorVars
  <1>2. RecordType'
    BY DEF TypeOK, SpawnUp, actorVars, RecordType, Status
  <1>3. InputType'
    BY BoundsAssumption DEF TypeOK, SpawnUp, inputVars, InputType
  <1>4. CallType'
    BY DEF TypeOK, SpawnUp, wakeCallVars, CallType
  <1>5. HolderType'
    BY BoundsAssumption DEF TypeOK, SpawnUp, HolderType, HoldState, Gens
  <1>6. WakeOnlyWaking'
    BY DEF TypeOK, SpawnUp, actorVars, WakeOnlyWaking, RecordType
  <1>7. QED
    BY <1>1, <1>2, <1>3, <1>4, <1>5, <1>6 DEF TypeOK

LEMMA TypeSpawnFails ==
    ASSUME TypeOK, NEW g \in Gens, SpawnFails(g)
    PROVE  TypeOK'
  <1>1. link' \in Link
    BY DEF TypeOK, SpawnFails, actorVars
  <1>2. RecordType'
    BY DEF TypeOK, SpawnFails, actorVars, RecordType, Status
  <1>3. InputType'
    BY BoundsAssumption DEF TypeOK, SpawnFails, inputVars, InputType
  <1>4. CallType'
    BY DEF TypeOK, SpawnFails, wakeCallVars, CallType
  <1>5. HolderType'
    BY BoundsAssumption DEF TypeOK, SpawnFails, HolderType, HoldState, Gens
  <1>6. WakeOnlyWaking'
    BY DEF TypeOK, SpawnFails, actorVars, WakeOnlyWaking, RecordType
  <1>7. QED
    BY <1>1, <1>2, <1>3, <1>4, <1>5, <1>6 DEF TypeOK

LEMMA TypeChildExits ==
    ASSUME TypeOK, NEW g \in Gens, ChildExits(g)
    PROVE  TypeOK'
  <1>1. link' \in Link
    BY DEF TypeOK, ChildExits, Link
  <1>2. RecordType'
    BY DEF TypeOK, ChildExits, RecordType, Status
  <1>3. InputType'
    BY BoundsAssumption DEF TypeOK, ChildExits, inputVars, InputType
  <1>4. CallType'
    BY DEF TypeOK, ChildExits, wakeCallVars, CallType
  <1>5. HolderType'
    BY BoundsAssumption DEF TypeOK, ChildExits, HolderType, HoldState, Gens
  <1>6. WakeOnlyWaking'
    BY DEF TypeOK, ChildExits, WakeOnlyWaking, RecordType
  <1>7. QED
    BY <1>1, <1>2, <1>3, <1>4, <1>5, <1>6 DEF TypeOK

LEMMA TypeHoldAttach ==
    ASSUME TypeOK, NEW g \in Gens, HoldAttach(g)
    PROVE  TypeOK'
  <1>1. link' \in Link
    BY DEF TypeOK, HoldAttach, Link
  <1>2. RecordType'
    BY DEF TypeOK, HoldAttach, RecordType, Status
  <1>3. InputType'
    BY BoundsAssumption DEF TypeOK, HoldAttach, inputVars, InputType
  <1>4. CallType'
    BY DEF TypeOK, HoldAttach, wakeCallVars, CallType
  <1>5. HolderType'
    BY BoundsAssumption DEF TypeOK, HoldAttach, HolderType, HoldState, Gens
  <1>6. WakeOnlyWaking'
    BY DEF TypeOK, HoldAttach, WakeOnlyWaking, RecordType
  <1>7. QED
    BY <1>1, <1>2, <1>3, <1>4, <1>5, <1>6 DEF TypeOK

LEMMA TypeHoldEnds ==
    ASSUME TypeOK, NEW g \in Gens, HoldEnds(g)
    PROVE  TypeOK'
  <1>1. link' \in Link
    BY DEF TypeOK, HoldEnds, actorVars
  <1>2. RecordType'
    BY DEF TypeOK, HoldEnds, actorVars, RecordType, Status
  <1>3. InputType'
    BY BoundsAssumption DEF TypeOK, HoldEnds, inputVars, InputType
  <1>4. CallType'
    BY DEF TypeOK, HoldEnds, wakeCallVars, CallType
  <1>5. HolderType'
    BY BoundsAssumption DEF TypeOK, HoldEnds, HolderType, HoldState, Gens
  <1>6. WakeOnlyWaking'
    BY DEF TypeOK, HoldEnds, actorVars, WakeOnlyWaking, RecordType
  <1>7. QED
    BY <1>1, <1>2, <1>3, <1>4, <1>5, <1>6 DEF TypeOK

LEMMA TypeFault ==
    ASSUME TypeOK, Fault
    PROVE  TypeOK'
  <1>1. link' \in Link
    BY DEF TypeOK, Fault, actorVars
  <1>2. RecordType'
    BY DEF TypeOK, Fault, actorVars, RecordType, Status
  <1>3. InputType'
    BY BoundsAssumption DEF TypeOK, Fault, inputVars, InputType
  <1>4. CallType'
    BY BoundsAssumption
    DEF TypeOK, Fault, LaunchDamaged, ClientDropped, HolderDies, CallType
  <1>5. HolderType'
    BY BoundsAssumption
    DEF TypeOK, Fault, LaunchDamaged, ClientDropped, HolderDies, HolderType,
        HoldState, Gens
  <1>6. WakeOnlyWaking'
    BY DEF TypeOK, Fault, actorVars, WakeOnlyWaking, RecordType
  <1>7. QED
    BY <1>1, <1>2, <1>3, <1>4, <1>5, <1>6 DEF TypeOK

LEMMA TypeRemoveExited ==
    ASSUME TypeOK, RemoveExited
    PROVE  TypeOK'
  <1>1. link' \in Link
    BY DEF TypeOK, RemoveExited
  <1>2. RecordType'
    BY DEF TypeOK, RemoveExited, RecordType, Status
  <1>3. InputType'
    BY BoundsAssumption DEF TypeOK, RemoveExited, inputVars, InputType
  <1>4. CallType'
    BY DEF TypeOK, RemoveExited, CallType
  <1>5. HolderType'
    BY BoundsAssumption
    DEF TypeOK, RemoveExited, holdVars, HolderType, HoldState, Gens
  <1>6. WakeOnlyWaking'
    BY DEF TypeOK, RemoveExited, WakeOnlyWaking, RecordType
  <1>7. QED
    BY <1>1, <1>2, <1>3, <1>4, <1>5, <1>6 DEF TypeOK
LEMMA TypeInit == Init => TypeOK
  <1>. SUFFICES ASSUME Init PROVE TypeOK
    OBVIOUS
  <1>0. 1 \in Gens /\ 0 \in 0..MaxGen /\ 1 \in 0..MaxGen
    BY BoundsAssumption DEF Gens
  <1>1. link \in Link
    <2>1. NewLink(1) \in Link
      BY <1>0, LinkTypes
    <2>2. QED
      BY <2>1 DEF Init, Link
  <1>2. hasLaunch \in BOOLEAN
    BY Zenon DEF Init
  <1>3. RecordType
    BY <1>0, <1>2 DEF Init, RecordType, Status
  <1>4. InputType
    BY WakeTypes, BoundsAssumption DEF Init, InputType, Wake
  <1>5. CallType
    <2>1. faults \in 0..MaxFaults
      BY BoundsAssumption DEF Init
    <2>2. launch \in {"sealed", "damaged", "none"}
      BY Zenon DEF Init
    <2>3. /\ call \in {"idle", "reading", "opened", "started"}
          /\ sleepWake \in {"none", "asked", "calling"} /\ dropMsg \in BOOLEAN
      BY Zenon DEF Init
    <2>4. QED
      BY <2>1, <2>2, <2>3 DEF CallType
  <1>6. HolderType
    BY <1>0 DEF Init, HolderType, HoldState
  <1>7. WakeOnlyWaking
    BY DEF Init, WakeOnlyWaking
  <1>8. QED
    BY <1>1, <1>3, <1>4, <1>5, <1>6, <1>7 DEF TypeOK

LEMMA TypeNext == TypeOK /\ [Next]_vars => TypeOK'
  <1>. SUFFICES ASSUME TypeOK, [Next]_vars PROVE TypeOK'
    OBVIOUS
  <1>1. CASE ClientStep
    BY <1>1, TypeInput, TypeClose, TypeGoToSleep, TypeHook, TypeExpire,
       TypeRemoveExited, TypeWakeCall
    DEF ClientStep
  <1>2. CASE ActorStep
    BY <1>2, TypeReadAnswer, TypeReadOutput, TypeReadExit, TypeReadEof,
       TypeKillFires, TypeReconnect, TypeWakeQuiet, TypeWakeCap,
       TypeSleepInputDropped, TypeActorEnds, TypeSpawned
    DEF ActorStep
  <1>3. CASE WakeStep
    BY <1>3, TypeWakeCall, TypeWakeAsks, TypeLaunchOpens, TypeLaunchGone, TypeWakeGivesUp,
       TypeWakeStartsActor, TypeWakeRefused, TypeBeginWake
    DEF WakeStep
  <1>4. CASE Fault
    BY <1>4, TypeFault
  <1>5. ASSUME NEW g \in Gens, HolderStep(g) PROVE TypeOK'
    BY <1>5, TypeSpawnUp, TypeSpawnFails, TypeSpawnedToNobody, TypeChildExits,
       TypeHoldAttach, TypeHoldEnds
    DEF HolderStep
  <1>6. CASE UNCHANGED vars
    <2>1. UNCHANGED <<status, actor, pid, link, killAt, retry, closePending,
                      hibernating, closing, closed, hasLaunch, wakeAsked,
                      ownerClosed>>
      BY <1>6 DEF vars, actorVars
    <2>2. UNCHANGED <<sleepQueue, wake, typed, got, lost, dropped, faults>>
      BY <1>6 DEF vars, inputVars
    <2>3. UNCHANGED <<launch, call, sleepWake, dropMsg, gen, hold, client,
                      sock, waitFor, spawned, killed>>
      BY <1>6 DEF vars, wakeCallVars, holdVars
    <2>4. QED
      BY <2>1, <2>2, <2>3
      DEF TypeOK, RecordType, InputType, CallType, HolderType, WakeOnlyWaking
  <1>7. QED
    BY <1>1, <1>2, <1>3, <1>4, <1>5, <1>6 DEF Next

\* Every reachable state of the actor, its wake call and its holders has the
\* types of session.rs, and there is a wake only while the session wakes.
THEOREM TypeCorrect == Spec => []TypeOK
  <1>1. QED
    BY TypeInit, TypeNext, PTL DEF Spec

-----------------------------------------------------------------------------
(* No KILL strays.                                                         *)

\* What the kill timer and a remembered close are there for: the owner closed
\* the session, or its process is ending for a sleep.
KillsAreMeant ==
    /\ killAt => actor
    /\ killAt /\ ~ownerClosed
         => status \in {"running", "detached"} /\ hibernating
    /\ closePending # "none" => ownerClosed

LEMMA KillsInit == Init => KillsAreMeant
  BY DEF Init, KillsAreMeant

LEMMA KillsNext ==
    TypeOK /\ KillsAreMeant /\ [Next]_vars => KillsAreMeant'
  <1>. SUFFICES ASSUME TypeOK, KillsAreMeant, [Next]_vars
                PROVE  KillsAreMeant'
    OBVIOUS
  <1>. USE DEF KillsAreMeant, TypeOK, RecordType, Serves
  <1>1. CASE Input
    BY <1>1 DEF Input, actorVars
  <1>2. ASSUME NEW graceful \in BOOLEAN, Close(graceful) PROVE KillsAreMeant'
    BY <1>2
    DEF Close, CloseAsleep, CloseLater, CloseNow, Exited, Hibernated, Ended
  <1>3. CASE GoToSleep
    BY <1>3 DEF GoToSleep, MaySleep, SleepTerm
  <1>4. CASE Hook
    BY <1>4 DEF Hook, FinishWake
  <1>5. CASE Expire
    BY <1>5 DEF Expire
  <1>6. CASE RemoveExited
    BY <1>6 DEF RemoveExited
  <1>7. ASSUME NEW byTask \in BOOLEAN, WakeCall(byTask) PROVE KillsAreMeant'
    BY <1>7 DEF WakeCall, actorVars
  <1>8. CASE ReadAnswer
    BY <1>8 DEF ReadAnswer
  <1>9. CASE ReadOutput
    BY <1>9 DEF ReadOutput, actorVars
  <1>10. CASE ReadExit
    BY <1>10 DEF ReadExit, Exited, Hibernated, Ended
  <1>11. CASE ReadEof
    BY <1>11 DEF ReadEof, HolderLost
  <1>12. CASE KillFires
    BY <1>12 DEF KillFires
  <1>13. CASE Reconnect
    BY <1>13 DEF Reconnect, Reconnected, HolderGone, Exited, Hibernated, Ended
  <1>14. CASE WakeQuiet
    BY <1>14 DEF WakeQuiet, FinishWake
  <1>15. CASE WakeCap
    BY <1>15 DEF WakeCap, FinishWake, WakeFailed, Exited, Ended
  <1>16. CASE SleepInputDropped
    BY <1>16 DEF SleepInputDropped
  <1>17. CASE ActorEnds
    BY <1>17 DEF ActorEnds
  <1>18. ASSUME NEW g \in Gens, Spawned(g) PROVE KillsAreMeant'
    BY <1>18
    DEF Spawned, SpawnedTooLate, SpawnedOk, SpawnedErr, SpawnedBroken,
        FinishWake, WakeFailed, Exited, Ended
  <1>19. CASE LaunchOpens
    BY <1>19 DEF LaunchOpens, actorVars
  <1>20. CASE LaunchGone
    BY <1>20 DEF LaunchGone, LaunchLostAsleep, LaunchLostElse, CallFails
  <1>21. CASE WakeGivesUp
    BY <1>21 DEF WakeGivesUp, CallFails, actorVars
  <1>22. CASE WakeStartsActor
    BY <1>22 DEF WakeStartsActor, MayStartActor
  <1>23. CASE WakeRefused
    BY <1>23 DEF WakeRefused, CallFails, actorVars
  <1>24. CASE BeginWake
    BY <1>24 DEF BeginWake, TakeSleepInput, CallReturnsOk
  <1>25. ASSUME NEW g \in Gens, SpawnUp(g) PROVE KillsAreMeant'
    BY <1>25 DEF SpawnUp, actorVars
  <1>26. ASSUME NEW g \in Gens, SpawnFails(g) PROVE KillsAreMeant'
    BY <1>26 DEF SpawnFails, actorVars
  <1>27. ASSUME NEW g \in Gens, SpawnedToNobody(g) PROVE KillsAreMeant'
    BY <1>27 DEF SpawnedToNobody, actorVars
  <1>28. ASSUME NEW g \in Gens, ChildExits(g) PROVE KillsAreMeant'
    BY <1>28 DEF ChildExits
  <1>29. ASSUME NEW g \in Gens, HoldAttach(g) PROVE KillsAreMeant'
    BY <1>29 DEF HoldAttach
  <1>30. ASSUME NEW g \in Gens, HoldEnds(g) PROVE KillsAreMeant'
    BY <1>30 DEF HoldEnds, actorVars
  <1>31. CASE Fault
    BY <1>31 DEF Fault, LaunchDamaged, ClientDropped, HolderDies, actorVars
  <1>32. CASE UNCHANGED vars
    BY <1>32 DEF vars, actorVars
  <1>33. CASE WakeAsks
    BY <1>33 DEF WakeAsks
  <1>34. QED
    BY <1>1, <1>2, <1>3, <1>4, <1>5, <1>6, <1>7, <1>8, <1>9, <1>10, <1>11,
       <1>12, <1>13, <1>14, <1>15, <1>16, <1>17, <1>18, <1>19, <1>20, <1>21,
       <1>22, <1>23, <1>24, <1>25, <1>26, <1>27, <1>28, <1>29, <1>30, <1>31,
       <1>32, <1>33
    DEF Next, ClientStep, ActorStep, WakeStep, HolderStep

LEMMA KillsStep ==
    ASSUME TypeOK, KillsAreMeant, Next
    PROVE  \A g \in killed' \ killed :
               ownerClosed' \/ (hibernating /\ link.gen = g)
  <1>0. \A g \in KillChild \ killed : link.gen = g
    BY DEF KillChild
  <1>1. ASSUME NEW graceful \in BOOLEAN, Close(graceful)
        PROVE  killed' = killed \/ ownerClosed'
    BY <1>1 DEF Close, CloseAsleep, CloseLater, CloseNow
  <1>2. ASSUME ReadAnswer PROVE killed' = killed \/ ownerClosed'
    BY <1>2 DEF ReadAnswer, KillsAreMeant
  <1>3. ASSUME KillFires
        PROVE  killed' = KillChild /\ (ownerClosed' \/ hibernating)
    BY <1>3 DEF KillFires, KillsAreMeant
  <1>4. ASSUME Input \/ GoToSleep \/ Hook \/ Expire \/ RemoveExited
        \/ (\E b \in BOOLEAN : WakeCall(b))
        PROVE  killed' = killed
    BY <1>4
    DEF Input, GoToSleep, Hook, Expire, RemoveExited, WakeCall, holdVars
  <1>5. ASSUME ReadOutput \/ ReadExit \/ ReadEof \/ Reconnect \/ WakeQuiet
        \/ WakeCap \/ SleepInputDropped \/ ActorEnds
        \/ (\E b \in Gens : Spawned(b))
        PROVE  killed' = killed
    BY <1>5
    DEF ReadOutput, ReadExit, ReadEof, Reconnect, WakeQuiet, WakeCap,
        SleepInputDropped, ActorEnds, Spawned, SpawnedTooLate, holdVars
  <1>6. ASSUME LaunchOpens \/ LaunchGone \/ WakeGivesUp \/ WakeStartsActor
        \/ WakeRefused \/ BeginWake \/ WakeAsks
        PROVE  killed' = killed
    BY <1>6
    DEF LaunchOpens, LaunchGone, WakeGivesUp, WakeStartsActor, WakeRefused,
        BeginWake, WakeAsks, holdVars
  <1>7. ASSUME \E g \in Gens : HolderStep(g)
        PROVE  killed' = killed
    BY <1>7
    DEF HolderStep, SpawnUp, SpawnFails, SpawnedToNobody, ChildExits,
        HoldAttach, HoldEnds
  <1>8. ASSUME Fault
        PROVE  killed' = killed
    BY <1>8 DEF Fault, HolderDies
  <1>9. QED
    BY <1>0, <1>1, <1>2, <1>3, <1>4, <1>5, <1>6, <1>7, <1>8
    DEF Next, ClientStep, ActorStep, WakeStep, HolderStep

\* A KILL goes only to the agent of a session its owner closed, or to the one
\* that is going to sleep, whoever watches and whatever fails.
THEOREM KillsNeverStray == Spec => NoStrayKill
  <1>1. TypeOK /\ KillsAreMeant /\ [Next]_vars
          => [\A g \in killed' \ killed :
                 ownerClosed' \/ (hibernating /\ link.gen = g)]_vars
    BY KillsStep
  <1>2. QED
    BY <1>1, TypeInit, TypeNext, KillsInit, KillsNext, PTL
    DEF Spec, NoStrayKill

-----------------------------------------------------------------------------
(* When nobody watches the session while it exits, its actor ends with it.    *)
(* The invariant then says what each part of the record knows of the rest. *)

\* A session without an actor has ended, and nothing of the actor is left.
NoActorIsOver ==
    ~actor => /\ status \in {"exited", "removed"}
              /\ link.gen = 0 /\ ~link.open /\ ~retry
              /\ ~hibernating /\ ~closing /\ ~closed

\* There is a holder behind an open connection and behind every retry, and
\* none for a session that sleeps.
LinkSound ==
    /\ link.open \/ retry => link.gen # 0
    /\ status = "hibernated" => link.gen = 0

\* At most one holder is being started, the newest, for a session that wakes
\* and has no connection.
StartIsCurrent ==
    \A g \in Gens : hold[g] = "waiting" \/ spawned[g] # "no" =>
        /\ g = gen /\ status = "waking" /\ link.gen = 0
        /\ spawned[g] # "no" => hold[g] # "waiting"

\* The actor knows of the owner's close; a session that ended because of one
\* has no launch.
CloseKnown ==
    /\ actor /\ status \notin {"exited", "removed"}
         => closing = ownerClosed /\ closed = ownerClosed
    /\ status = "hibernated" => ~ownerClosed
    /\ status = "exited" /\ ownerClosed => launch = "none"
    /\ status = "removed" => launch = "none"

\* What can sleep, sleeps or wakes has its launch.
LaunchKept ==
    /\ actor /\ status \notin {"exited", "removed"} /\ hasLaunch
         => launch # "none"
    /\ hibernating => hasLaunch
    /\ status \in {"hibernated", "waking"} => hasLaunch

\* The launch is read only of a session without a process.
ReadsAtRest == call = "reading" => status \in {"hibernated", "exited", "removed"}

LifeInv ==
    /\ TypeOK /\ NoActorIsOver /\ LinkSound /\ StartIsCurrent /\ CloseKnown
    /\ LaunchKept /\ ReadsAtRest

LEMMA LinkParts ==
    /\ NoLink.gen = 0 /\ ~NoLink.open
    /\ \A g : NewLink(g).gen = g
  BY DEF NoLink, NewLink

LEMMA LifeInit == Init => LifeInv
  <1>. SUFFICES ASSUME Init PROVE LifeInv
    OBVIOUS
  <1>1. link.gen = 1 /\ NoActorIsOver /\ ReadsAtRest
    BY DEF Init, NewLink, NoActorIsOver, ReadsAtRest
  <1>2. /\ status = "running" /\ closing = FALSE /\ closed = FALSE
        /\ ownerClosed = FALSE
    BY Zenon DEF Init
  <1>2a. LinkSound /\ CloseKnown
    <2>1. LinkSound
      BY <1>1, <1>2 DEF LinkSound
    <2>2. CloseKnown
      BY <1>2, Zenon DEF CloseKnown
    <2>3. QED
      BY <2>1, <2>2
  <1>2b. StartIsCurrent
    BY DEF Init, StartIsCurrent
  <1>3. LaunchKept
    BY DEF Init, LaunchKept
  <1>4. QED
    BY <1>1, <1>2a, <1>2b, <1>3, TypeInit DEF LifeInv

LEMMA LifeNext ==
    ASSUME LifeInv, ~Watched, Next
    PROVE  NoActorIsOver' /\ LinkSound' /\ StartIsCurrent' /\ CloseKnown'
           /\ LaunchKept' /\ ReadsAtRest'
  <1>. DEFINE P == NoActorIsOver' /\ LinkSound' /\ StartIsCurrent'
                   /\ CloseKnown' /\ LaunchKept' /\ ReadsAtRest'
  <1>. USE DEF LifeInv, NoActorIsOver, LinkSound, StartIsCurrent, CloseKnown,
               LaunchKept, ReadsAtRest, TypeOK, RecordType, Serves
  <1>1. ASSUME Input PROVE P
    BY <1>1 DEF Input, actorVars, wakeCallVars, holdVars
  <1>2. ASSUME NEW graceful \in BOOLEAN, Close(graceful) PROVE P
    <2>1. CASE CloseAsleep
      BY <1>2, <2>1 DEF Close, CloseAsleep, Exited, Ended, Link
    <2>2. CASE CloseLater(graceful)
      BY <1>2, <2>2 DEF Close, CloseLater
    <2>3. CASE CloseNow(graceful)
      BY <1>2, <2>3 DEF Close, CloseNow
    <2>4. QED
      BY <1>2, <2>1, <2>2, <2>3 DEF Close
  <1>3. ASSUME GoToSleep PROVE P
    BY <1>3 DEF GoToSleep, MaySleep, SleepTerm, wakeCallVars, holdVars
  <1>4. ASSUME Hook PROVE P
    BY <1>4 DEF Hook, FinishWake, wakeCallVars, holdVars
  <1>5. ASSUME Expire PROVE P
    BY <1>5, LinkParts DEF Expire
  <1>6. ASSUME RemoveExited PROVE P
    BY <1>6 DEF RemoveExited, holdVars
  <1>7. ASSUME NEW byTask \in BOOLEAN, WakeCall(byTask) PROVE P
    BY <1>7 DEF WakeCall, WakeBegins, WakeNotNeeded, actorVars, holdVars
  <1>8. ASSUME ReadAnswer PROVE P
    BY <1>8 DEF ReadAnswer, wakeCallVars, Link
  <1>9. ASSUME ReadOutput PROVE P
    BY <1>9 DEF ReadOutput, actorVars, wakeCallVars, holdVars
  <1>10. ASSUME ReadExit PROVE P
    BY <1>10, LinkParts DEF ReadExit, Exited, Hibernated, Ended, Link
  <1>11. ASSUME ReadEof PROVE P
    BY <1>11 DEF ReadEof, HolderLost, wakeCallVars, holdVars, Link
  <1>12. ASSUME KillFires PROVE P
    BY <1>12 DEF KillFires, wakeCallVars
  <1>13. ASSUME Reconnect PROVE P
    BY <1>13, LinkParts
    DEF Reconnect, Reconnected, HolderGone, Exited, Hibernated, Ended, Link
  <1>14. ASSUME WakeQuiet PROVE P
    BY <1>14 DEF WakeQuiet, FinishWake, wakeCallVars, holdVars
  <1>15. ASSUME WakeCap PROVE P
    <2>0. StartIsCurrent'
      BY <1>15 DEF WakeCap, SpawnSettled
    <2>1. CASE link.gen # 0
      BY <1>15, <2>0, <2>1 DEF WakeCap, FinishWake
    <2>2. CASE link.gen = 0 /\ closing
      BY <1>15, <2>0, <2>2 DEF WakeCap, WakeFailed, Exited, Ended, Link
    <2>3. CASE link.gen = 0 /\ ~closing
      BY <1>15, <2>0, <2>3, LinkParts DEF WakeCap, WakeFailed
    <2>4. QED
      BY <2>1, <2>2, <2>3
  <1>16. ASSUME SleepInputDropped PROVE P
    BY <1>16 DEF SleepInputDropped, holdVars
  <1>17. ASSUME ActorEnds PROVE P
    BY <1>17, LinkParts DEF ActorEnds
  <1>18. ASSUME NEW g \in Gens, Spawned(g) PROVE P
    <2>0. /\ g = gen /\ status = "waking" /\ link.gen = 0 /\ ~retry /\ actor
          /\ \A h \in Gens : hold[h] # "waiting"
          /\ \A h \in Gens : spawned'[h] = "no"
      <3>1. g = gen /\ status = "waking" /\ link.gen = 0 /\ ~retry /\ actor
        BY <1>18 DEF Spawned
      <3>2. \A h \in Gens : hold[h] # "waiting"
        BY <1>18, <3>1 DEF Spawned
      <3>3. \A h \in Gens : spawned'[h] = "no"
        BY <1>18, <3>1 DEF Spawned, HolderType
      <3>4. QED
        BY <3>1, <3>2, <3>3
    <2>1. CASE SpawnedTooLate(g)
      BY <2>0, <2>1 DEF SpawnedTooLate
    <2>2. CASE SpawnedOk(g)
      <3>1. link'.gen = g /\ g # 0
        BY <2>2, LinkParts DEF SpawnedOk, Gens
      <3>2. status' \in {"waking", "running"}
        BY <2>0, <2>2, LinkParts DEF SpawnedOk, FinishWake
      <3>3. StartIsCurrent'
        BY <2>0, <2>2 DEF SpawnedOk
      <3>4. QED
        BY <1>18, <2>0, <2>2, <3>1, <3>2, <3>3 DEF Spawned, SpawnedOk
    <2>3. CASE SpawnedErr(g) \/ SpawnedBroken(g)
      <3>1. PICK p : WakeFailed(p)
        BY <2>3 DEF SpawnedErr, SpawnedBroken
      <3>2. StartIsCurrent'
        <4>1. \A h \in Gens : hold'[h] # "waiting"
          BY <2>0, <2>3 DEF SpawnedErr, SpawnedBroken, HolderType
        <4>2. QED
          BY <2>0, <4>1
      <3>3. CASE closing
        BY <1>18, <2>0, <3>1, <3>2, <3>3
        DEF Spawned, WakeFailed, Exited, Ended, Link
      <3>4. CASE ~closing
        BY <1>18, <2>0, <3>1, <3>2, <3>4, LinkParts DEF Spawned, WakeFailed
      <3>5. QED
        BY <3>3, <3>4
    <2>4. QED
      BY <1>18, <2>1, <2>2, <2>3 DEF Spawned
  <1>19. ASSUME LaunchOpens PROVE P
    BY <1>19 DEF LaunchOpens, actorVars, holdVars
  <1>20. ASSUME LaunchGone PROVE P
    BY <1>20
    DEF LaunchGone, LaunchLostAsleep, LaunchLostElse, CallFails, holdVars
  <1>21. ASSUME WakeGivesUp PROVE P
    BY <1>21 DEF WakeGivesUp, CallFails, actorVars, holdVars
  <1>22. ASSUME WakeStartsActor PROVE P
    BY <1>22 DEF WakeStartsActor, MayStartActor, holdVars
  <1>23. ASSUME WakeRefused PROVE P
    BY <1>23 DEF WakeRefused, CallFails, actorVars, holdVars
  <1>24. ASSUME BeginWake PROVE P
    BY <1>24 DEF BeginWake, TakeSleepInput, CallReturnsOk, HolderType
  <1>25. ASSUME NEW g \in Gens, SpawnUp(g) PROVE P
    BY <1>25 DEF SpawnUp, actorVars, wakeCallVars, HolderType
  <1>26. ASSUME NEW g \in Gens, SpawnFails(g) PROVE P
    BY <1>26 DEF SpawnFails, actorVars, wakeCallVars, HolderType
  <1>27. ASSUME NEW g \in Gens, SpawnedToNobody(g) PROVE P
    BY <1>27 DEF SpawnedToNobody, actorVars, wakeCallVars, HolderType
  <1>28. ASSUME NEW g \in Gens, ChildExits(g) PROVE P
    BY <1>28 DEF ChildExits, wakeCallVars, Link, HolderType
  <1>29. ASSUME NEW g \in Gens, HoldAttach(g) PROVE P
    BY <1>29 DEF HoldAttach, wakeCallVars, Link, HolderType
  <1>30. ASSUME NEW g \in Gens, HoldEnds(g) PROVE P
    BY <1>30 DEF HoldEnds, actorVars, wakeCallVars, HolderType
  <1>31. ASSUME Fault PROVE P
    BY <1>31
    DEF Fault, LaunchDamaged, ClientDropped, HolderDies, actorVars, HolderType
  <1>32. ASSUME WakeAsks PROVE P
    BY <1>32 DEF WakeAsks, CallReturnsOk, CallFails, holdVars
  <1>33. QED
    BY <1>1, <1>2, <1>3, <1>4, <1>5, <1>6, <1>7, <1>8, <1>9, <1>10, <1>11,
       <1>12, <1>13, <1>14, <1>15, <1>16, <1>17, <1>18, <1>19, <1>20, <1>21,
       <1>22, <1>23, <1>24, <1>25, <1>26, <1>27, <1>28, <1>29, <1>30, <1>31,
       <1>32
    DEF Next, ClientStep, ActorStep, WakeStep, HolderStep

\* With nobody watching, that is what every reachable state looks like.
THEOREM LifeInvariant == ASSUME ~Watched PROVE Spec => []LifeInv
  <1>1. LifeInv /\ [Next]_vars => LifeInv'
    <2>1. ASSUME LifeInv, Next PROVE LifeInv'
      BY <2>1, LifeNext, TypeNext DEF LifeInv
    <2>2. ASSUME LifeInv, UNCHANGED vars PROVE LifeInv'
      <3>1. TypeOK'
        BY <2>2, TypeNext DEF LifeInv
      <3>2. QED
        BY <2>2, <3>1
        DEF vars, actorVars, wakeCallVars, holdVars, LifeInv, NoActorIsOver,
            LinkSound, StartIsCurrent, CloseKnown, LaunchKept, ReadsAtRest
    <2>3. QED
      BY <2>1, <2>2
  <1>2. QED
    BY <1>1, LifeInit, PTL DEF Spec

\* A session that sleeps can be woken: its launch is there.
THEOREM SleepersKeepTheirLaunch == ASSUME ~Watched PROVE Spec => []SleepsWithLaunch
  <1>1. LifeInv => SleepsWithLaunch
    BY DEF LifeInv, NoActorIsOver, LaunchKept, SleepsWithLaunch
  <1>2. QED
    BY <1>1, LifeInvariant, PTL

-----------------------------------------------------------------------------
(* The actor implements SessionLife.                                       *)

Phase == IF status \in {"running", "detached"} THEN "up" ELSE status
Keeps == launch # "none"

LEMMA LifeStep ==
    ASSUME LifeInv, ~Watched, Next
    PROVE  [Life!Next]_(Life!vars)
  <1>. DEFINE L == [Life!Next]_(Life!vars)
              S == /\ Phase' = Phase /\ Keeps' = Keeps
                   /\ ownerClosed' = ownerClosed
  <1>. USE DEF LifeInv, NoActorIsOver, LinkSound, StartIsCurrent, CloseKnown,
               LaunchKept, ReadsAtRest, TypeOK, RecordType, Status, Serves,
               Phase, Keeps
  <1>0. ASSUME S PROVE L
    BY <1>0 DEF Life!vars
  <1>1. ASSUME Input PROVE S
    BY <1>1 DEF Input, actorVars, wakeCallVars
  <1>2. ASSUME NEW graceful \in BOOLEAN, Close(graceful) PROVE L
    BY <1>2
    DEF Close, CloseAsleep, CloseLater, CloseNow, Exited, Hibernated, Ended,
        Life!Next, Life!EndAsleep, Life!CloseRequested, Life!vars
  <1>3. ASSUME GoToSleep PROVE S
    BY <1>3 DEF GoToSleep, MaySleep, SleepTerm, wakeCallVars
  <1>4. ASSUME Hook PROVE L
    BY <1>4
    DEF Hook, FinishWake, wakeCallVars, Life!Next, Life!Awake, Life!vars
  <1>5. ASSUME Expire PROVE L
    BY <1>5 DEF Expire, Life!Next, Life!Remove, Life!vars
  <1>6. ASSUME RemoveExited PROVE L
    BY <1>6 DEF RemoveExited, Life!Next, Life!Remove, Life!vars
  <1>7. ASSUME NEW byTask \in BOOLEAN, WakeCall(byTask) PROVE S
    BY <1>7 DEF WakeCall, actorVars
  <1>8. ASSUME ReadAnswer PROVE S
    BY <1>8 DEF ReadAnswer, wakeCallVars
  <1>9. ASSUME ReadOutput PROVE S
    BY <1>9 DEF ReadOutput, actorVars, wakeCallVars
  <1>10. ASSUME ReadExit PROVE L
    BY <1>10
    DEF ReadExit, Exited, Hibernated, Ended, Life!Next, Life!FallAsleep,
        Life!End, Life!vars
  <1>11. ASSUME ReadEof PROVE S
    BY <1>11 DEF ReadEof, HolderLost, wakeCallVars
  <1>12. ASSUME KillFires PROVE S
    BY <1>12 DEF KillFires, wakeCallVars
  <1>13. ASSUME Reconnect PROVE L
    BY <1>13
    DEF Reconnect, Reconnected, HolderGone, Exited, Hibernated, Ended,
        Life!Next, Life!FallAsleep, Life!End, Life!vars
  <1>14. ASSUME WakeQuiet PROVE L
    BY <1>14
    DEF WakeQuiet, FinishWake, wakeCallVars, Life!Next, Life!Awake, Life!vars
  <1>15. ASSUME WakeCap PROVE L
    BY <1>15
    DEF WakeCap, FinishWake, WakeFailed, Exited, Ended, Life!Next, Life!Awake,
        Life!FallAsleep, Life!End, Life!vars
  <1>16. ASSUME SleepInputDropped PROVE S
    BY <1>16 DEF SleepInputDropped
  <1>17. ASSUME ActorEnds PROVE S
    BY <1>17 DEF ActorEnds
  <1>18. ASSUME NEW g \in Gens, Spawned(g) PROVE L
    BY <1>18
    DEF Spawned, SpawnedTooLate, SpawnedOk, SpawnedErr, SpawnedBroken,
        FinishWake, WakeFailed, Exited, Ended, Life!Next, Life!Awake, Life!FallAsleep, Life!End,
        Life!vars
  <1>19. ASSUME LaunchOpens PROVE S
    BY <1>19 DEF LaunchOpens, actorVars
  <1>20. ASSUME LaunchGone PROVE L
    BY <1>20
    DEF LaunchGone, LaunchLostAsleep, LaunchLostElse, CallFails, Life!Next,
        Life!EndAsleep, Life!LoseLaunch, Life!vars
  <1>21. ASSUME WakeGivesUp PROVE S
    BY <1>21 DEF WakeGivesUp, CallFails, actorVars
  <1>22. ASSUME WakeStartsActor PROVE L
    BY <1>22
    DEF WakeStartsActor, MayStartActor, Life!Next, Life!SleepAgain, Life!vars
  <1>23. ASSUME WakeRefused PROVE S
    BY <1>23 DEF WakeRefused, CallFails, actorVars
  <1>24. ASSUME BeginWake PROVE L
    BY <1>24
    DEF BeginWake, TakeSleepInput, CallReturnsOk, Life!Next, Life!Wake,
        Life!vars
  <1>25. ASSUME NEW g \in Gens, SpawnUp(g) PROVE S
    BY <1>25 DEF SpawnUp, actorVars, wakeCallVars
  <1>26. ASSUME NEW g \in Gens, SpawnFails(g) PROVE S
    BY <1>26 DEF SpawnFails, actorVars, wakeCallVars
  <1>27. ASSUME NEW g \in Gens, SpawnedToNobody(g) PROVE S
    BY <1>27 DEF SpawnedToNobody, actorVars, wakeCallVars
  <1>28. ASSUME NEW g \in Gens, ChildExits(g) PROVE S
    BY <1>28 DEF ChildExits, wakeCallVars
  <1>29. ASSUME NEW g \in Gens, HoldAttach(g) PROVE S
    BY <1>29 DEF HoldAttach, wakeCallVars
  <1>30. ASSUME NEW g \in Gens, HoldEnds(g) PROVE S
    BY <1>30 DEF HoldEnds, actorVars, wakeCallVars
  <1>31. ASSUME Fault PROVE S
    BY <1>31 DEF Fault, LaunchDamaged, ClientDropped, HolderDies, actorVars
  <1>32. ASSUME WakeAsks PROVE S
    BY <1>32 DEF WakeAsks
  <1>33. QED
    BY <1>0, <1>1, <1>2, <1>3, <1>4, <1>5, <1>6, <1>7, <1>8, <1>9, <1>10,
       <1>11, <1>12, <1>13, <1>14, <1>15, <1>16, <1>17, <1>18, <1>19, <1>20,
       <1>21, <1>22, <1>23, <1>24, <1>25, <1>26, <1>27, <1>28, <1>29, <1>30,
       <1>31, <1>32
    DEF Next, ClientStep, ActorStep, WakeStep, HolderStep

LEMMA LifeStutters == UNCHANGED vars => UNCHANGED Life!vars
  BY DEF vars, actorVars, wakeCallVars, Life!vars

\* The actor, its wake calls and its holders implement the life of a session
\* that its owner is promised, when nobody watches it exit.
THEOREM ActorImplementsLife == ASSUME ~Watched PROVE Spec => LifeSpec
  <1>1. Init => Life!Init
    <2>1. ASSUME Init PROVE Phase = "up" /\ ownerClosed = FALSE
      BY <2>1, Zenon DEF Init, Phase
    <2>2. QED
      BY <2>1 DEF Life!Init, Phase
  <1>2. LifeInv /\ [Next]_vars => [Life!Next]_(Life!vars)
    BY LifeStep, LifeStutters
  <1>3. QED
    BY <1>1, <1>2, LifeInvariant, PTL DEF Spec, LifeSpec, Life!Spec

\* What the owner closed stays closed, whatever wake was under way.
THEOREM ClosedStaysClosed == ASSUME ~Watched PROVE Spec => NoRevival
  <1>1. LifeInv /\ [Next]_vars
          => [ownerClosed /\ status \in {"exited", "removed"}
                => status' \in {"exited", "removed"}]_vars
    <2>1. ASSUME LifeInv, Next, ownerClosed, status \in {"exited", "removed"}
          PROVE  status' \in {"exited", "removed"}
      <3>1. [Life!Next]_(Life!vars)
        BY <2>1, LifeStep
      <3>2. launch = "none" /\ Phase = status
        BY <2>1 DEF LifeInv, CloseKnown, Phase
      <3>3. Phase' \in {"exited", "removed"}
        BY <2>1, <3>1, <3>2
        DEF Life!Next, Life!CloseRequested, Life!EndAsleep, Life!FallAsleep,
            Life!End, Life!SleepAgain, Life!Wake, Life!Awake,
            Life!LoseLaunch, Life!Remove, Life!vars, Phase
      <3>4. QED
        BY <3>3 DEF Phase
    <2>2. QED
      BY <2>1
  <1>2. QED
    BY <1>1, LifeInvariant, PTL DEF Spec, NoRevival

-----------------------------------------------------------------------------
(* One agent at a time.                                                    *)

AtRest == {"exited", "hibernated", "removed"}

\* A holder that is up owns the socket path: no older one that ends later can
\* take the path from it.
PathIsHeld == \A g \in Gens : Up(g) => sock = g

\* It is the newest; or the newest waits for it, and its agent has ended.
UpIsNewest ==
    \A g \in Gens : Up(g) =>
        \/ g = gen
        \/ hold[gen] = "waiting" /\ waitFor[gen] = g /\ hold[g] = "reported"

\* A session at rest has no agent, and knows which holder to wait for.
RestsAlone ==
    status \in AtRest =>
        \A g \in Gens : Up(g) => hold[g] = "reported" /\ pid = g

\* Where the actor is connected to, and what it waits for while it is not.
LinkIsNewest ==
    /\ status \notin AtRest /\ link.gen # 0 => link.gen = gen /\ pid = gen
    /\ status \in {"running", "detached"} => link.gen # 0
    /\ status = "waking" /\ link.gen = 0
         => hold[gen] = "waiting" \/ spawned[gen] # "no"

ClientIsLink ==
    \A g \in Gens : client[g] \in {"actor", "attached"} => link.gen = g

\* An exit to be read is one that happened.
ExitIsTrue ==
    link.exit => /\ link.gen # 0
                 /\ hold[link.gen] \in {"reported", "gone", "killed"}

ErrIsGone == \A g \in Gens : spawned[g] = "err" => hold[g] = "gone"

HoldersInv ==
    /\ PathIsHeld /\ UpIsNewest /\ RestsAlone /\ LinkIsNewest
    /\ ClientIsLink /\ ExitIsTrue /\ ErrIsGone

LEMMA HoldersInit == Init => HoldersInv
  <1>. SUFFICES ASSUME Init PROVE HoldersInv
    OBVIOUS
  <1>1. /\ status = "running" /\ pid = 1 /\ gen = 1 /\ sock = 1
        /\ link.gen = 1 /\ link.exit = FALSE
    BY Zenon DEF Init, NewLink
  <1>2. /\ \A g \in Gens : hold[g] = IF g = 1 THEN "serving" ELSE "none"
        /\ \A g \in Gens : client[g] = IF g = 1 THEN "attached" ELSE "none"
        /\ \A g \in Gens : spawned[g] = "no"
    BY DEF Init
  <1>3. QED
    BY <1>1, <1>2
    DEF HoldersInv, PathIsHeld, UpIsNewest, RestsAlone, LinkIsNewest, Up,
        ClientIsLink, ExitIsTrue, ErrIsGone, AtRest

\* The types of the holders, for use in the steps.
LEMMA HolderParts ==
    ASSUME TypeOK
    PROVE  /\ gen \in Gens /\ link.gen \in 0..MaxGen /\ sock \in 0..MaxGen
           /\ \A g \in Gens : g # 0 /\ g \in 0..MaxGen
           /\ \A g \in 0..MaxGen : g # 0 => g \in Gens
           /\ link \in Link /\ hold \in [Gens -> HoldState]
           /\ client \in [Gens -> {"none", "task", "actor", "attached"}]
           /\ waitFor \in [Gens -> 0..MaxGen]
           /\ spawned \in [Gens -> {"no", "ok", "err"}]
  BY BoundsAssumption DEF TypeOK, HolderType, Gens, Link

\* A step that moves no holder, and no connection but to drop it.
LEMMA HoldersStay ==
    ASSUME LifeInv, HoldersInv,
           UNCHANGED <<hold, sock, gen, waitFor, spawned>>,
           \/ client' = client /\ link'.gen = link.gen
           \/ client' = ClientsWithoutLink,
           link'.exit => link.exit /\ link'.gen = link.gen,
           RestsAlone', LinkIsNewest'
    PROVE  HoldersInv'
  <1>. USE DEF HoldersInv
  <1>0. TypeOK /\ (\A g : Up(g)' <=> Up(g))
    BY DEF LifeInv, Up
  <1>1. PathIsHeld'
    BY <1>0 DEF PathIsHeld
  <1>2. UpIsNewest'
    BY <1>0 DEF UpIsNewest
  <1>3. ClientIsLink'
    BY <1>0, HolderParts DEF ClientIsLink, ClientsWithoutLink
  <1>4. ExitIsTrue'
    BY DEF ExitIsTrue
  <1>5. ErrIsGone'
    BY DEF ErrIsGone
  <1>6. QED
    BY <1>1, <1>2, <1>3, <1>4, <1>5

LEMMA HoldersRest ==
    ASSUME LifeInv, HoldersInv, UNCHANGED <<holdVars, pid>>,
           link'.gen = link.gen, link'.exit => link.exit,
           \/ status' = status
           \/ status' \in AtRest /\ status \in AtRest
           \/ /\ status' \in {"running", "detached"} /\ status \notin AtRest
              /\ link.gen # 0
    PROVE  HoldersInv'
  <1>1. RestsAlone'
    BY DEF RestsAlone, HoldersInv, holdVars, Up, AtRest
  <1>2. LinkIsNewest'
    BY DEF LinkIsNewest, HoldersInv, holdVars, AtRest
  <1>3. QED
    BY <1>1, <1>2, HoldersStay DEF holdVars

\* Whoever is up has reported its end, and is the one of the record.
Through == \A g \in Gens : Up(g) => hold[g] = "reported" /\ pid = g

LEMMA WhenThrough ==
    ASSUME LifeInv, HoldersInv,
           \/ status \in AtRest
           \/ link.gen # 0 /\ hold[link.gen] \in {"reported", "gone", "killed"}
    PROVE  Through
  <1>1. CASE status \in AtRest
    BY <1>1 DEF HoldersInv, RestsAlone, Through
  <1>2. CASE status \notin AtRest
    <2>1. /\ link.gen = gen /\ pid = gen
          /\ hold[gen] \in {"reported", "gone", "killed"}
      BY <1>2 DEF HoldersInv, LinkIsNewest
    <2>2. QED
      BY <2>1 DEF HoldersInv, UpIsNewest, Up, Through
  <1>3. QED
    BY <1>1, <1>2

\* exited() of a session whose holder is through.
LEMMA HoldersExit ==
    ASSUME LifeInv, HoldersInv, NEW b \in BOOLEAN, Exited(b), Through,
           UNCHANGED <<hold, gen, waitFor, spawned, sock, pid>>
    PROVE  HoldersInv'
  <1>1. status' \in {"hibernated", "exited"}
    BY DEF Exited, Hibernated, Ended
  <1>2. RestsAlone'
    BY DEF RestsAlone, Through, Up
  <1>3. LinkIsNewest'
    BY <1>1 DEF LinkIsNewest, AtRest
  <1>4. /\ \/ client' = client /\ link'.gen = link.gen
           \/ client' = ClientsWithoutLink
        /\ ~link'.exit
    <2>1. link \in Link
      BY DEF LifeInv, TypeOK
    <2>2. QED
      BY <2>1 DEF Exited, Hibernated, Ended, NoLink, Link
  <1>5. QED
    BY <1>2, <1>3, <1>4, HoldersStay

LEMMA HoldersFinishWake ==
    ASSUME FinishWake(link, LinkUp), status = "waking"
    PROVE  status' = status \/ (status' = "running" /\ link.gen # 0)
  BY DEF FinishWake

LEMMA HoldersClient ==
    ASSUME LifeInv, HoldersInv, ~Watched, ClientStep
    PROVE  HoldersInv'
  <1>1. CASE Input
    BY <1>1, HoldersRest DEF Input, actorVars
  <1>2. ASSUME NEW graceful \in BOOLEAN, Close(graceful) PROVE HoldersInv'
    <2>0. UNCHANGED <<hold, gen, waitFor, spawned, sock, pid>>
      BY <1>2 DEF Close
    <2>1. CASE CloseAsleep
      BY <1>2, <2>0, <2>1, HoldersExit, WhenThrough DEF CloseAsleep, AtRest
    <2>2. CASE CloseLater(graceful) \/ CloseNow(graceful)
      <3>1. UNCHANGED <<status, link, client>>
        BY <2>2 DEF CloseLater, CloseNow
      <3>2. RestsAlone' /\ LinkIsNewest'
        BY <2>0, <3>1 DEF HoldersInv, RestsAlone, LinkIsNewest, Up
      <3>3. QED
        BY <2>0, <3>1, <3>2, HoldersStay
    <2>3. QED
      BY <1>2, <2>1, <2>2 DEF Close
  <1>3. CASE GoToSleep
    BY <1>3, HoldersRest DEF GoToSleep
  <1>4. CASE Hook
    BY <1>4, HoldersRest, HoldersFinishWake DEF Hook, AtRest
  <1>5. CASE Expire
    <2>1. status \in AtRest /\ status' = "removed"
      BY <1>5 DEF Expire, AtRest
    <2>2. RestsAlone' /\ LinkIsNewest'
      BY <1>5, <2>1
      DEF Expire, HoldersInv, RestsAlone, LinkIsNewest, Up, AtRest
    <2>3. QED
      BY <1>5, <2>2, HoldersStay DEF Expire, NoLink
  <1>6. CASE RemoveExited
    BY <1>6, HoldersRest DEF RemoveExited, AtRest
  <1>7. ASSUME NEW byTask \in BOOLEAN, WakeCall(byTask) PROVE HoldersInv'
    BY <1>7, HoldersRest DEF WakeCall, actorVars
  <1>8. QED
    BY <1>1, <1>2, <1>3, <1>4, <1>5, <1>6, <1>7 DEF ClientStep

LEMMA HoldersReconnect ==
    ASSUME LifeInv, HoldersInv, ~Watched, Reconnect
    PROVE  HoldersInv'
  <1>0. /\ UNCHANGED <<hold, gen, waitFor, spawned, pid>>
        /\ link.gen # 0 /\ status \notin AtRest
    BY DEF Reconnect, LifeInv, LinkSound, AtRest, Serves
  <1>1. link.gen = gen /\ pid = gen /\ hold[gen] # "waiting"
    <2>1. link.gen = gen /\ pid = gen
      BY <1>0 DEF HoldersInv, LinkIsNewest
    <2>2. QED
      BY <1>0, <2>1, HolderParts DEF LifeInv, StartIsCurrent
  <1>2. CASE Reconnected
    <2>1. sock \in Gens /\ Up(sock) /\ sock' = sock /\ status' = status
      BY <1>2, HolderParts DEF Reconnected, LifeInv
    <2>2. sock = gen
      BY <1>1, <2>1 DEF HoldersInv, UpIsNewest
    <2>3. link'.gen = gen /\ ~link'.exit
      BY <1>2, <2>2 DEF Reconnected, NewLink
    <2>4. \A g : Up(g)' <=> Up(g)
      BY <1>0 DEF Up
    <2>5. ClientIsLink'
      BY <1>1, <1>2, <2>1, <2>2, <2>3, HolderParts
      DEF Reconnected, ClientsWithoutLink, HoldersInv, ClientIsLink, LifeInv
    <2>6. LinkIsNewest' /\ RestsAlone'
      BY <1>0, <1>1, <2>1, <2>3, HolderParts
      DEF LinkIsNewest, RestsAlone, LifeInv
    <2>7. PathIsHeld' /\ UpIsNewest' /\ ExitIsTrue' /\ ErrIsGone'
      BY <1>0, <2>1, <2>3, <2>4
      DEF HoldersInv, PathIsHeld, UpIsNewest, ExitIsTrue, ErrIsGone
    <2>8. QED
      BY <2>5, <2>6, <2>7 DEF HoldersInv
  <1>3. CASE HolderGone
    <2>1. \A g \in Gens : ~Up(g)
      BY <1>3, HolderParts DEF HolderGone, HoldersInv, PathIsHeld, LifeInv
    <2>2. Exited(closing) /\ closing \in BOOLEAN
      BY <1>3 DEF HolderGone, LifeInv, TypeOK, RecordType
    <2>3. status' \in {"hibernated", "exited"}
      BY <2>2 DEF Exited, Hibernated, Ended
    <2>4. \A g : Up(g)' <=> Up(g)
      BY <1>0 DEF Up
    <2>5. /\ \/ client' = client /\ link'.gen = link.gen
             \/ client' = ClientsWithoutLink
          /\ ~link'.exit
      BY <2>2 DEF Exited, Hibernated, Ended, NoLink, Link, LifeInv, TypeOK
    <2>6. ClientIsLink'
      BY <2>5, HolderParts
      DEF ClientsWithoutLink, HoldersInv, ClientIsLink, LifeInv
    <2>7. PathIsHeld' /\ UpIsNewest' /\ RestsAlone' /\ LinkIsNewest'
      BY <2>1, <2>3, <2>4
      DEF PathIsHeld, UpIsNewest, RestsAlone, LinkIsNewest, AtRest
    <2>8. ExitIsTrue' /\ ErrIsGone'
      BY <1>0, <2>5 DEF HoldersInv, ExitIsTrue, ErrIsGone
    <2>9. QED
      BY <2>6, <2>7, <2>8 DEF HoldersInv
  <1>4. QED
    BY <1>2, <1>3 DEF Reconnect

\* The task of a start reports to a session that waits for it.
LEMMA HoldersSpawned ==
    ASSUME LifeInv, HoldersInv, NEW g \in Gens, Spawned(g)
    PROVE  HoldersInv'
  <1>0. /\ UNCHANGED <<gen, waitFor, sock>> /\ spawned[g] # "no"
        /\ spawned' = [spawned EXCEPT ![g] = "no"]
    BY DEF Spawned
  <1>1. /\ g = gen /\ status = "waking" /\ link.gen = 0
        /\ hold[g] # "waiting"
    BY <1>0 DEF LifeInv, StartIsCurrent
  <1>1a. \/ hold' = hold
         \/ SpawnedBroken(g) /\ Up(g) /\ hold' = [hold EXCEPT ![g] = "killed"]
    BY <1>1
    DEF Spawned, SpawnedTooLate, SpawnedOk, SpawnedErr, SpawnedBroken
  <1>2. \A h \in Gens : /\ Up(h)' => Up(h) /\ hold'[h] = hold[h]
                        /\ hold[h] = "gone" => hold'[h] = "gone"
    BY <1>1a, HolderParts DEF Up, LifeInv
  <1>3. PathIsHeld' /\ UpIsNewest' /\ ErrIsGone'
    <2>1. \A h \in Gens : spawned'[h] = "err" => spawned[h] = "err"
      BY <1>0, HolderParts DEF LifeInv
    <2>2. \A h \in Gens : Up(h) => h = gen
      BY <1>1 DEF HoldersInv, UpIsNewest
    <2>3. QED
      BY <1>0, <1>2, <2>1, <2>2
      DEF HoldersInv, PathIsHeld, UpIsNewest, ErrIsGone
  <1>4. \A h \in Gens : client[h] \notin {"actor", "attached"}
    BY <1>1, HolderParts DEF HoldersInv, ClientIsLink, LifeInv
  <1>5. CASE SpawnedOk(g)
    <2>1. pid' = g /\ link'.gen = g /\ ~link'.exit
      BY <1>5 DEF SpawnedOk, NewLink
    <2>2. \A h \in Gens : client'[h] \in {"actor", "attached"} => h = g
      BY <1>4, <1>5, HolderParts DEF SpawnedOk, ClientsWithoutLink, LifeInv
    <2>3. status' \in {"waking", "running"}
      BY <1>1, <1>5 DEF SpawnedOk, FinishWake
    <2>4. ClientIsLink' /\ ExitIsTrue' /\ RestsAlone' /\ LinkIsNewest'
      BY <1>0, <1>1, <2>1, <2>2, <2>3, HolderParts
      DEF ClientIsLink, ExitIsTrue, RestsAlone, LinkIsNewest, AtRest, LifeInv
    <2>5. QED
      BY <1>3, <2>4 DEF HoldersInv
  <1>6. CASE SpawnedErr(g) \/ SpawnedBroken(g)
    <2>1. \A h \in Gens : ~Up(h)'
      <3>1. \A h \in Gens : Up(h) => h = g
        BY <1>1 DEF HoldersInv, UpIsNewest
      <3>2. ~Up(g)'
        <4>1. CASE SpawnedErr(g)
          BY <1>2, <4>1 DEF SpawnedErr, HoldersInv, ErrIsGone, Up
        <4>2. CASE SpawnedBroken(g)
          BY <4>2, HolderParts DEF SpawnedBroken, Up, LifeInv
        <4>3. QED
          BY <1>6, <4>1, <4>2
      <3>3. QED
        BY <1>2, <3>1, <3>2
    <2>2. PICK p : WakeFailed(p)
      BY <1>6 DEF SpawnedErr, SpawnedBroken
    <2>3. /\ status' \in {"hibernated", "exited"}
          /\ \/ client' = client /\ link'.gen = link.gen
             \/ client' = ClientsWithoutLink
          /\ ~link'.exit
      BY <2>2
      DEF WakeFailed, Exited, Hibernated, Ended, NoLink, Link, LifeInv, TypeOK
    <2>4. ClientIsLink'
      BY <1>4, <2>3, HolderParts DEF ClientsWithoutLink, ClientIsLink, LifeInv
    <2>5. RestsAlone' /\ LinkIsNewest' /\ ExitIsTrue'
      BY <2>1, <2>3 DEF RestsAlone, LinkIsNewest, ExitIsTrue, AtRest
    <2>6. QED
      BY <1>3, <2>4, <2>5 DEF HoldersInv
  <1>7. QED
    BY <1>1, <1>5, <1>6 DEF Spawned, SpawnedTooLate

LEMMA HoldersActor ==
    ASSUME LifeInv, HoldersInv, ~Watched, ActorStep
    PROVE  HoldersInv'
  <1>1. CASE ReadAnswer
    <2>1. /\ UNCHANGED <<hold, sock, gen, waitFor, spawned, client>>
          /\ link'.gen = link.gen /\ link'.exit = link.exit
          /\ status' = (IF status = "waking" THEN "waking" ELSE "running")
          /\ pid' = link.gen /\ link.gen # 0 /\ status \notin AtRest
      BY <1>1
      DEF ReadAnswer, LifeInv, LinkSound, TypeOK, Link, Serves, AtRest
    <2>2. RestsAlone' /\ LinkIsNewest'
      BY <2>1 DEF HoldersInv, RestsAlone, LinkIsNewest, AtRest
    <2>3. QED
      BY <2>1, <2>2, HoldersStay
  <1>2. CASE ReadOutput
    BY <1>2, HoldersRest DEF ReadOutput, actorVars
  <1>3. CASE ReadExit
    <2>1. Through
      BY <1>3, WhenThrough DEF ReadExit, HoldersInv, ExitIsTrue
    <2>2. closing \in BOOLEAN
      BY DEF LifeInv, TypeOK, RecordType
    <2>3. QED
      BY <1>3, <2>1, <2>2, HoldersExit DEF ReadExit
  <1>4. CASE ReadEof
    <2>1. UNCHANGED holdVars /\ pid' = pid
      BY <1>4 DEF ReadEof
    <2>2. link'.gen = link.gen /\ link'.exit = link.exit /\ link.gen # 0
      BY <1>4
      DEF ReadEof, HolderLost, LifeInv, LinkSound, TypeOK, Link
    <2>3. status' = status \/ (status = "running" /\ status' = "detached")
      BY <1>4 DEF ReadEof, HolderLost
    <2>4. QED
      BY <2>1, <2>2, <2>3, HoldersRest DEF AtRest
  <1>5. CASE KillFires
    <2>1. UNCHANGED <<hold, sock, gen, waitFor, spawned, client, link, status,
                      pid>>
      BY <1>5 DEF KillFires
    <2>2. RestsAlone' /\ LinkIsNewest'
      BY <2>1 DEF HoldersInv, RestsAlone, LinkIsNewest, Up
    <2>3. QED
      BY <2>1, <2>2, HoldersStay
  <1>6. CASE Reconnect
    BY <1>6, HoldersReconnect
  <1>7. CASE WakeQuiet
    BY <1>7, HoldersRest, HoldersFinishWake DEF WakeQuiet, AtRest
  <1>8. CASE WakeCap
    <2>1. link.gen # 0
      BY <1>8, HolderParts
      DEF WakeCap, SpawnSettled, HoldersInv, LinkIsNewest, LifeInv
    <2>2. UNCHANGED <<holdVars, pid, link>> /\ FinishWake(link, LinkUp)
          /\ status = "waking"
      BY <1>8, <2>1 DEF WakeCap, holdVars
    <2>3. QED
      BY <2>2, HoldersRest, HoldersFinishWake DEF AtRest
  <1>9. CASE SleepInputDropped
    BY <1>9, HoldersRest DEF SleepInputDropped
  <1>10. CASE ActorEnds
    <2>1. /\ UNCHANGED <<hold, sock, gen, waitFor, spawned, status, pid>>
          /\ client' = ClientsWithoutLink /\ ~link'.exit /\ status \in AtRest
      BY <1>10 DEF ActorEnds, NoLink, AtRest
    <2>2. RestsAlone' /\ LinkIsNewest'
      BY <2>1 DEF HoldersInv, RestsAlone, LinkIsNewest, Up, AtRest
    <2>3. QED
      BY <2>1, <2>2, HoldersStay
  <1>11. ASSUME NEW g \in Gens, Spawned(g) PROVE HoldersInv'
    BY <1>11, HoldersSpawned
  <1>12. QED
    BY <1>1, <1>2, <1>3, <1>4, <1>5, <1>6, <1>7, <1>8, <1>9, <1>10, <1>11
    DEF ActorStep

LEMMA HoldersBeginWake ==
    ASSUME LifeInv, HoldersInv, ~Watched, BeginWake
    PROVE  HoldersInv'
  <1>1. /\ status = "hibernated" /\ link.gen = 0 /\ gen + 1 \in Gens
        /\ gen' = gen + 1 /\ gen' # gen /\ pid' = 0
        /\ status' = "waking" /\ link' = link
        /\ hold' = [hold EXCEPT ![gen + 1] = "waiting"]
        /\ waitFor' = [waitFor EXCEPT ![gen + 1] = pid]
        /\ UNCHANGED <<client, sock, spawned>>
    BY BoundsAssumption
    DEF BeginWake, Serves, LifeInv, LinkSound, TypeOK, HolderType, Gens
  <1>2. hold'[gen'] = "waiting" /\ waitFor'[gen'] = pid
    BY <1>1, HolderParts DEF LifeInv
  <1>3. \A g \in Gens : Up(g)' =>
            Up(g) /\ hold'[g] = "reported" /\ pid = g
    BY <1>1, <1>2, HolderParts
    DEF Up, HoldersInv, RestsAlone, AtRest, LifeInv
  <1>4. \A g \in Gens : spawned[g] = "no"
    BY <1>1 DEF LifeInv, StartIsCurrent
  <1>5. PathIsHeld' /\ UpIsNewest' /\ RestsAlone'
    BY <1>1, <1>2, <1>3
    DEF HoldersInv, PathIsHeld, UpIsNewest, RestsAlone, AtRest
  <1>6. LinkIsNewest' /\ ClientIsLink' /\ ExitIsTrue' /\ ErrIsGone'
    BY <1>1, <1>2, <1>4
    DEF HoldersInv, LinkIsNewest, ClientIsLink, ExitIsTrue, ErrIsGone
  <1>7. QED
    BY <1>5, <1>6 DEF HoldersInv

LEMMA HoldersWake ==
    ASSUME LifeInv, HoldersInv, ~Watched, WakeStep
    PROVE  HoldersInv'
  <1>1. CASE WakeCall(TRUE) \/ WakeAsks
    BY <1>1, HoldersRest DEF WakeCall, WakeAsks, actorVars
  <1>2. CASE LaunchOpens \/ WakeGivesUp \/ WakeRefused
    BY <1>2, HoldersRest DEF LaunchOpens, WakeGivesUp, WakeRefused, actorVars
  <1>3. CASE LaunchGone
    BY <1>3, HoldersRest
    DEF LaunchGone, LaunchLostAsleep, LaunchLostElse, AtRest
  <1>4. CASE WakeStartsActor
    <2>1. status \in AtRest
      BY <1>4
      DEF WakeStartsActor, MayStartActor, LifeInv, NoActorIsOver, AtRest
    <2>2. QED
      BY <1>4, <2>1, HoldersRest DEF WakeStartsActor, AtRest
  <1>5. CASE BeginWake
    BY <1>5, HoldersBeginWake
  <1>6. QED
    BY <1>1, <1>2, <1>3, <1>4, <1>5 DEF WakeStep

LEMMA HoldersSpawn ==
    ASSUME LifeInv, HoldersInv, NEW g \in Gens, SpawnUp(g) \/ SpawnFails(g)
    PROVE  HoldersInv'
  <1>1. /\ hold[g] = "waiting" /\ g = gen /\ status = "waking" /\ link.gen = 0
        /\ UNCHANGED <<gen, status, link, pid, waitFor>>
    BY DEF SpawnUp, SpawnFails, actorVars, LifeInv, StartIsCurrent
  <1>2. \A h \in Gens : ~Up(h)
    <2>. SUFFICES ASSUME NEW h \in Gens, Up(h) PROVE FALSE
      OBVIOUS
    <2>1. waitFor[g] = h /\ hold[h] = "reported" /\ sock = h
      BY <1>1 DEF HoldersInv, UpIsNewest, PathIsHeld, Up
    <2>2. QED
      BY <2>1, HolderParts DEF SpawnUp, SpawnFails, OldHolderAway, LifeInv
  <1>3. CASE SpawnUp(g)
    <2>1. /\ \A h \in Gens : hold'[h] = (IF h = g THEN "serving" ELSE hold[h])
          /\ \A h \in Gens : client'[h] = (IF h = g THEN "task" ELSE client[h])
          /\ \A h \in Gens : spawned'[h] = (IF h = g THEN "ok" ELSE spawned[h])
          /\ sock' = g
      BY <1>3, HolderParts DEF SpawnUp, LifeInv
    <2>2. \A h \in Gens : Up(h)' => h = g
      BY <1>2, <2>1 DEF Up
    <2>3. QED
      BY <1>1, <2>1, <2>2, HolderParts
      DEF HoldersInv, PathIsHeld, UpIsNewest, RestsAlone, LinkIsNewest,
          ClientIsLink, ExitIsTrue, ErrIsGone, AtRest, LifeInv
  <1>4. CASE SpawnFails(g)
    <2>1. /\ \A h \in Gens : hold'[h] = (IF h = g THEN "gone" ELSE hold[h])
          /\ \A h \in Gens : spawned'[h] = (IF h = g THEN "err" ELSE spawned[h])
          /\ client' = client
      BY <1>4, HolderParts DEF SpawnFails, LifeInv
    <2>2. \A h \in Gens : ~Up(h)'
      BY <1>2, <2>1 DEF Up
    <2>3. QED
      BY <1>1, <2>1, <2>2, HolderParts
      DEF HoldersInv, PathIsHeld, UpIsNewest, RestsAlone, LinkIsNewest,
          ClientIsLink, ExitIsTrue, ErrIsGone, AtRest, LifeInv
  <1>5. QED
    BY <1>3, <1>4

\* A holder that was up moves on, and nobody else.
LEMMA HolderMoves ==
    ASSUME LifeInv, HoldersInv, NEW g \in Gens, Up(g),
           NEW st \in {"serving", "ended", "reported", "gone", "killed"},
           hold' = [hold EXCEPT ![g] = st],
           hold[g] = "reported" => st # "ended" /\ st # "serving",
           hold[g] = "ended" => st # "serving",
           UNCHANGED <<gen, status, pid, waitFor, spawned>>,
           sock' = sock \/ st = "gone",
           link'.gen = link.gen, ClientIsLink',
           link'.exit => \/ link.exit
                         \/ link.gen = g /\ st \in {"reported", "gone", "killed"}
    PROVE  HoldersInv'
  <1>1. \A h \in Gens : hold'[h] = (IF h = g THEN st ELSE hold[h])
    BY HolderParts DEF LifeInv
  <1>2. \A h \in Gens : Up(h) => h = g
    BY HolderParts DEF HoldersInv, PathIsHeld
  <1>3. \A h \in Gens : Up(h)' => Up(h) /\ h = g /\ st # "gone"
    BY <1>1, <1>2 DEF Up
  <1>4. PathIsHeld'
    BY <1>3 DEF HoldersInv, PathIsHeld
  <1>5. UpIsNewest'
    <2>. SUFFICES ASSUME NEW h \in Gens, Up(h)', h # gen
                  PROVE  /\ hold'[gen] = "waiting" /\ waitFor[gen] = h
                         /\ hold'[h] = "reported"
      BY DEF UpIsNewest
    <2>1. h = g /\ Up(h)
      BY <1>3
    <2>2. hold[gen] = "waiting" /\ waitFor[gen] = h /\ hold[h] = "reported"
      BY <2>1 DEF HoldersInv, UpIsNewest
    <2>3. QED
      BY <1>1, <2>1, <2>2, HolderParts DEF Up, LifeInv
  <1>6. RestsAlone'
    BY <1>1, <1>3 DEF HoldersInv, RestsAlone, Up
  <1>7. LinkIsNewest'
    BY <1>1, HolderParts DEF HoldersInv, LinkIsNewest, Up, LifeInv
  <1>8. ExitIsTrue'
    <2>1. hold[g] # "killed" /\ hold[g] # "gone"
      BY DEF Up
    <2>2. QED
      BY <1>1, <2>1, HolderParts DEF HoldersInv, ExitIsTrue, LifeInv
  <1>9. ErrIsGone'
    BY <1>1 DEF HoldersInv, ErrIsGone, Up
  <1>10. QED
    BY <1>4, <1>5, <1>6, <1>7, <1>8, <1>9 DEF HoldersInv

LEMMA HoldersHolder ==
    ASSUME LifeInv, HoldersInv, ~Watched, NEW g \in Gens, HolderStep(g)
    PROVE  HoldersInv'
  <1>1. CASE SpawnUp(g) \/ SpawnFails(g)
    BY <1>1, HoldersSpawn
  <1>2. CASE SpawnedToNobody(g)
    BY <1>2 DEF SpawnedToNobody, LifeInv, StartIsCurrent, NoActorIsOver
  <1>3. CASE ChildExits(g)
    <2>1. CASE client[g] = "attached"
      <3>1. link.gen = g
        BY <2>1 DEF HoldersInv, ClientIsLink
      <3>2. hold' = [hold EXCEPT ![g] = "reported"] /\ link'.gen = link.gen
        BY <1>3, <2>1 DEF ChildExits, LifeInv, TypeOK, Link
      <3>3. ClientIsLink' /\ Up(g)
        BY <1>3, <3>2 DEF ChildExits, HoldersInv, ClientIsLink, Up
      <3>4. QED
        BY <1>3, <3>1, <3>2, <3>3, HolderMoves DEF ChildExits
    <2>2. CASE client[g] # "attached"
      <3>1. ClientIsLink' /\ Up(g) /\ link' = link
            /\ hold' = [hold EXCEPT ![g] = "ended"]
        BY <1>3, <2>2 DEF ChildExits, HoldersInv, ClientIsLink, Up
      <3>2. QED
        BY <1>3, <3>1, HolderMoves DEF ChildExits
    <2>3. QED
      BY <2>1, <2>2
  <1>4. CASE HoldAttach(g)
    <2>1. link.gen = g /\ Up(g)
      BY <1>4 DEF HoldAttach, HoldersInv, ClientIsLink
    <2>2. /\ link'.gen = g /\ link'.exit = (hold[g] = "ended")
          /\ UNCHANGED <<gen, status, pid, waitFor, spawned, sock>>
      BY <1>4, <2>1 DEF HoldAttach, LifeInv, TypeOK, Link
    <2>3. ClientIsLink'
      BY <1>4, <2>1, <2>2, HolderParts
      DEF HoldAttach, HoldersInv, ClientIsLink, LifeInv
    <2>4. PICK st \in {"serving", "reported"} :
              /\ hold' = [hold EXCEPT ![g] = st]
              /\ hold[g] \in {"ended", "reported"} => st = "reported"
      <3>1. CASE hold[g] = "ended"
        BY <1>4, <3>1 DEF HoldAttach
      <3>2. CASE hold[g] # "ended"
        <4>1. hold' = hold /\ hold[g] \in {"serving", "reported"}
          BY <1>4, <3>2 DEF HoldAttach, Up
        <4>2. hold = [hold EXCEPT ![g] = hold[g]]
          BY HolderParts DEF LifeInv
        <4>3. QED
          BY <3>2, <4>1, <4>2
      <3>3. QED
        BY <3>1, <3>2
    <2>5. QED
      BY <2>1, <2>2, <2>3, <2>4, HolderMoves
  <1>5. CASE HoldEnds(g)
    <2>1. Up(g)
      BY <1>5 DEF HoldEnds, Up
    <2>2. ClientIsLink' /\ link' = link /\ hold' = [hold EXCEPT ![g] = "gone"]
      BY <1>5, HolderParts
      DEF HoldEnds, HoldersInv, ClientIsLink, actorVars, LifeInv
    <2>3. QED
      BY <1>5, <2>1, <2>2, HolderMoves DEF HoldEnds, actorVars
  <1>6. QED
    BY <1>1, <1>2, <1>3, <1>4, <1>5 DEF HolderStep

LEMMA HoldersFault ==
    ASSUME LifeInv, HoldersInv, Fault
    PROVE  HoldersInv'
  <1>1. UNCHANGED <<status, pid, link, gen, sock, waitFor, spawned>>
    BY DEF Fault, actorVars
  <1>2. CASE LaunchDamaged
    BY <1>1, <1>2, HoldersRest DEF Fault, LaunchDamaged, holdVars
  <1>3. ASSUME NEW g \in Gens, ClientDropped(g) PROVE HoldersInv'
    <2>1. ClientIsLink' /\ hold' = hold
      BY <1>1, <1>3, HolderParts
      DEF ClientDropped, HoldersInv, ClientIsLink, LifeInv
    <2>2. QED
      BY <1>1, <2>1
      DEF HoldersInv, PathIsHeld, UpIsNewest, RestsAlone, LinkIsNewest,
          ExitIsTrue, ErrIsGone, Up
  <1>4. ASSUME NEW g \in Gens, HolderDies(g) PROVE HoldersInv'
    <2>1. ClientIsLink'
      BY <1>1, <1>4, HolderParts
      DEF HolderDies, HoldersInv, ClientIsLink, LifeInv
    <2>2. QED
      BY <1>1, <1>4, <2>1, HolderMoves DEF HolderDies
  <1>5. QED
    BY <1>2, <1>3, <1>4 DEF Fault

LEMMA HoldersNext ==
    ASSUME LifeInv, HoldersInv, ~Watched, [Next]_vars
    PROVE  HoldersInv'
  <1>1. CASE UNCHANGED vars
    BY <1>1, HoldersRest DEF vars, actorVars
  <1>2. QED
    BY <1>1, HoldersClient, HoldersActor, HoldersWake, HoldersHolder,
       HoldersFault DEF Next

\* At most one holder is up, so at most one agent runs.
LEMMA OneUp ==
    ASSUME LifeInv, HoldersInv
    PROVE  Cardinality(Serving) <= 1
  <1>1. \A g, h \in Serving : g = h
    BY DEF Serving, Up, HoldersInv, PathIsHeld
  <1>2. CASE Serving = {}
    BY <1>2, FS_EmptySet
  <1>3. CASE Serving # {}
    <2>1. PICK g : g \in Serving
      BY <1>3
    <2>2. Serving = {g}
      BY <1>1, <2>1, Zenon
    <2>3. QED
      BY <2>2, FS_Singleton
  <1>4. QED
    BY <1>2, <1>3

LEMMA HoldersInvariant == ASSUME ~Watched PROVE Spec => [](LifeInv /\ HoldersInv)
  BY HoldersInit, HoldersNext, LifeInvariant, PTL DEF Spec

\* One conversation has one agent at a time, over any number of wakes, dropped
\* connections and killed holders, and a session that shows as running is
\* connected to the newest (wake.rs: no later wake starts a second agent).
THEOREM OneAgentAtATime == ASSUME ~Watched PROVE Spec => []OneAgent
  <1>1. LifeInv /\ HoldersInv => OneAgent
    BY OneUp DEF HoldersInv, LinkIsNewest, OneAgent, AtRest
  <1>2. QED
    BY <1>1, HoldersInvariant, PTL

\* No agent runs on behind a record that sleeps or ended.
THEOREM NoAgentLeftBehind == ASSUME ~Watched PROVE Spec => []NoOrphan
  <1>1. LifeInv /\ HoldersInv => NoOrphan
    BY DEF HoldersInv, RestsAlone, NoOrphan, AtRest, Serving, Up
  <1>2. QED
    BY <1>1, HoldersInvariant, PTL

=============================================================================
