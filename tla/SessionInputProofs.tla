--------------------------- MODULE SessionInputProofs ---------------------------
(***************************************************************************)
(* Proofs about the input of a session, for every value of the constants   *)
(* of SessionActor: every accepted piece is in exactly one place, and the  *)
(* agents receive what they receive in the order it was typed.             *)
(***************************************************************************)
EXTENDS SessionActorProofs

-----------------------------------------------------------------------------
(* Queues of numbers.                                                      *)

Ascending(q) == \A i, j \in 1..Len(q) : i < j => q[i] < q[j]
Below(p, q) == \A x \in Elems(p), y \in Elems(q) : x < y

LEMMA ElemsOfNone == Elems(<<>>) = {} /\ Ascending(<<>>)
  BY DEF Elems, Ascending

\* What appending one piece does to the elements and to the order.
LEMMA AppendOne ==
    ASSUME NEW q \in Seq(Nat), NEW x \in Nat
    PROVE  /\ Elems(Append(q, x)) = Elems(q) \cup {x}
           /\ Ascending(q) /\ (\A y \in Elems(q) : y < x)
                => Ascending(Append(q, x))
  <1> DEFINE r == Append(q, x)
  <1>1. /\ Len(q) \in Nat /\ Len(r) = Len(q) + 1
        /\ \A i \in 1..Len(q) : r[i] = q[i] /\ q[i] \in Nat
        /\ r[Len(q) + 1] = x
    OBVIOUS
  <1>2. 1..Len(r) = 1..Len(q) \cup {Len(q) + 1}
    BY <1>1
  <1> HIDE DEF r
  <1>3. Elems(r) = Elems(q) \cup {x}
    BY <1>1, <1>2 DEF Elems
  <1>4. ASSUME Ascending(q), \A y \in Elems(q) : y < x
        PROVE  Ascending(r)
    <2>1. SUFFICES ASSUME NEW i \in 1..Len(r), NEW j \in 1..Len(r), i < j
                   PROVE  r[i] < r[j]
      BY DEF Ascending
    <2>2. i \in 1..Len(q)
      BY <1>1, <2>1
    <2>3. CASE j \in 1..Len(q)
      BY <1>1, <1>4, <2>1, <2>2, <2>3 DEF Ascending
    <2>4. CASE j = Len(q) + 1
      BY <1>1, <1>4, <2>2, <2>4 DEF Elems
    <2>5. QED
      BY <1>2, <2>3, <2>4
  <1>5. QED
    BY <1>3, <1>4 DEF r

\* What joining two queues does to the elements and to the order.
LEMMA JoinTwo ==
    ASSUME NEW p \in Seq(Nat), NEW q \in Seq(Nat)
    PROVE  /\ Elems(p \o q) = Elems(p) \cup Elems(q)
           /\ Ascending(p) /\ Ascending(q) /\ Below(p, q)
                => Ascending(p \o q)
  <1> DEFINE r == p \o q
  <1>1. /\ Len(p) \in Nat /\ Len(q) \in Nat /\ Len(r) = Len(p) + Len(q)
        /\ \A i \in 1..Len(p) : r[i] = p[i] /\ p[i] \in Nat
        /\ \A i \in 1..Len(q) : r[Len(p) + i] = q[i] /\ q[i] \in Nat
    OBVIOUS
  <1>2. \A i \in 1..Len(r) :
            i \in 1..Len(p) \/ (i - Len(p) \in 1..Len(q)
                                /\ i = Len(p) + (i - Len(p)))
    BY <1>1
  <1>3. \A i \in 1..Len(p) : i \in 1..Len(r)
    BY <1>1
  <1>4. \A i \in 1..Len(q) : Len(p) + i \in 1..Len(r)
    BY <1>1
  <1> HIDE DEF r
  <1>5. Elems(r) = Elems(p) \cup Elems(q)
    <2>1. ASSUME NEW x \in Elems(r) PROVE x \in Elems(p) \cup Elems(q)
      <3>1. PICK i \in 1..Len(r) : x = r[i]
        BY <2>1 DEF Elems
      <3>2. CASE i \in 1..Len(p)
        BY <1>1, <3>1, <3>2 DEF Elems
      <3>3. CASE i - Len(p) \in 1..Len(q) /\ i = Len(p) + (i - Len(p))
        BY <1>1, <3>1, <3>3 DEF Elems
      <3>4. QED
        BY <1>2, <3>2, <3>3
    <2>2. ASSUME NEW x \in Elems(p) PROVE x \in Elems(r)
      BY <1>1, <1>3, <2>2 DEF Elems
    <2>3. ASSUME NEW x \in Elems(q) PROVE x \in Elems(r)
      <3>1. PICK i \in 1..Len(q) : x = q[i]
        BY <2>3 DEF Elems
      <3>2. x = r[Len(p) + i] /\ Len(p) + i \in 1..Len(r)
        BY <1>1, <1>4, <3>1
      <3>3. QED
        BY <3>2 DEF Elems
    <2>4. QED
      BY <2>1, <2>2, <2>3
  <1>6. ASSUME Ascending(p), Ascending(q), Below(p, q)
        PROVE  Ascending(r)
    <2>1. SUFFICES ASSUME NEW i \in 1..Len(r), NEW j \in 1..Len(r), i < j
                   PROVE  r[i] < r[j]
      BY DEF Ascending
    <2>2. CASE i \in 1..Len(p) /\ j \in 1..Len(p)
      BY <1>1, <1>6, <2>1, <2>2 DEF Ascending
    <2>3. CASE i \in 1..Len(p) /\ j \notin 1..Len(p)
      <3>1. PICK k \in 1..Len(q) : j = Len(p) + k
        BY <1>2, <2>3
      <3>2. r[i] \in Elems(p) /\ r[j] \in Elems(q)
        BY <1>1, <2>3, <3>1 DEF Elems
      <3>3. QED
        BY <1>6, <3>2 DEF Below
    <2>4. CASE i \notin 1..Len(p)
      <3>1. PICK k \in 1..Len(q) : i = Len(p) + k
        BY <1>2, <2>4
      <3>a. j \notin 1..Len(p)
        BY <1>1, <2>1, <3>1
      <3>2. PICK l \in 1..Len(q) : j = Len(p) + l
        BY <1>2, <3>a
      <3>3. k < l
        BY <1>1, <2>1, <3>1, <3>2
      <3>4. QED
        BY <1>1, <1>6, <3>1, <3>2, <3>3 DEF Ascending
    <2>5. QED
      BY <2>2, <2>3, <2>4
  <1>7. QED
    BY <1>5, <1>6 DEF r

\* A queue that ascends holds as many elements as it is long.
LEMMA AscendingCounts ==
    ASSUME NEW q \in Seq(Nat), Ascending(q)
    PROVE  IsFiniteSet(Elems(q)) /\ Cardinality(Elems(q)) = Len(q)
  <1> DEFINE f == [i \in 1..Len(q) |-> q[i]]
  <1>1. Len(q) \in Nat /\ \A i \in 1..Len(q) : q[i] \in Nat
    OBVIOUS
  <1>2. \A i, j \in 1..Len(q) : i # j => q[i] # q[j]
    BY <1>1 DEF Ascending
  <1>3. f \in Bijection(1..Len(q), Elems(q))
    <2>1. f \in [1..Len(q) -> Elems(q)]
      BY DEF Elems
    <2>2. \A i, j \in 1..Len(q) : f[i] = f[j] => i = j
      BY <1>2
    <2>3. \A x \in Elems(q) : \E i \in 1..Len(q) : f[i] = x
      BY DEF Elems
    <2>4. QED
      BY <2>1, <2>2, <2>3 DEF Bijection, Injection, Surjection, IsInjective
  <1>4. IsFiniteSet(1..Len(q)) /\ Cardinality(1..Len(q)) = Len(q)
    BY <1>1, FS_Interval
  <1>5. ExistsBijection(1..Len(q), Elems(q))
    BY <1>3 DEF ExistsBijection
  <1>6. IsFiniteSet(Elems(q))
    BY <1>4, <1>5, FS_Bijection
  <1>7. Cardinality(Elems(q)) = Cardinality(1..Len(q))
    BY <1>4, <1>5, <1>6, FS_Bijection
  <1>8. QED
    BY <1>4, <1>6, <1>7

-----------------------------------------------------------------------------
(* Where the input is.                                                     *)

Queued == Elems(got) \cup Elems(sleepQueue) \cup Elems(wake.queue)

\* Every queue ascends, and what the agents received came before what waits.
QueuesAscend ==
    /\ Ascending(got) /\ Ascending(sleepQueue) /\ Ascending(wake.queue)
    /\ Below(got, sleepQueue) /\ Below(got, wake.queue)

\* Each piece typed is queued, lost or dropped, and nothing else is.
PiecesArePlaced ==
    /\ 1..typed = Queued \cup lost \cup dropped
    /\ lost \cap dropped = {} /\ (lost \cup dropped) \cap Queued = {}

\* The two queues of waiting input are not filled at the same time.
OneQueue == sleepQueue = <<>> \/ wake.queue = <<>>

InputInv == QueuesAscend /\ PiecesArePlaced /\ OneQueue

\* Input that waits for a sleep has an actor that keeps it, and whose process
\* still ends or that has no way back to one.
SleepersInput ==
    sleepQueue # <<>> =>
        actor /\ \/ hibernating
                 \/ status \in AtRest /\ ~link.open /\ ~retry

\* And once the session sleeps, somebody is told: another than the wake call
\* that asked while the process still was there.
WakeIsOwed ==
    status = "hibernated" /\ sleepQueue # <<>> =>
        /\ sleepWake # "none" \/ dropMsg
        /\ call = "asking" => sleepWake = "asked"

QueueInv == InputInv /\ SleepersInput /\ WakeIsOwed

\* The ways in which input moves.
Still ==
    /\ UNCHANGED <<typed, got, sleepQueue, lost, dropped>>
    /\ wake'.queue = wake.queue

Type(to, to1) == typed' = typed + 1 /\ to1 = Append(to, typed')

TypedToAgent ==
    /\ Type(got, got') /\ sleepQueue = <<>> /\ wake.queue = <<>>
    /\ UNCHANGED <<sleepQueue, lost, dropped>> /\ wake'.queue = wake.queue

TypedToSleep ==
    /\ Type(sleepQueue, sleepQueue') /\ wake.queue = <<>>
    /\ UNCHANGED <<got, lost, dropped>> /\ wake'.queue = wake.queue

TypedToWake ==
    /\ Type(wake.queue, wake'.queue) /\ sleepQueue = <<>>
    /\ UNCHANGED <<got, sleepQueue, lost, dropped>>

\* The end of a wake: its input goes to the agent, or to nobody.
Delivered ==
    /\ UNCHANGED <<typed, sleepQueue, lost, dropped>>
    /\ got' = got \o wake.queue /\ wake'.queue = <<>> /\ sleepQueue = <<>>

WakeLost ==
    /\ UNCHANGED <<typed, got, sleepQueue, dropped>>
    /\ lost' = lost \cup Elems(wake.queue) /\ wake'.queue = <<>>

WakeDropped ==
    /\ UNCHANGED <<typed, got, sleepQueue, lost>>
    /\ dropped' = dropped \cup Elems(wake.queue) /\ wake'.queue = <<>>

SleepDropped ==
    /\ UNCHANGED <<typed, got, lost>> /\ wake'.queue = wake.queue
    /\ dropped' = dropped \cup Elems(sleepQueue) /\ sleepQueue' = <<>>

\* The start of a wake takes the input that waited for the sleep.
Taken ==
    /\ UNCHANGED <<typed, got, lost, dropped>>
    /\ wake.queue = <<>> /\ wake'.queue = sleepQueue /\ sleepQueue' = <<>>

Moves ==
    \/ Still \/ TypedToAgent \/ TypedToSleep \/ TypedToWake
    \/ Delivered \/ WakeLost \/ WakeDropped \/ SleepDropped \/ Taken

\* The types these moves are about.
LEMMA InputTypes ==
    ASSUME TypeOK
    PROVE  /\ typed \in Nat /\ got \in Seq(Nat) /\ sleepQueue \in Seq(Nat)
           /\ wake.queue \in Seq(Nat)
  <1>1. ASSUME NEW q \in Seq(Pieces) PROVE q \in Seq(Nat)
    <2>1. Pieces \subseteq Nat
      BY BoundsAssumption DEF Pieces
    <2>2. Len(q) \in Nat /\ q \in [1..Len(q) -> Pieces]
      BY <1>1
    <2>3. q \in [1..Len(q) -> Nat]
      BY <2>1, <2>2
    <2>4. QED
      BY <2>2, <2>3
  <1>2. QED
    BY <1>1, BoundsAssumption DEF TypeOK, InputType

LEMMA TypedAscends ==
    ASSUME TypeOK, InputInv, NEW q \in Seq(Nat),
           Elems(q) \subseteq Queued
    PROVE  /\ Elems(Append(q, typed + 1)) = Elems(q) \cup {typed + 1}
           /\ Ascending(q) => Ascending(Append(q, typed + 1))
           /\ \A x \in Elems(q) : x \in Nat /\ x < typed + 1
  <1>1. typed \in Nat /\ typed + 1 \in Nat
    BY InputTypes
  <1>2. \A x \in Elems(q) : x \in 1..typed
    BY DEF InputInv, PiecesArePlaced
  <1>3. \A x \in Elems(q) : x \in Nat /\ x < typed + 1
    BY <1>1, <1>2
  <1>4. QED
    BY <1>1, <1>3, AppendOne

LEMMA TypingMoves ==
    ASSUME TypeOK, InputInv, TypedToAgent \/ TypedToSleep \/ TypedToWake
    PROVE  InputInv'
  <1>1. /\ typed \in Nat /\ got \in Seq(Nat) /\ sleepQueue \in Seq(Nat)
        /\ wake.queue \in Seq(Nat)
    BY InputTypes
  <1>2. 1..(typed + 1) = 1..typed \cup {typed + 1} /\ typed + 1 \notin 1..typed
    BY <1>1
  <1>3. typed' = typed + 1
    BY DEF TypedToAgent, TypedToSleep, TypedToWake, Type
  <1>4. typed + 1 \notin Queued \cup lost \cup dropped
    BY <1>2 DEF InputInv, PiecesArePlaced
  <1>5. Elems(<<>>) = {} /\ Ascending(<<>>)
    BY ElemsOfNone
  <1>6. CASE TypedToAgent
    <2>1. /\ got' = Append(got, typed + 1) /\ sleepQueue' = <<>>
          /\ wake'.queue = <<>> /\ lost' = lost /\ dropped' = dropped
          /\ sleepQueue = <<>> /\ wake.queue = <<>>
      BY <1>3, <1>6 DEF TypedToAgent, Type
    <2>2. Elems(got') = Elems(got) \cup {typed + 1} /\ Ascending(got')
      BY <1>1, <2>1, TypedAscends DEF InputInv, QueuesAscend, Queued
    <2>3. QueuesAscend'
      BY <1>5, <2>1, <2>2 DEF QueuesAscend, Below
    <2>4. PiecesArePlaced'
      BY <1>2, <1>3, <1>4, <2>1, <2>2
      DEF InputInv, PiecesArePlaced, Queued
    <2>5. QED
      BY <2>1, <2>3, <2>4 DEF InputInv, OneQueue
  <1>7. CASE TypedToSleep
    <2>1. /\ sleepQueue' = Append(sleepQueue, typed + 1) /\ got' = got
          /\ wake'.queue = <<>> /\ lost' = lost /\ dropped' = dropped
          /\ wake.queue = <<>>
      BY <1>3, <1>7 DEF TypedToSleep, Type
    <2>2. /\ Elems(sleepQueue') = Elems(sleepQueue) \cup {typed + 1}
          /\ Ascending(sleepQueue')
      BY <1>1, <2>1, TypedAscends DEF InputInv, QueuesAscend, Queued
    <2>a. \A x \in Elems(got) : x < typed + 1
      BY <1>1, TypedAscends DEF Queued
    <2>3. QueuesAscend'
      BY <1>5, <2>1, <2>2, <2>a DEF QueuesAscend, Below, InputInv
    <2>4. PiecesArePlaced'
      BY <1>2, <1>3, <1>4, <2>1, <2>2
      DEF InputInv, PiecesArePlaced, Queued
    <2>5. QED
      BY <2>1, <2>3, <2>4 DEF InputInv, OneQueue
  <1>8. CASE TypedToWake
    <2>1. /\ wake'.queue = Append(wake.queue, typed + 1) /\ got' = got
          /\ sleepQueue = <<>> /\ sleepQueue' = <<>>
          /\ lost' = lost /\ dropped' = dropped
      BY <1>3, <1>8 DEF TypedToWake, Type
    <2>2. /\ Elems(wake'.queue) = Elems(wake.queue) \cup {typed + 1}
          /\ Ascending(wake'.queue)
      BY <1>1, <2>1, TypedAscends DEF InputInv, QueuesAscend, Queued
    <2>a. \A x \in Elems(got) : x < typed + 1
      BY <1>1, TypedAscends DEF Queued
    <2>3. QueuesAscend'
      BY <1>5, <2>1, <2>2, <2>a DEF QueuesAscend, Below, InputInv
    <2>4. PiecesArePlaced'
      BY <1>2, <1>3, <1>4, <2>1, <2>2
      DEF InputInv, PiecesArePlaced, Queued
    <2>5. QED
      BY <2>1, <2>3, <2>4 DEF InputInv, OneQueue
  <1>9. QED
    BY <1>6, <1>7, <1>8

\* What waits in one of the two queues is nowhere else.
LEMMA QueuesApart ==
    ASSUME TypeOK, InputInv
    PROVE  /\ Elems(got) \cap Elems(sleepQueue) = {}
           /\ Elems(got) \cap Elems(wake.queue) = {}
           /\ Elems(sleepQueue) \cap Elems(wake.queue) = {}
  <1>1. \A x \in Queued : x \in Nat
    BY InputTypes DEF InputInv, PiecesArePlaced
  <1>2. \A x, y \in Queued : x < y => x # y
    BY <1>1
  <1>3. QED
    BY <1>2, ElemsOfNone DEF Queued, InputInv, QueuesAscend, Below, OneQueue

LEMMA OtherMoves ==
    ASSUME TypeOK, InputInv,
           \/ Still \/ Delivered \/ WakeLost \/ WakeDropped
           \/ SleepDropped \/ Taken
    PROVE  InputInv'
  <1>1. /\ typed \in Nat /\ got \in Seq(Nat) /\ sleepQueue \in Seq(Nat)
        /\ wake.queue \in Seq(Nat)
    BY InputTypes
  <1>2. Elems(<<>>) = {} /\ Ascending(<<>>)
    BY ElemsOfNone
  <1>3. CASE Still
    BY <1>3
    DEF Still, InputInv, QueuesAscend, PiecesArePlaced, Queued, OneQueue
  <1>4. CASE Delivered
    <2>1. /\ Elems(got') = Elems(got) \cup Elems(wake.queue)
          /\ Ascending(got')
      BY <1>1, <1>4, JoinTwo DEF Delivered, InputInv, QueuesAscend
    <2>2. QueuesAscend'
      BY <1>2, <1>4, <2>1 DEF Delivered, InputInv, QueuesAscend, Below
    <2>3. PiecesArePlaced'
      BY <1>2, <1>4, <2>1 DEF Delivered, InputInv, PiecesArePlaced, Queued
    <2>4. QED
      BY <1>4, <2>2, <2>3 DEF Delivered, InputInv, OneQueue
  <1>5. CASE WakeLost
    <2>1. QueuesAscend'
      BY <1>2, <1>5 DEF WakeLost, InputInv, QueuesAscend, Below
    <2>2. PiecesArePlaced'
      BY <1>2, <1>5, QueuesApart DEF WakeLost, InputInv, PiecesArePlaced, Queued
    <2>3. QED
      BY <1>5, <2>1, <2>2 DEF WakeLost, InputInv, OneQueue
  <1>6. CASE WakeDropped
    <2>1. QueuesAscend'
      BY <1>2, <1>6 DEF WakeDropped, InputInv, QueuesAscend, Below
    <2>2. PiecesArePlaced'
      BY <1>2, <1>6, QueuesApart
      DEF WakeDropped, InputInv, PiecesArePlaced, Queued
    <2>3. QED
      BY <1>6, <2>1, <2>2 DEF WakeDropped, InputInv, OneQueue
  <1>7. CASE SleepDropped
    <2>1. QueuesAscend'
      BY <1>2, <1>7 DEF SleepDropped, InputInv, QueuesAscend, Below
    <2>2. PiecesArePlaced'
      BY <1>2, <1>7, QueuesApart
      DEF SleepDropped, InputInv, PiecesArePlaced, Queued
    <2>3. QED
      BY <1>7, <2>1, <2>2 DEF SleepDropped, InputInv, OneQueue
  <1>8. CASE Taken
    <2>1. QueuesAscend'
      BY <1>2, <1>8 DEF Taken, InputInv, QueuesAscend, Below
    <2>2. PiecesArePlaced'
      BY <1>2, <1>8 DEF Taken, InputInv, PiecesArePlaced, Queued
    <2>3. QED
      BY <1>8, <2>1, <2>2 DEF Taken, InputInv, OneQueue
  <1>9. QED
    BY <1>3, <1>4, <1>5, <1>6, <1>7, <1>8

LEMMA MovesKeep ==
    ASSUME TypeOK, InputInv, Moves
    PROVE  InputInv'
  BY TypingMoves, OtherMoves DEF Moves

-----------------------------------------------------------------------------
(* Every step is one of these moves.                                       *)

Kept == Moves /\ SleepersInput' /\ WakeIsOwed'

\* Who keeps input, and when nobody does.
LEMMA WhoKeeps ==
    ASSUME TypeOK, QueueInv
    PROVE  /\ status # "waking" => wake.queue = <<>>
           /\ status = "waking" => sleepQueue = <<>>
           /\ ~actor => sleepQueue = <<>>
           /\ wake \in Wake /\ NoWake.queue = <<>>
  <1>1. NoWake.queue = <<>>
    BY DEF NoWake
  <1>2. status # "waking" => wake.queue = <<>>
    BY <1>1 DEF TypeOK, WakeOnlyWaking
  <1>3. status = "waking" => sleepQueue = <<>>
    BY DEF QueueInv, SleepersInput, TypeOK, WakeOnlyWaking, AtRest
  <1>4. QED
    BY <1>1, <1>2, <1>3
    DEF QueueInv, SleepersInput, TypeOK, InputType, Wake

LEMMA NothingWaits ==
    sleepQueue' = <<>> => SleepersInput' /\ WakeIsOwed'
  BY DEF SleepersInput, WakeIsOwed

\* A step that leaves the input, the actor and what it remembers alone.
LEMMA NothingMoves ==
    ASSUME QueueInv, UNCHANGED <<typed, got, sleepQueue, lost, dropped>>,
           wake'.queue = wake.queue, actor \/ actor' = actor,
           actor => actor' \/ sleepQueue = <<>>,
           UNCHANGED <<status, hibernating>>,
           retry' => retry \/ hibernating \/ status \notin AtRest,
           link'.open => link.open \/ hibernating \/ status \notin AtRest,
           status = "hibernated" /\ sleepQueue # <<>>
             /\ (sleepWake # "none" \/ dropMsg)
             => sleepWake' # "none" \/ dropMsg',
           status = "hibernated" /\ call' = "asking"
             => call = "asking" /\ sleepWake' = sleepWake
    PROVE  Kept
  <1>1. Still
    BY DEF Still
  <1>2. SleepersInput'
    BY DEF QueueInv, SleepersInput
  <1>3. WakeIsOwed'
    BY DEF QueueInv, WakeIsOwed
  <1>4. QED
    BY <1>1, <1>2, <1>3 DEF Kept, Moves

LEMMA KeptByRest ==
    ASSUME QueueInv, UNCHANGED vars
    PROVE  Kept
  BY NothingMoves DEF vars, actorVars, inputVars, wakeCallVars

LEMMA KeptByInput ==
    ASSUME TypeOK, QueueInv, Input
    PROVE  Kept
  <1>1. /\ typed' = typed + 1
        /\ UNCHANGED <<lost, dropped, status, actor, link, retry, hibernating,
                       sleepWake, dropMsg>>
    BY DEF Input, actorVars, wakeCallVars
  <1>2. CASE InputQueuedForWake
    <2>1. TypedToWake
      BY <1>1, <1>2, WhoKeeps DEF InputQueuedForWake, TypedToWake, Type, Wake
    <2>2. sleepQueue' = <<>>
      BY <2>1 DEF TypedToWake
    <2>3. QED
      BY <2>1, <2>2, NothingWaits DEF Kept, Moves
  <1>3. CASE InputQueuedForSleep
    <2>1. TypedToSleep
      BY <1>1, <1>3, WhoKeeps DEF InputQueuedForSleep, TypedToSleep, Type
    <2>2. SleepersInput' /\ WakeIsOwed'
      BY <1>1, <1>3
      DEF Input, Serves, InputQueuedForSleep, SleepersInput, WakeIsOwed
    <2>3. QED
      BY <2>1, <2>2 DEF Kept, Moves
  <1>4. CASE InputSent
    <2>1. sleepQueue = <<>>
      BY <1>4 DEF InputSent, QueueInv, SleepersInput, AtRest
    <2>2. TypedToAgent
      BY <1>1, <1>4, <2>1, WhoKeeps DEF InputSent, TypedToAgent, Type
    <2>3. sleepQueue' = <<>>
      BY <2>2, <2>1 DEF TypedToAgent
    <2>4. QED
      BY <2>2, <2>3, NothingWaits DEF Kept, Moves
  <1>5. QED
    BY <1>2, <1>3, <1>4 DEF Input

\* The end of a process: a wake's input is given up, a sleep's is told.
LEMMA KeptByExited ==
    ASSUME TypeOK, QueueInv, NEW b \in BOOLEAN, Exited(b),
           UNCHANGED <<actor, sleepQueue, typed, got, lost>>
    PROVE  Kept
  <1>1. CASE hibernating /\ ~b
    <2>1. Hibernated
      BY <1>1 DEF Exited
    <2>2. Still
      BY <2>1 DEF Hibernated, Still
    <2>3. SleepersInput'
      BY <2>1 DEF Hibernated, QueueInv, SleepersInput, AtRest, NoLink
    <2>4. WakeIsOwed'
      BY <2>1 DEF Hibernated, WakeIsOwed, WakeAfterSleep
    <2>5. QED
      BY <2>2, <2>3, <2>4 DEF Kept, Moves
  <1>2. CASE ~(hibernating /\ ~b)
    <2>1. Ended(b)
      BY <1>2 DEF Exited
    <2>2. WakeDropped
      BY <2>1, WhoKeeps DEF Ended, WakeDropped
    <2>3. link'.open = link.open
      BY <2>1 DEF Ended, TypeOK, Link
    <2>4. SleepersInput' /\ WakeIsOwed'
      BY <2>1, <2>3 DEF Ended, QueueInv, SleepersInput, WakeIsOwed, AtRest
    <2>5. QED
      BY <2>2, <2>4 DEF Kept, Moves
  <1>3. QED
    BY <1>1, <1>2

\* The end of a wake, over a connection or for want of one.
LEMMA KeptByFinishWake ==
    ASSUME TypeOK, QueueInv, status = "waking", NEW l, NEW up \in BOOLEAN,
           FinishWake(l, up), UNCHANGED <<sleepQueue, typed, dropped>>
    PROVE  Kept
  <1>1. sleepQueue = <<>> /\ sleepQueue' = <<>>
    BY WhoKeeps
  <1>2. CASE l.gen = 0
    <2>1. Still
      BY <1>2, WhoKeeps DEF FinishWake, Still, Wake
    <2>2. QED
      BY <1>1, <2>1, NothingWaits DEF Kept, Moves
  <1>3. CASE l.gen # 0
    <2>1. Delivered \/ WakeLost
      BY <1>1, <1>3, WhoKeeps DEF FinishWake, Delivered, WakeLost
    <2>2. QED
      BY <1>1, <2>1, NothingWaits DEF Kept, Moves
  <1>4. QED
    BY <1>2, <1>3

LEMMA KeptByWakeFailed ==
    ASSUME TypeOK, QueueInv, status = "waking", NEW p, WakeFailed(p),
           UNCHANGED <<actor, sleepQueue, typed, got, lost>>
    PROVE  Kept
  <1>1. CASE closing
    BY <1>1, KeptByExited DEF WakeFailed
  <1>2. CASE ~closing
    <2>1. sleepQueue' = <<>>
      BY WhoKeeps
    <2>2. WakeDropped
      BY <1>2, WhoKeeps DEF WakeFailed, WakeDropped
    <2>3. QED
      BY <2>1, <2>2, NothingWaits DEF Kept, Moves
  <1>3. QED
    BY <1>1, <1>2

LEMMA KeptByClient ==
    ASSUME TypeOK, QueueInv, ClientStep
    PROVE  Kept
  <1>1. CASE Input
    BY <1>1, KeptByInput
  <1>2. CASE \E graceful \in BOOLEAN : Close(graceful)
    <2>1. PICK graceful \in BOOLEAN : Close(graceful)
      BY <1>2
    <2>2. UNCHANGED <<actor, sleepQueue, typed, got, lost, dropMsg, call>>
      BY <2>1 DEF Close
    <2>3. CASE CloseAsleep
      BY <2>2, <2>3, KeptByExited DEF CloseAsleep
    <2>4. CASE CloseLater(graceful)
      BY <2>2, <2>4, NothingMoves DEF CloseLater
    <2>5. CASE CloseNow(graceful)
      BY <2>2, <2>5, NothingMoves DEF CloseNow
    <2>6. QED
      BY <2>1, <2>3, <2>4, <2>5 DEF Close
  <1>3. CASE GoToSleep
    <2>1. Still
      BY <1>3 DEF GoToSleep, inputVars, Still
    <2>2. sleepQueue = <<>>
      BY <1>3 DEF GoToSleep, MaySleep, QueueInv, SleepersInput, AtRest
    <2>3. sleepQueue' = <<>>
      BY <2>1, <2>2 DEF Still
    <2>4. QED
      BY <2>1, <2>3, NothingWaits DEF Kept, Moves
  <1>4. CASE Hook
    <2>1. LinkUp \in BOOLEAN
      BY DEF LinkUp
    <2>2. status = "waking" /\ FinishWake(link, LinkUp)
          /\ UNCHANGED <<sleepQueue, typed, dropped>>
      BY <1>4 DEF Hook
    <2>3. QED
      BY <2>1, <2>2, KeptByFinishWake
  <1>5. CASE Expire
    <2>1. SleepDropped /\ sleepQueue' = <<>>
      BY <1>5 DEF Expire, SleepDropped
    <2>2. QED
      BY <2>1, NothingWaits DEF Kept, Moves
  <1>6. CASE RemoveExited
    <2>1. Still
      BY <1>6 DEF RemoveExited, inputVars, Still
    <2>2. SleepersInput' /\ WakeIsOwed'
      BY <1>6
      DEF RemoveExited, QueueInv, SleepersInput, WakeIsOwed, AtRest
    <2>3. QED
      BY <2>1, <2>2 DEF Kept, Moves
  <1>7. CASE WakeCall(FALSE)
    BY <1>7, NothingMoves
    DEF WakeCall, WakeBegins, WakeNotNeeded, actorVars, inputVars
  <1>8. QED
    BY <1>1, <1>2, <1>3, <1>4, <1>5, <1>6, <1>7 DEF ClientStep

LEMMA KeptByReconnect ==
    ASSUME TypeOK, QueueInv, Reconnect
    PROVE  Kept
  <1>1. /\ UNCHANGED <<actor, sleepQueue, typed, got, lost, dropMsg, call>>
        /\ retry
        /\ closing \in BOOLEAN
    BY DEF Reconnect, TypeOK, RecordType
  <1>2. CASE Reconnected
    <2>1. UNCHANGED <<status, hibernating, sleepWake, wake, dropped>> /\ ~retry'
      BY <1>2 DEF Reconnected
    <2>2. sleepQueue # <<>> => hibernating
      BY <1>1 DEF QueueInv, SleepersInput
    <2>3. SleepersInput' /\ WakeIsOwed'
      BY <1>1, <2>1, <2>2 DEF QueueInv, SleepersInput, WakeIsOwed
    <2>4. Still
      BY <1>1, <2>1 DEF Still
    <2>5. QED
      BY <2>3, <2>4 DEF Kept, Moves
  <1>3. CASE HolderGone
    BY <1>1, <1>3, KeptByExited DEF HolderGone
  <1>4. QED
    BY <1>2, <1>3 DEF Reconnect

LEMMA KeptBySpawned ==
    ASSUME TypeOK, QueueInv, NEW g \in Gens, Spawned(g)
    PROVE  Kept
  <1>1. UNCHANGED <<actor, sleepQueue, typed, dropMsg, call>>
    BY DEF Spawned
  <1>2. CASE SpawnedTooLate(g)
    BY <1>1, <1>2, NothingMoves DEF SpawnedTooLate
  <1>3. CASE SpawnedOk(g)
    <2>1. status = "waking" /\ dropped' = dropped
      BY <1>3 DEF SpawnedOk
    <2>2. CASE wake.hooked
      <3>1. FinishWake(NewLink(g), client[g] = "task")
        BY <1>3, <2>2 DEF SpawnedOk
      <3>2. (client[g] = "task") \in BOOLEAN
        OBVIOUS
      <3>3. QED
        BY <1>1, <2>1, <3>1, <3>2, KeptByFinishWake
    <2>3. CASE ~wake.hooked
      <3>1. Still
        BY <1>1, <1>3, <2>3 DEF SpawnedOk, Still
      <3>2. sleepQueue' = <<>>
        BY <1>1, <2>1, WhoKeeps
      <3>3. QED
        BY <3>1, <3>2, NothingWaits DEF Kept, Moves
    <2>4. QED
      BY <2>2, <2>3
  <1>4. CASE SpawnedErr(g) \/ SpawnedBroken(g)
    <2>1. PICK p : WakeFailed(p)
      BY <1>4 DEF SpawnedErr, SpawnedBroken
    <2>2. status = "waking" /\ UNCHANGED <<got, lost>>
      BY <1>4 DEF SpawnedErr, SpawnedBroken
    <2>3. QED
      BY <1>1, <2>1, <2>2, KeptByWakeFailed
  <1>5. QED
    BY <1>2, <1>3, <1>4 DEF Spawned

LEMMA KeptByActor ==
    ASSUME TypeOK, QueueInv, ActorStep
    PROVE  Kept
  <1>a. LinkUp \in BOOLEAN
    BY DEF LinkUp
  <1>b. closing \in BOOLEAN
    BY DEF TypeOK, RecordType
  <1>1. CASE ReadAnswer
    <2>1. Still
      BY <1>1 DEF ReadAnswer, inputVars, Still
    <2>2. sleepQueue # <<>> => actor /\ hibernating
      BY <1>1 DEF ReadAnswer, QueueInv, SleepersInput
    <2>3. SleepersInput' /\ WakeIsOwed'
      BY <1>1, <2>2 DEF ReadAnswer, SleepersInput, WakeIsOwed
    <2>4. QED
      BY <2>1, <2>3 DEF Kept, Moves
  <1>2. CASE ReadOutput
    <2>1. wake'.queue = wake.queue
      BY <1>2, WhoKeeps DEF ReadOutput, Wake
    <2>2. QED
      BY <1>2, <2>1, NothingMoves
      DEF ReadOutput, actorVars, inputVars, wakeCallVars
  <1>3. CASE ReadExit
    <2>1. Exited(closing) /\ UNCHANGED <<actor, sleepQueue, typed, got, lost>>
      BY <1>3 DEF ReadExit
    <2>2. QED
      BY <1>b, <2>1, KeptByExited
  <1>4. CASE ReadEof
    <2>1. Still
      BY <1>4 DEF ReadEof, inputVars, Still
    <2>2. sleepQueue # <<>> => actor /\ hibernating
      BY <1>4 DEF ReadEof, QueueInv, SleepersInput
    <2>3. status' = "hibernated" <=> status = "hibernated"
      BY <1>4 DEF ReadEof, HolderLost
    <2>4. SleepersInput' /\ WakeIsOwed'
      BY <1>4, <2>2, <2>3
      DEF ReadEof, wakeCallVars, SleepersInput, WakeIsOwed, QueueInv
    <2>5. QED
      BY <2>1, <2>4 DEF Kept, Moves
  <1>5. CASE KillFires
    BY <1>5, NothingMoves DEF KillFires, inputVars, wakeCallVars
  <1>6. CASE Reconnect
    BY <1>6, KeptByReconnect
  <1>7. CASE WakeQuiet
    <2>1. status = "waking" /\ FinishWake(link, LinkUp)
          /\ UNCHANGED <<sleepQueue, typed, dropped>>
      BY <1>7 DEF WakeQuiet
    <2>2. QED
      BY <1>a, <2>1, KeptByFinishWake
  <1>8. CASE WakeCap
    <2>1. status = "waking" /\ UNCHANGED <<actor, sleepQueue, typed>>
      BY <1>8 DEF WakeCap
    <2>2. CASE link.gen # 0
      <3>1. FinishWake(link, LinkUp) /\ dropped' = dropped
        BY <1>8, <2>2 DEF WakeCap
      <3>2. QED
        BY <1>a, <2>1, <3>1, KeptByFinishWake
    <2>3. CASE link.gen = 0
      <3>1. WakeFailed(pid) /\ UNCHANGED <<got, lost>>
        BY <1>8, <2>3 DEF WakeCap
      <3>2. QED
        BY <2>1, <3>1, KeptByWakeFailed
    <2>4. QED
      BY <2>2, <2>3
  <1>9. CASE SleepInputDropped \/ ActorEnds
    <2>1. SleepDropped /\ sleepQueue' = <<>>
      BY <1>9 DEF SleepInputDropped, ActorEnds, SleepDropped
    <2>2. QED
      BY <2>1, NothingWaits DEF Kept, Moves
  <1>10. CASE \E g \in Gens : Spawned(g)
    BY <1>10, KeptBySpawned
  <1>11. QED
    BY <1>1, <1>2, <1>3, <1>4, <1>5, <1>6, <1>7, <1>8, <1>9, <1>10
    DEF ActorStep

LEMMA KeptByWake ==
    ASSUME TypeOK, QueueInv, WakeStep
    PROVE  Kept
  <1>1. CASE WakeCall(TRUE)
    BY <1>1, NothingMoves
    DEF WakeCall, WakeBegins, WakeNotNeeded, actorVars, inputVars
  <1>2. CASE LaunchOpens
    BY <1>2, NothingMoves DEF LaunchOpens, actorVars, inputVars
  <1>f. CallFails /\ actor' = actor /\ sleepQueue # <<>> /\ sleepWake # "none"
          => sleepWake' # "none" \/ dropMsg'
    BY WhoKeeps DEF CallFails
  <1>d. CallFails => call' = "idle" /\ (dropMsg => dropMsg')
    BY DEF CallFails
  <1>3. CASE LaunchGone
    <2>1. Still /\ UNCHANGED <<actor, hibernating, link>> /\ CallFails
      BY <1>3 DEF LaunchGone, inputVars, Still
    <2>2. CASE LaunchLostAsleep
      <3>1. status' = "exited" /\ ~retry'
        BY <2>2 DEF LaunchLostAsleep
      <3>2. SleepersInput' /\ WakeIsOwed'
        BY <2>1, <2>2, <3>1
        DEF Still, QueueInv, SleepersInput, WakeIsOwed, AtRest,
            LaunchLostAsleep
      <3>3. QED
        BY <2>1, <3>2 DEF Kept, Moves
    <2>3. CASE LaunchLostElse
      BY <1>f, <1>d, <2>1, <2>3, NothingMoves DEF LaunchLostElse, Still
    <2>4. QED
      BY <1>3, <2>2, <2>3 DEF LaunchGone
  <1>4. CASE WakeGivesUp
    BY <1>4, <1>f, <1>d, NothingMoves DEF WakeGivesUp, actorVars, inputVars
  <1>5. CASE WakeStartsActor
    <2>1. Still
      BY <1>5 DEF WakeStartsActor, inputVars, Still
    <2>2. sleepQueue' = <<>>
      BY <1>5, WhoKeeps DEF WakeStartsActor, MayStartActor
    <2>3. QED
      BY <2>1, <2>2, NothingWaits DEF Kept, Moves
  <1>6. CASE WakeRefused
    BY <1>6, <1>f, <1>d, NothingMoves DEF WakeRefused, actorVars, inputVars
  <1>7. CASE BeginWake
    <2>1. wake.queue = <<>>
      BY <1>7, WhoKeeps DEF BeginWake
    <2>2. wake'.queue = sleepQueue /\ sleepQueue' = <<>>
      BY <1>7 DEF BeginWake, TakeSleepInput, NoWake
    <2>3. Taken
      BY <1>7, <2>1, <2>2 DEF BeginWake, inputVars, Taken
    <2>4. QED
      BY <2>2, <2>3, NothingWaits DEF Kept, Moves
  <1>8. CASE WakeAsks
    <2>1. Still /\ UNCHANGED <<status, actor, hibernating, link, retry>>
          /\ call = "asking" /\ call' = "idle"
      BY <1>8 DEF WakeAsks, CallReturnsOk, CallFails, inputVars, Still
    <2>2. status = "hibernated" /\ sleepQueue # <<>> => sleepWake' = "asked"
      BY <1>8, <2>1
      DEF WakeAsks, CallReturnsOk, CallFails, QueueInv, WakeIsOwed
    <2>3. SleepersInput' /\ WakeIsOwed'
      BY <2>1, <2>2 DEF Still, QueueInv, SleepersInput, WakeIsOwed
    <2>4. QED
      BY <2>1, <2>3 DEF Kept, Moves
  <1>9. QED
    BY <1>1, <1>2, <1>3, <1>4, <1>5, <1>6, <1>7, <1>8 DEF WakeStep

LEMMA KeptByHolder ==
    ASSUME TypeOK, QueueInv, NEW g \in Gens, HolderStep(g)
    PROVE  Kept
  <1>1. CASE SpawnUp(g) \/ SpawnFails(g) \/ HoldEnds(g) \/ SpawnedToNobody(g)
    BY <1>1, NothingMoves
    DEF SpawnUp, SpawnFails, HoldEnds, SpawnedToNobody, actorVars,
        inputVars, wakeCallVars
  <1>2. CASE ChildExits(g)
    <2>1. link'.open = link.open
      BY <1>2 DEF ChildExits, TypeOK, Link
    <2>2. QED
      BY <1>2, <2>1, NothingMoves DEF ChildExits, inputVars, wakeCallVars
  <1>3. CASE HoldAttach(g)
    <2>1. link'.open = link.open
      BY <1>3 DEF HoldAttach, TypeOK, Link
    <2>2. QED
      BY <1>3, <2>1, NothingMoves DEF HoldAttach, inputVars, wakeCallVars
  <1>4. QED
    BY <1>1, <1>2, <1>3 DEF HolderStep

LEMMA QueuesNext ==
    ASSUME TypeOK, QueueInv, [Next]_vars
    PROVE  QueueInv'
  <1>1. CASE UNCHANGED vars
    BY <1>1, KeptByRest, MovesKeep DEF Kept, QueueInv
  <1>2. CASE Fault
    <2>1. Kept
      BY <1>2, NothingMoves DEF Fault, actorVars, inputVars
    <2>2. QED
      BY <2>1, MovesKeep DEF Kept, QueueInv
  <1>3. QED
    BY <1>1, <1>2, KeptByClient, KeptByActor, KeptByWake, KeptByHolder,
       MovesKeep
    DEF Next, Kept, QueueInv

LEMMA QueuesInit == Init => QueueInv
  <1>1. SUFFICES ASSUME Init PROVE QueueInv
    OBVIOUS
  <1>2. /\ got = <<>> /\ sleepQueue = <<>> /\ wake.queue = <<>> /\ typed = 0
        /\ lost = {} /\ dropped = {} /\ status = "running"
    BY <1>1 DEF Init, NoWake
  <1>3. 1..0 = {}
    OBVIOUS
  <1>4. QED
    BY <1>2, <1>3, ElemsOfNone
    DEF QueueInv, InputInv, QueuesAscend, PiecesArePlaced, OneQueue, Queued,
        Below, SleepersInput, WakeIsOwed

LEMMA QueueInvariant == Spec => [](TypeOK /\ QueueInv)
  <1>1. Init => QueueInv
    BY QueuesInit
  <1>2. TypeOK /\ QueueInv /\ [Next]_vars => QueueInv'
    BY QueuesNext
  <1>3. QED
    BY <1>1, <1>2, TypeCorrect, PTL DEF Spec

-----------------------------------------------------------------------------
(* Kept once, and in order.                                                *)

\* Two sets that share nothing count together what they count apart.
LEMMA CountApart ==
    ASSUME NEW S, NEW T, IsFiniteSet(S), IsFiniteSet(T), S \cap T = {}
    PROVE  /\ IsFiniteSet(S \cup T)
           /\ Cardinality(S \cup T) = Cardinality(S) + Cardinality(T)
  <1>1. Cardinality(S) \in Nat /\ Cardinality(T) \in Nat
    BY FS_CardinalityType
  <1>2. Cardinality(S \cap T) = 0
    BY FS_EmptySet
  <1>3. IsFiniteSet(S \cup T)
        /\ Cardinality(S \cup T)
             = Cardinality(S) + Cardinality(T) - Cardinality(S \cap T)
    BY FS_Union
  <1>4. QED
    BY <1>1, <1>2, <1>3

\* As many pieces as were typed are in the queues, lost or dropped.
LEMMA PiecesCount ==
    ASSUME TypeOK, QueueInv
    PROVE  Len(got) + Len(sleepQueue) + Len(wake.queue) + Cardinality(lost)
             + Cardinality(dropped) = typed
  <1> DEFINE G == Elems(got)
             S == Elems(sleepQueue)
             W == Elems(wake.queue)
  <1>1. /\ typed \in Nat /\ got \in Seq(Nat) /\ sleepQueue \in Seq(Nat)
        /\ wake.queue \in Seq(Nat)
    BY InputTypes
  <1>2. /\ Ascending(got) /\ Ascending(sleepQueue) /\ Ascending(wake.queue)
        /\ 1..typed = (G \cup S \cup W) \cup lost \cup dropped
        /\ lost \cap dropped = {}
        /\ (lost \cup dropped) \cap (G \cup S \cup W) = {}
    BY DEF QueueInv, InputInv, QueuesAscend, PiecesArePlaced, Queued
  <1>3. G \cap S = {} /\ G \cap W = {} /\ S \cap W = {}
    BY QueuesApart DEF QueueInv
  <1>4. /\ IsFiniteSet(G) /\ Cardinality(G) = Len(got)
        /\ IsFiniteSet(S) /\ Cardinality(S) = Len(sleepQueue)
        /\ IsFiniteSet(W) /\ Cardinality(W) = Len(wake.queue)
    BY <1>1, <1>2, AscendingCounts
  <1>5. IsFiniteSet(1..typed) /\ Cardinality(1..typed) = typed
    BY <1>1, FS_Interval
  <1> HIDE DEF G, S, W
  <1>6. IsFiniteSet(lost) /\ IsFiniteSet(dropped)
    BY <1>2, <1>5, FS_Subset
  <1>7. /\ IsFiniteSet(G \cup S)
        /\ Cardinality(G \cup S) = Cardinality(G) + Cardinality(S)
    BY <1>3, <1>4, CountApart
  <1>8. /\ IsFiniteSet((G \cup S) \cup W)
        /\ Cardinality((G \cup S) \cup W)
             = Cardinality(G \cup S) + Cardinality(W)
    <2>1. (G \cup S) \cap W = {}
      BY <1>3
    <2>2. QED
      BY <1>4, <1>7, <2>1, CountApart
  <1>9. /\ IsFiniteSet(lost \cup dropped)
        /\ Cardinality(lost \cup dropped)
             = Cardinality(lost) + Cardinality(dropped)
    BY <1>2, <1>6, CountApart
  <1>10. Cardinality(((G \cup S) \cup W) \cup (lost \cup dropped))
           = Cardinality((G \cup S) \cup W) + Cardinality(lost \cup dropped)
    <2>1. ((G \cup S) \cup W) \cap (lost \cup dropped) = {}
      BY <1>2
    <2>2. QED
      BY <1>8, <1>9, <2>1, CountApart
  <1>11. 1..typed = ((G \cup S) \cup W) \cup (lost \cup dropped)
    BY <1>2
  <1>12. Cardinality(lost) \in Nat /\ Cardinality(dropped) \in Nat
    BY <1>6, FS_CardinalityType
  <1>13. /\ Len(got) \in Nat /\ Len(sleepQueue) \in Nat
         /\ Len(wake.queue) \in Nat
    BY <1>1
  <1>14. Cardinality((G \cup S) \cup W)
           = Len(got) + Len(sleepQueue) + Len(wake.queue)
    BY <1>4, <1>7, <1>8
  <1>15. typed = Len(got) + Len(sleepQueue) + Len(wake.queue)
                   + (Cardinality(lost) + Cardinality(dropped))
    BY <1>5, <1>9, <1>10, <1>11, <1>14, Zenon
  <1>16. PICK a \in Nat, b \in Nat, c \in Nat, d \in Nat, e \in Nat :
            /\ a = Len(got) /\ b = Len(sleepQueue) /\ c = Len(wake.queue)
            /\ d = Cardinality(lost) /\ e = Cardinality(dropped)
    BY <1>12, <1>13
  <1>17. typed = a + b + c + (d + e)
    BY <1>15, <1>16, Zenon
  <1>18. a + b + c + (d + e) = a + b + c + d + e
    OBVIOUS
  <1>19. QED
    BY <1>16, <1>17, <1>18, Zenon

\* Input that was accepted is in one place, over any number of sleeps, wakes,
\* dropped connections and commands, and none is forgotten in a session that
\* sleeps (input(), begin_wake(), finish_wake(), Cmd::SleepInputDropped).
THEOREM InputKeptOnce == Spec => []KeptOnce
  <1>1. TypeOK /\ QueueInv => KeptOnce
    <2>1. SUFFICES ASSUME TypeOK, QueueInv PROVE KeptOnce
      OBVIOUS
    <2>2. Len(got) + Len(sleepQueue) + Len(wake.queue) + Cardinality(lost)
            + Cardinality(dropped) = typed
      BY <2>1, PiecesCount
    <2>3. 1..typed = Elems(got) \cup Elems(sleepQueue) \cup Elems(wake.queue)
                       \cup lost \cup dropped
      BY <2>1 DEF QueueInv, InputInv, PiecesArePlaced, Queued
    <2>4. status = "hibernated" /\ sleepQueue # <<>>
            => sleepWake # "none" \/ call # "idle" \/ dropMsg
      BY <2>1 DEF QueueInv, WakeIsOwed
    <2>5. QED
      BY <2>2, <2>3, <2>4, Zenon DEF KeptOnce
  <1>2. QED
    BY <1>1, QueueInvariant, PTL

\* What the agents receive is in the order it was typed, over sleeps and wakes
\* (finish_wake(): "goes in, in order").
THEOREM InputInOrder == Spec => []InOrder
  <1>1. TypeOK /\ QueueInv => InOrder
    BY DEF QueueInv, InputInv, QueuesAscend, Ascending, InOrder
  <1>2. QED
    BY <1>1, QueueInvariant, PTL

=============================================================================
