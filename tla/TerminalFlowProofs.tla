------------------------- MODULE TerminalFlowProofs -------------------------
(***************************************************************************)
(* Proofs about TerminalFlow, for any credit, limits, output and number of *)
(* calls: type correctness, that the screen never tears, that the credit   *)
(* adds up, and that the exit comes after the output before it.            *)
(***************************************************************************)
EXTENDS TerminalFlow, TLAPS

\* A call whose entry may still get output.
Live(c) == at[c] \in {"asking", "open"} /\ ~entry[c].closed

\* An entry that has nothing to send, and nothing of its own in flight.
Fresh(e) ==
    /\ e.from = e.to /\ e.inFlight = 0
    /\ ~e.scheduled /\ ~e.due /\ ~e.resyncing /\ ~e.resyncDue

\* The queue of an entry, when the session has written p bytes.
QueueOK(e, p) ==
    /\ e.from <= e.to /\ e.to <= p
    /\ e.resyncing => e.from = e.to

-----------------------------------------------------------------------------
(* What holds whatever calls meet. *)

Queues == \A c \in Calls : QueueOK(entry[c], out)
Idle ==
    \A c \in Calls : /\ at[c] # "open" \/ entry[c].closed => Fresh(entry[c])
                     /\ at[c] = "detaching" => ~entry[c].closed
PanelLive == panel # None => Live(panel)
StreamOf == \A c \in Calls : at[c] = "asking" \/ Live(c) => stream = c
Current ==
    \A c \in Calls : at[c] = "open" /\ ~entry[c].closed /\ ~entry[c].resyncing
                        => entry[c].to = out
ExitPast == exitAt <= out

Base ==
    /\ TypeOK /\ Queues /\ Idle /\ PanelLive /\ StreamOf /\ Current /\ ExitPast

-----------------------------------------------------------------------------
(* What holds as long as no two calls have met. *)

OneUnderWay == \A c, d \in Calls : UnderWay(c) /\ UnderWay(d) => c = d
LiveIsPanel == \A c \in Calls : Live(c) => panel = c
DetachesAlone == \A c \in Calls : at[c] = "detaching" => panel = None
Owed ==
    mounted => \A c \in Calls : at[c] = "detaching" \/ Live(c) =>
                    entry[c].inFlight + entry[c].stale = owes + lost
ShownIsFrom ==
    mounted => \A c \in Calls : at[c] = "open" /\ Live(c) /\ ~entry[c].resyncing =>
                    shown = entry[c].from

Alone ==
    /\ OneUnderWay /\ LiveIsPanel /\ DetachesAlone
    /\ Owed /\ ShownIsFrom /\ shown # Torn

FlowInv == Base /\ (~overlapped => Alone)

-----------------------------------------------------------------------------
(* Lemmas on entries. *)

LEMMA NoneIsNoCall == \A c \in Calls : c # None
BY FlowAssumption DEF Calls, None

LEMMA NewEntryFacts ==
    ASSUME NEW owed \in Nat, NEW exit \in BOOLEAN, NEW carry \in BOOLEAN,
           NEW p \in Nat
    PROVE  LET e == NewEntry(owed, exit, carry) IN
           /\ e \in Entry /\ Fresh(e) /\ QueueOK(e, p)
           /\ ~e.closed /\ e.inFlight + e.stale = owed
BY DEF NewEntry, Entry, Fresh, QueueOK

LEMMA ClosedFacts ==
    ASSUME NEW e \in Entry, NEW p \in Nat
    PROVE  /\ Closed(e) \in Entry /\ Fresh(Closed(e)) /\ QueueOK(Closed(e), p)
           /\ Closed(e).closed
<1> DEFINE e0 == NewEntry(0, FALSE, e.carry)
<1>1. e.carry \in BOOLEAN
  BY DEF Entry
<1>2. e0 \in Entry /\ Fresh(e0) /\ QueueOK(e0, p)
  BY <1>1, NewEntryFacts
<1> HIDE DEF e0
<1>3. LET e1 == [e0 EXCEPT !.closed = TRUE] IN
      /\ e1 \in Entry /\ e1.closed /\ e1.from = e0.from /\ e1.to = e0.to
      /\ e1.inFlight = e0.inFlight /\ e1.scheduled = e0.scheduled
      /\ e1.due = e0.due /\ e1.resyncing = e0.resyncing
      /\ e1.resyncDue = e0.resyncDue
  BY <1>2 DEF Entry
<1>4. Closed(e) = [e0 EXCEPT !.closed = TRUE]
  BY DEF Closed, e0
<1>5. QED
  BY <1>2, <1>3, <1>4 DEF Fresh, QueueOK

\* The entry e2 is e after n bytes of its queue were sent and k were acked.
SentFrom(e, e2, n, k) ==
    /\ e2 \in Entry /\ n \in Nat
    /\ e2.from = e.from + n /\ e2.to = e.to /\ e2.from <= e2.to
    /\ e2.closed = e.closed /\ e2.resyncing = e.resyncing
    /\ k <= e.inFlight + e.stale
            => e2.inFlight + e2.stale = (e.inFlight + e.stale) - k + n
    /\ Fresh(e) => Fresh(e2)

\* What a flush sends is in the queue; the exit goes out behind the last byte.
LEMMA SendFacts ==
    ASSUME NEW e \in Entry, e.from <= e.to
    PROVE  LET n == Sends(e) e2 == Flushed(e, n) IN
           /\ SentFrom(e, Settled(e2), n, 0)
           /\ Exits(e2) \in BOOLEAN
           /\ Exits(e2) => e.from + n = e.to /\ ~e.resyncing
           /\ n <= e.to - e.from
<1> DEFINE n == Sends(e) e2 == Flushed(e, n)
<1>1. n \in Nat /\ n <= e.to - e.from /\ (e.from = e.to => n = 0)
  BY FlowAssumption DEF Sends, Least, Queued, OpenCredit, Minus, Entry
<1>2. /\ e2 \in Entry /\ e2.from = e.from + n /\ e2.to = e.to
      /\ e2.inFlight = e.inFlight + n /\ e2.stale = e.stale
      /\ e2.closed = e.closed /\ e2.resyncing = e.resyncing
      /\ e2.scheduled = e.scheduled /\ e2.due = e.due
      /\ e2.resyncDue = e.resyncDue
  <2> DEFINE f == e.from + n
             i == e.inFlight + n
  <2> HIDE DEF n
  <2>1. f \in Nat /\ i \in Nat
    BY <1>1 DEF Entry
  <2>2. e2 = [e EXCEPT !.from = f, !.inFlight = i]
    BY DEF Flushed
  <2> HIDE DEF e2, f, i
  <2>3. /\ e2 \in Entry /\ e2.from = f /\ e2.to = e.to
        /\ e2.inFlight = i /\ e2.stale = e.stale
        /\ e2.closed = e.closed /\ e2.resyncing = e.resyncing
        /\ e2.scheduled = e.scheduled /\ e2.due = e.due
        /\ e2.resyncDue = e.resyncDue
    BY <2>1, <2>2 DEF Entry
  <2>4. QED
    BY <2>3 DEF f, i
<1> HIDE DEF n, e2
<1>3. Exits(e2) => e.from + n = e.to /\ ~e.resyncing
  BY <1>1, <1>2 DEF Exits, Queued, Entry
<1>4. /\ Settled(e2) \in Entry /\ Settled(e2).from = e2.from
      /\ Settled(e2).to = e2.to /\ Settled(e2).inFlight = e2.inFlight
      /\ Settled(e2).stale = e2.stale /\ Settled(e2).closed = e2.closed
      /\ Settled(e2).resyncing = e2.resyncing
      /\ Settled(e2).scheduled = e2.scheduled /\ Settled(e2).due = e2.due
      /\ Settled(e2).resyncDue = e2.resyncDue
  BY <1>2 DEF Settled, Entry, Exits
<1>5. SentFrom(e, Settled(e2), n, 0)
  BY <1>1, <1>2, <1>4 DEF SentFrom, Fresh, Entry
<1>6. Exits(e2) \in BOOLEAN
  BY DEF Exits
<1>7. QED
  BY <1>1, <1>3, <1>5, <1>6 DEF n, e2

LEMMA AckFacts ==
    ASSUME NEW e \in Entry, e.from <= e.to, NEW k \in Nat
    PROVE  SentFrom(e, Acked(e, k), 0, k)
<1> DEFINE old == Least(e.stale, k)
           e1 == [e EXCEPT !.stale = @ - old, !.inFlight = Minus(@, k - old)]
<1>1. old \in Nat /\ old <= k /\ old <= e.stale /\ (old = k \/ old = e.stale)
  BY DEF Least, Entry
<1> HIDE DEF old
<1>2. /\ Minus(e.inFlight, k - old) \in Nat /\ Minus(e.inFlight, k - old) <= e.inFlight
      /\ k <= e.inFlight + e.stale
            => Minus(e.inFlight, k - old) + (e.stale - old) = (e.inFlight + e.stale) - k
  BY <1>1 DEF Minus, Entry
<1>3. /\ e1 \in Entry /\ e1.from = e.from /\ e1.to = e.to
      /\ e1.inFlight = Minus(e.inFlight, k - old) /\ e1.stale = e.stale - old
      /\ e1.closed = e.closed /\ e1.resyncing = e.resyncing
      /\ e1.scheduled = e.scheduled /\ e1.due = e.due /\ e1.resyncDue = e.resyncDue
  <2> DEFINE s == e.stale - old
             i == Minus(e.inFlight, k - old)
  <2>1. s \in Nat /\ i \in Nat
    BY <1>1, <1>2 DEF Entry
  <2>2. e1 = [e EXCEPT !.stale = s, !.inFlight = i]
    OBVIOUS
  <2> HIDE DEF e1, s, i
  <2>3. /\ e1 \in Entry /\ e1.from = e.from /\ e1.to = e.to
        /\ e1.inFlight = i /\ e1.stale = s
        /\ e1.closed = e.closed /\ e1.resyncing = e.resyncing
        /\ e1.scheduled = e.scheduled /\ e1.due = e.due
        /\ e1.resyncDue = e.resyncDue
    BY <2>1, <2>2 DEF Entry
  <2>4. QED
    BY <2>3 DEF s, i
<1> HIDE DEF e1
<1>4. CASE e1.resyncDue /\ e1.stale = 0
  <2>1. Acked(e, k) = [e1 EXCEPT !.resyncDue = FALSE, !.due = TRUE]
    BY <1>4 DEF Acked, e1, old
  <2> DEFINE e2 == [e1 EXCEPT !.resyncDue = FALSE, !.due = TRUE]
  <2>2. /\ e2 \in Entry /\ e2.from = e1.from /\ e2.to = e1.to
        /\ e2.inFlight = e1.inFlight /\ e2.stale = e1.stale
        /\ e2.closed = e1.closed /\ e2.resyncing = e1.resyncing
    BY <1>3 DEF Entry
  <2>3. ~Fresh(e)
    BY <1>3, <1>4 DEF Fresh
  <2> HIDE DEF e2
  <2>4. SentFrom(e, e2, 0, k)
    BY <2>2, <2>3, <1>2, <1>3 DEF SentFrom, Entry
  <2>5. QED
    BY <2>1, <2>4 DEF e2
<1>5. CASE ~(e1.resyncDue /\ e1.stale = 0)
  <2>1. Acked(e, k) = e1
    BY <1>5 DEF Acked, e1, old
  <2>2. QED
    BY <2>1, <1>2, <1>3 DEF SentFrom, Entry, Fresh
<1>6. QED
  BY <1>4, <1>5

\* Two steps of one entry in a row.
LEMMA SentTwice ==
    ASSUME NEW e \in Entry, NEW e1, NEW e2, NEW k \in Nat, NEW n,
           SentFrom(e, e1, 0, k), SentFrom(e1, e2, n, 0)
    PROVE  SentFrom(e, e2, n, k)
BY DEF SentFrom, Entry

LEMMA SnapFacts ==
    ASSUME NEW e \in Entry, NEW z \in Nat, out \in Nat
    PROVE  LET e1 == Snapped(e, z) e2 == Settled(e1) IN
           /\ e2 \in Entry /\ e2.from = out /\ e2.to = out
           /\ e2.closed = e.closed /\ ~e2.resyncing
           /\ e2.inFlight + e2.stale = e.inFlight + e.stale + z
           /\ Exits(e1) \in BOOLEAN
<1> DEFINE e1 == Snapped(e, z)
<1>1. /\ e1 \in Entry /\ e1.from = out /\ e1.to = out /\ ~e1.resyncing
      /\ e1.closed = e.closed /\ e1.inFlight = z /\ e1.stale = e.stale + e.inFlight
  <2> DEFINE s == e.stale + e.inFlight
  <2>1. s \in Nat
    BY DEF Entry
  <2>2. e1 = [e EXCEPT !.from = out, !.to = out, !.resyncing = FALSE,
                       !.resyncDue = FALSE, !.stale = s, !.inFlight = z]
    BY DEF Snapped
  <2> HIDE DEF e1, s
  <2>3. /\ e1 \in Entry /\ e1.from = out /\ e1.to = out /\ ~e1.resyncing
        /\ e1.closed = e.closed /\ e1.inFlight = z /\ e1.stale = s
    BY <2>1, <2>2 DEF Entry
  <2>4. QED
    BY <2>3 DEF s
<1> HIDE DEF e1
<1>2. /\ Settled(e1) \in Entry /\ Settled(e1).from = e1.from
      /\ Settled(e1).to = e1.to /\ Settled(e1).inFlight = e1.inFlight
      /\ Settled(e1).stale = e1.stale /\ Settled(e1).closed = e1.closed
      /\ Settled(e1).resyncing = e1.resyncing
  BY <1>1 DEF Settled, Entry, Exits
<1>3. Exits(e1) \in BOOLEAN
  BY DEF Exits
<1>4. QED
  BY <1>1, <1>2, <1>3 DEF e1, Entry

LEMMA ReceiveFacts ==
    ASSUME NEW e \in Entry, NEW p \in Nat, QueueOK(e, out), out \in Nat, out <= p
    PROVE  LET e2 == Received(e, p) IN
           /\ e2 \in Entry /\ QueueOK(e2, p) /\ e2.closed = e.closed
           /\ ~e2.resyncing => ~e.resyncing /\ e2.to = p /\ e2.from = e.from
           /\ e2.inFlight = e.inFlight /\ e2.stale = e.stale
<1> DEFINE e1 == [e EXCEPT !.to = p, !.scheduled = TRUE]
<1>1. /\ e1 \in Entry /\ e1.from = e.from /\ e1.to = p /\ e1.closed = e.closed
      /\ e1.inFlight = e.inFlight /\ e1.stale = e.stale
      /\ e1.resyncing = e.resyncing
  BY DEF Entry
<1> HIDE DEF e1
<1>2. e.from <= e.to /\ e.to <= p /\ e.from <= p
  BY DEF QueueOK, Entry
<1>3. CASE e.resyncing
  <2>1. Received(e, p) = e
    BY <1>3 DEF Received
  <2>2. QED
    BY <2>1, <1>2, <1>3 DEF QueueOK, Entry
<1>4. CASE ~e.resyncing /\ Received(e, p) = e1
  BY <1>1, <1>2, <1>4 DEF QueueOK
<1>5. CASE ~e.resyncing /\ Received(e, p) = Overflowed(e1)
  <2>1. /\ Overflowed(e1) \in Entry /\ Overflowed(e1).from = p
        /\ Overflowed(e1).to = p /\ Overflowed(e1).resyncing
        /\ Overflowed(e1).closed = e1.closed
        /\ Overflowed(e1).inFlight = e1.inFlight /\ Overflowed(e1).stale = e1.stale
    <3> DEFINE wait == e1.stale > 0
               due == e1.due \/ e1.stale = 0
    <3>1. wait \in BOOLEAN /\ due \in BOOLEAN
      BY DEF Entry
    <3>2. Overflowed(e1) = [[e1 EXCEPT !.from = e1.to] EXCEPT
                !.resyncing = TRUE, !.resyncDue = wait, !.due = due]
      BY DEF Overflowed, Dropped
    <3> HIDE DEF wait, due
    <3>3. QED
      BY <3>1, <3>2, <1>1 DEF Entry
  <2>2. QED
    BY <2>1, <1>1, <1>5 DEF QueueOK
<1>6. Received(e, p) \in {e, e1, Overflowed(e1)} /\ (~e.resyncing => Received(e, p) \in {e1, Overflowed(e1)})
  BY DEF Received, e1
<1>7. QED
  BY <1>3, <1>4, <1>5, <1>6

-----------------------------------------------------------------------------
(* Steps.  Most actions change one entry in one of a few ways. *)

\* The step half of ExitComesLast.
ExitRule ==
    (~told /\ told' /\ hostUp' /\ InPanel /\ at[panel] = "open" /\ panel' = panel)
        => shown' >= exitAt'

Observed == UNCHANGED <<out, hostUp, resyncs, panel, stream, overlapped, mounted, lost>>

\* A live entry sends n bytes, after an ack of k.
LEMMA SendStep ==
    ASSUME FlowInv, NEW c \in Calls, Live(c), NEW e2, NEW n, NEW k \in Nat,
           NEW end \in BOOLEAN, k <= owes,
           SentFrom(entry[c], e2, n, k), entry' = [entry EXCEPT ![c] = e2],
           Gets(entry[c].from, n, k, end),
           end => entry[c].from + n = entry[c].to /\ ~entry[c].resyncing,
           session' \in {"runs", "exited"}, exitAt' \in {exitAt, out},
           Observed, UNCHANGED at
    PROVE  FlowInv' /\ ExitRule
<1>1. /\ entry \in [Calls -> Entry] /\ entry[c] \in Entry /\ out \in Nat /\ out <= MaxOut
      /\ owes \in Nat /\ lost \in Nat /\ exitAt \in Nat
  BY FlowAssumption DEF FlowInv, Base, TypeOK, Positions
<1>2. /\ QueueOK(entry[c], out) /\ e2 \in Entry /\ n \in Nat
      /\ e2.from = entry[c].from + n /\ e2.to = entry[c].to /\ e2.from <= e2.to
      /\ e2.closed = entry[c].closed /\ e2.resyncing = entry[c].resyncing
  BY DEF FlowInv, Base, Queues, SentFrom
<1>3. \A d \in Calls : entry'[d] = IF d = c THEN e2 ELSE entry[d]
  BY <1>1
<1>4. \A d \in Calls : /\ entry'[d].closed = entry[d].closed
                        /\ entry'[d].resyncing = entry[d].resyncing
                        /\ entry'[d].to = entry[d].to
                        /\ Live(d)' <=> Live(d)
  BY <1>2, <1>3 DEF Live
<1>5. \/ shown' = shown
      \/ shown' = entry[c].from + n
      \/ shown' = Torn
  BY DEF Gets, Shows
<1>6. Base'
  <2>1. TypeOK'
    <3>1. entry' \in [Calls -> Entry]
      BY <1>1, <1>2
    <3>2. shown' \in Positions \union {Blank, Torn}
      <4>1. entry[c].from + n \in Positions
        BY <1>1, <1>2, FlowAssumption DEF QueueOK, Positions, Entry
      <4>2. shown \in Positions \union {Blank, Torn}
        BY DEF FlowInv, Base, TypeOK
      <4>3. QED
        BY <1>5, <4>1, <4>2
    <3>3. owes' \in Nat /\ told' \in BOOLEAN
      BY <1>1, <1>2 DEF Gets, FlowInv, Base, TypeOK
    <3>4. exitAt' \in Positions
      BY DEF FlowInv, Base, TypeOK
    <3>5. QED
      BY <3>1, <3>2, <3>3, <3>4 DEF FlowInv, Base, TypeOK, Observed, Positions, Calls
  <2>2. Queues'
    BY <1>1, <1>2, <1>3 DEF FlowInv, Base, Queues, QueueOK, Observed, Entry
  <2>3. Idle'
    BY <1>2, <1>3 DEF FlowInv, Base, Idle, SentFrom
  <2>4. PanelLive' /\ StreamOf'
    BY <1>4 DEF FlowInv, Base, PanelLive, StreamOf, Observed, Live, TypeOK
  <2>5. Current'
    BY <1>4 DEF FlowInv, Base, Current, Observed
  <2>6. ExitPast'
    BY <1>1 DEF FlowInv, Base, ExitPast, Observed
  <2>7. QED
    BY <2>1, <2>2, <2>3, <2>4, <2>5, <2>6 DEF Base
<1>7. ASSUME ~overlapped
      PROVE  /\ panel = c /\ Alone
             /\ \A d \in Calls : at[d] # "detaching"
             /\ \A d \in Calls : Live(d) => d = c
             /\ mounted => entry[c].inFlight + entry[c].stale = owes + lost
  BY <1>7, NoneIsNoCall DEF FlowInv, Alone, LiveIsPanel, DetachesAlone, Owed
<1>8. ASSUME ~overlapped, mounted, n # 0 \/ (at[c] = "open" /\ ~entry[c].resyncing)
      PROVE  shown = entry[c].from /\ shown' = entry[c].from + n
  <2>1. at[c] = "open" /\ ~entry[c].resyncing
    BY <1>1, <1>2, <1>8 DEF FlowInv, Base, Idle, Fresh, QueueOK, Entry
  <2>2. shown = entry[c].from
    BY <1>7, <1>8, <2>1 DEF Alone, ShownIsFrom
  <2>3. QED
    BY <1>1, <1>2, <1>8, <2>2 DEF Gets, Shows, Entry
<1>9. ASSUME ~overlapped
      PROVE  Alone'
  <2>1. OneUnderWay' /\ LiveIsPanel' /\ DetachesAlone'
    BY <1>4, <1>7, <1>9 DEF Alone, OneUnderWay, UnderWay, LiveIsPanel, DetachesAlone, Observed
  <2>2. Owed'
    <3>1. CASE mounted
      <4>1. k <= entry[c].inFlight + entry[c].stale
        BY <1>1, <1>7, <1>9, <3>1
      <4>2. e2.inFlight + e2.stale = (entry[c].inFlight + entry[c].stale) - k + n
        BY <4>1 DEF SentFrom
      <4>3. owes' = owes - k + n
        BY <3>1 DEF Gets
      <4>4. e2.inFlight + e2.stale = owes' + lost
        BY <1>1, <1>2, <1>7, <1>9, <3>1, <4>2, <4>3
      <4>5. QED
        BY <1>3, <1>4, <1>7, <1>9, <4>4 DEF Owed, Observed
    <3>2. CASE ~mounted
      BY <3>2 DEF Owed, Observed
    <3>3. QED
      BY <3>1, <3>2
  <2>3. ShownIsFrom'
    BY <1>2, <1>3, <1>4, <1>7, <1>8, <1>9 DEF ShownIsFrom, Observed
  <2>4. shown' # Torn
    <3>1. CASE mounted /\ n # 0
      BY <1>1, <1>2, <1>8, <1>9, <3>1 DEF Torn, Entry
    <3>2. CASE ~(mounted /\ n # 0)
      BY <1>7, <1>9, <3>2 DEF Gets, Shows, Alone
    <3>3. QED
      BY <3>1, <3>2
  <2>5. QED
    BY <2>1, <2>2, <2>3, <2>4 DEF Alone
<1>10. ExitRule
  <2> SUFFICES ASSUME ~told, told', InPanel, at[panel] = "open"
               PROVE  shown' >= exitAt'
    BY DEF ExitRule
  <2>1. ~overlapped /\ mounted /\ panel = c
    BY <1>7 DEF InPanel
  <2>2. end
    BY DEF Gets
  <2>3. entry[c].to = out /\ entry[c].from + n = out
    BY <2>1, <2>2 DEF FlowInv, Base, Current, Live
  <2>4. shown' = out
    BY <1>8, <2>1, <2>2, <2>3
  <2>5. QED
    BY <1>1, <2>4 DEF FlowInv, Base, ExitPast
<1>11. QED
  BY <1>6, <1>9, <1>10 DEF FlowInv, Observed

\* A snapshot of size z arrives for call c, which had its answer before or gets
\* it with the snapshot.
LEMMA SnapStep ==
    ASSUME FlowInv, NEW c \in Calls, Live(c), NEW z \in Nat,
           TakesSnapshot(c, z, "open"),
           UNCHANGED <<session, exitAt, out, hostUp, panel, stream, overlapped, mounted, lost>>,
           resyncs' \in 0..MaxResyncs
    PROVE  FlowInv' /\ ExitRule
<1> DEFINE e2 == Settled(Snapped(entry[c], z))
<1>1. /\ entry \in [Calls -> Entry] /\ entry[c] \in Entry /\ out \in Nat /\ out <= MaxOut
      /\ owes \in Nat /\ lost \in Nat /\ exitAt \in Nat
      /\ at \in [Calls -> {"new", "detaching", "asking", "open", "over"}]
  BY FlowAssumption DEF FlowInv, Base, TypeOK, Positions
<1>2. /\ e2 \in Entry /\ e2.from = out /\ e2.to = out
      /\ e2.closed = entry[c].closed /\ ~e2.resyncing
      /\ e2.inFlight + e2.stale = entry[c].inFlight + entry[c].stale + z
      /\ Exits(Snapped(entry[c], z)) \in BOOLEAN
  BY <1>1, SnapFacts
<1>3. /\ entry' = [entry EXCEPT ![c] = e2] /\ at' = [at EXCEPT ![c] = "open"]
      /\ owes' = IF mounted THEN owes + z ELSE 0
      /\ shown' = IF mounted THEN out ELSE shown
      /\ told' \in BOOLEAN
  BY <1>2 DEF TakesSnapshot, FlowInv, Base, TypeOK
<1> HIDE DEF e2
<1>4. /\ \A d \in Calls : entry'[d] = (IF d = c THEN e2 ELSE entry[d])
      /\ \A d \in Calls : at'[d] = (IF d = c THEN "open" ELSE at[d])
  BY <1>1, <1>3
<1>5. \A d \in Calls : Live(d)' <=> Live(d)
  BY <1>2, <1>4 DEF Live
<1>6. Base'
  <2>1. TypeOK'
    <3>1. entry' \in [Calls -> Entry] /\ at' \in [Calls -> {"new", "detaching", "asking", "open", "over"}]
      BY <1>1, <1>2, <1>3
    <3>2. shown' \in Positions \union {Blank, Torn}
      BY <1>3 DEF FlowInv, Base, TypeOK
    <3>3. owes' \in Nat
      BY <1>1, <1>3
    <3>4. QED
      BY <1>3, <3>1, <3>2, <3>3 DEF FlowInv, Base, TypeOK, Positions, Calls
  <2>2. Queues'
    BY <1>1, <1>2, <1>4 DEF FlowInv, Base, Queues, QueueOK, Entry
  <2>3. Idle'
    BY <1>2, <1>4 DEF FlowInv, Base, Idle, Live
  <2>4. PanelLive' /\ StreamOf'
    BY <1>4, <1>5 DEF FlowInv, Base, PanelLive, StreamOf, TypeOK, Live
  <2>5. Current'
    BY <1>2, <1>4 DEF FlowInv, Base, Current
  <2>6. ExitPast'
    BY DEF FlowInv, Base, ExitPast
  <2>7. QED
    BY <2>1, <2>2, <2>3, <2>4, <2>5, <2>6 DEF Base
<1>7. ASSUME ~overlapped
      PROVE  Alone'
  <2>1. panel = c /\ Alone /\ \A d \in Calls : at[d] # "detaching"
    BY <1>7, NoneIsNoCall DEF FlowInv, Alone, LiveIsPanel, DetachesAlone
  <2>2. OneUnderWay' /\ LiveIsPanel' /\ DetachesAlone'
    BY <1>4, <1>5, <2>1 DEF Alone, OneUnderWay, UnderWay, LiveIsPanel, DetachesAlone
  <2>3. Owed'
    <3>1. CASE mounted
      <4>1. entry[c].inFlight + entry[c].stale = owes + lost
        BY <2>1, <3>1 DEF Alone, Owed
      <4>2. e2.inFlight + e2.stale = owes' + lost
        BY <1>1, <1>2, <1>3, <3>1, <4>1
      <4>3. \A d \in Calls : Live(d) => d = c
        BY <2>1 DEF Alone, LiveIsPanel
      <4>4. QED
        BY <1>4, <1>5, <2>1, <4>2, <4>3 DEF Owed
    <3>2. CASE ~mounted
      BY <3>2 DEF Owed
    <3>3. QED
      BY <3>1, <3>2
  <2>4. ShownIsFrom'
    BY <1>2, <1>3, <1>4, <1>5, <2>1 DEF ShownIsFrom, Alone, LiveIsPanel
  <2>5. shown' # Torn
    BY <1>1, <1>3, <2>1 DEF Torn, Alone
  <2>6. QED
    BY <2>2, <2>3, <2>4, <2>5 DEF Alone
<1>8. ExitRule
  BY <1>1, <1>3 DEF ExitRule, InPanel, FlowInv, Base, ExitPast
<1>9. QED
  BY <1>6, <1>7, <1>8 DEF FlowInv

LEMMA OutputStep ==
    ASSUME FlowInv, NEW n \in 1..MaxOut, Output(n)
    PROVE  FlowInv' /\ ExitRule
<1>1. /\ entry \in [Calls -> Entry] /\ out \in Nat /\ out' \in Nat /\ out' <= MaxOut
      /\ out < out' /\ out' = out + n
  BY FlowAssumption DEF FlowInv, Base, TypeOK, Positions, Output
<1>2. UNCHANGED <<session, hostUp, exitAt, resyncs, panel, at, stream, overlapped,
                  mounted, owes, shown, told, lost>>
  BY DEF Output, rendererVars
<1>3. \A d \in Calls :
        IF stream = d /\ at[d] = "open" /\ ~entry[d].closed
        THEN entry'[d] = Received(entry[d], out') ELSE entry'[d] = entry[d]
  BY <1>1, NoneIsNoCall DEF Output
<1>4. \A d \in Calls : LET e2 == Received(entry[d], out') IN
        /\ e2 \in Entry /\ QueueOK(e2, out') /\ e2.closed = entry[d].closed
        /\ ~e2.resyncing => ~entry[d].resyncing /\ e2.to = out' /\ e2.from = entry[d].from
        /\ e2.inFlight = entry[d].inFlight /\ e2.stale = entry[d].stale
  BY <1>1, ReceiveFacts DEF FlowInv, Base, Queues
<1>5. \A d \in Calls :
        /\ entry'[d] \in Entry /\ QueueOK(entry'[d], out')
        /\ entry'[d].closed = entry[d].closed
        /\ ~entry'[d].resyncing => ~entry[d].resyncing /\ entry'[d].from = entry[d].from
        /\ entry'[d].inFlight = entry[d].inFlight /\ entry'[d].stale = entry[d].stale
        /\ Live(d)' <=> Live(d)
  <2> TAKE d \in Calls
  <2>1. QueueOK(entry[d], out') /\ entry[d] \in Entry
    BY <1>1 DEF FlowInv, Base, Queues, QueueOK, Entry
  <2>2. QED
    BY <1>2, <1>3, <1>4, <2>1 DEF Live
<1>6. Base'
  <2>1. entry' \in [Calls -> Entry]
    <3>1. DOMAIN entry' = Calls /\ entry' = [d \in Calls |-> entry'[d]]
      BY <1>1 DEF Output
    <3>2. QED
      BY <1>5, <3>1
  <2>2. TypeOK'
    BY <1>1, <1>2, <2>1 DEF FlowInv, Base, TypeOK, Positions
  <2>3. Queues'
    BY <1>5 DEF Queues
  <2>4. Idle'
    BY <1>2, <1>3, <1>5 DEF FlowInv, Base, Idle
  <2>5. PanelLive' /\ StreamOf'
    BY <1>2, <1>5 DEF FlowInv, Base, PanelLive, StreamOf, TypeOK
  <2>6. Current'
    BY <1>2, <1>3, <1>4, <1>5 DEF FlowInv, Base, Current, StreamOf, Live
  <2>7. ExitPast'
    BY <1>1, <1>2 DEF FlowInv, Base, ExitPast, TypeOK, Positions
  <2>8. QED
    BY <2>2, <2>3, <2>4, <2>5, <2>6, <2>7 DEF Base
<1>7. ASSUME ~overlapped
      PROVE  Alone'
  <2>1. Alone
    BY <1>7 DEF FlowInv
  <2>2. OneUnderWay' /\ LiveIsPanel' /\ DetachesAlone'
    BY <1>2, <1>5, <2>1 DEF Alone, OneUnderWay, UnderWay, LiveIsPanel, DetachesAlone
  <2>3. Owed'
    BY <1>2, <1>5, <2>1 DEF Alone, Owed
  <2>4. ShownIsFrom'
    BY <1>2, <1>5, <2>1 DEF Alone, ShownIsFrom
  <2>5. QED
    BY <1>2, <2>1, <2>2, <2>3, <2>4 DEF Alone
<1>8. QED
  BY <1>2, <1>6, <1>7 DEF FlowInv, ExitRule

-----------------------------------------------------------------------------
(* Steps that close the entry of the panel, and the calls of attachPanel. *)

AtValues == {"new", "detaching", "asking", "open", "over"}
Screens == Positions \union {Blank, Torn}

LEMMA BaseTypes ==
    ASSUME FlowInv
    PROVE  /\ entry \in [Calls -> Entry] /\ at \in [Calls -> AtValues]
           /\ panel \in Calls \union {None} /\ stream \in Calls \union {None}
           /\ out \in Nat /\ owes \in Nat /\ lost \in Nat /\ exitAt \in Nat
           /\ told \in BOOLEAN /\ mounted \in BOOLEAN /\ shown \in Screens
           /\ exitAt <= out
           /\ \A d \in Calls : QueueOK(entry[d], out)
BY FlowAssumption
   DEF FlowInv, Base, TypeOK, Positions, AtValues, Screens, ExitPast, Queues

\* Closing the entry of the panel and freeing its stream.
LEMMA ClosesFacts ==
    ASSUME FlowInv, NEW es, es = Closes(panel)
    PROVE  /\ es \in [Calls -> Entry]
           /\ \A d \in Calls : QueueOK(es[d], out)
           /\ \A d \in Calls : d # panel => es[d] = entry[d]
           /\ \A d \in Calls : d = panel => es[d].closed
           /\ \A d \in Calls : at[d] # "open" \/ es[d].closed => Fresh(es[d])
           /\ \A d \in Calls : at[d] = "detaching" => ~es[d].closed
           /\ Frees(panel) \in Calls \union {None}
           /\ \A d \in Calls : at[d] = "asking" \/ (at[d] = "open" /\ ~es[d].closed)
                                => Frees(panel) = d
<1>1. /\ entry \in [Calls -> Entry] /\ panel \in Calls \union {None}
      /\ stream \in Calls \union {None} /\ out \in Nat
      /\ \A d \in Calls : QueueOK(entry[d], out)
  BY BaseTypes
<1>2. \A d \in Calls : IF d = panel THEN es[d] = Closed(entry[d]) ELSE es[d] = entry[d]
  BY <1>1, NoneIsNoCall DEF Closes
<1>3. \A d \in Calls : /\ Closed(entry[d]) \in Entry /\ Fresh(Closed(entry[d]))
                        /\ QueueOK(Closed(entry[d]), out) /\ Closed(entry[d]).closed
  BY <1>1, ClosedFacts
<1>4. es \in [Calls -> Entry]
  BY <1>1, <1>3 DEF Closes
<1>5. Frees(panel) \in {stream, None}
  BY DEF Frees
<1>6. ASSUME NEW d \in Calls, at[d] = "asking" \/ (at[d] = "open" /\ ~es[d].closed)
      PROVE  Frees(panel) = d
  <2>1. stream = d
    BY <1>2, <1>3, <1>6 DEF FlowInv, Base, StreamOf, Live
  <2>2. ~(HasHandle(panel) /\ stream = panel)
    BY <1>2, <1>3, <1>6, <2>1 DEF HasHandle
  <2>3. QED
    BY <2>1, <2>2 DEF Frees
<1>7. \A d \in Calls : at[d] = "detaching" => d # panel
  BY NoneIsNoCall DEF FlowInv, Base, PanelLive, Live
<1>8. QED
  BY <1>1, <1>2, <1>3, <1>4, <1>5, <1>6, <1>7 DEF FlowInv, Base, Idle

LEMMA CloseStep ==
    ASSUME FlowInv,
           panel' = None, stream' = Frees(panel), entry' = Closes(panel),
           UNCHANGED <<out, session, exitAt, resyncs, at, overlapped>>,
           hostUp' \in BOOLEAN, mounted' \in BOOLEAN, told' \in BOOLEAN,
           owes' \in Nat, lost' \in Nat, shown' \in Screens,
           ~overlapped => shown' # Torn,
           mounted' => panel # None
    PROVE  FlowInv' /\ ExitRule
<1> DEFINE es == Closes(panel)
<1>1. /\ es \in [Calls -> Entry]
      /\ \A d \in Calls : QueueOK(es[d], out)
      /\ \A d \in Calls : d # panel => es[d] = entry[d]
      /\ \A d \in Calls : d = panel => es[d].closed
      /\ \A d \in Calls : at[d] # "open" \/ es[d].closed => Fresh(es[d])
      /\ \A d \in Calls : at[d] = "detaching" => ~es[d].closed
      /\ Frees(panel) \in Calls \union {None}
      /\ \A d \in Calls : at[d] = "asking" \/ (at[d] = "open" /\ ~es[d].closed)
                            => Frees(panel) = d
  BY ClosesFacts
<1>2. entry' = es
  OBVIOUS
<1> HIDE DEF es
<1>3. Base'
  <2>1. TypeOK'
    BY <1>1, <1>2 DEF FlowInv, Base, TypeOK, Screens, Positions, Calls, None
  <2>2. Queues' /\ Idle' /\ PanelLive'
    BY <1>1, <1>2 DEF Queues, Idle, PanelLive
  <2>3. StreamOf'
    BY <1>1, <1>2 DEF StreamOf, Live
  <2>4. Current'
    BY <1>1, <1>2 DEF FlowInv, Base, Current
  <2>5. ExitPast'
    BY DEF FlowInv, Base, ExitPast
  <2>6. QED
    BY <2>1, <2>2, <2>3, <2>4, <2>5 DEF Base
<1>4. ASSUME ~overlapped
      PROVE  Alone'
  <2>1. Alone
    BY <1>4 DEF FlowInv
  <2>2. \A d \in Calls : ~Live(d)'
    BY <1>1, <1>2, <2>1 DEF Live, Alone, LiveIsPanel
  <2>3. OneUnderWay' /\ LiveIsPanel' /\ DetachesAlone'
    BY <2>1, <2>2 DEF Alone, OneUnderWay, UnderWay, LiveIsPanel, DetachesAlone
  <2>4. Owed'
    BY <2>1, <2>2 DEF Owed, Alone, DetachesAlone
  <2>5. ShownIsFrom'
    BY <2>2 DEF ShownIsFrom
  <2>6. QED
    BY <1>4, <2>3, <2>4, <2>5 DEF Alone
<1>5. ExitRule
  BY DEF ExitRule, InPanel
<1>6. QED
  BY <1>3, <1>4, <1>5 DEF FlowInv

\* The request of an attach is refused, or its entry was closed meanwhile: the
\* call is over, and nothing is live any more.
LEMMA OverStep ==
    ASSUME FlowInv, NEW c \in Calls, at[c] = "asking",
           at' = [at EXCEPT ![c] = "over"], stream' = None,
           panel' = IF panel = c THEN None ELSE panel,
           entry' = [entry EXCEPT ![c] = Closed(@)] \/ (entry' = entry /\ entry[c].closed),
           UNCHANGED <<sessionVars, overlapped, mounted, owes, shown, lost>>,
           told' \in BOOLEAN
    PROVE  FlowInv' /\ ExitRule
<1>1. /\ entry \in [Calls -> Entry] /\ at \in [Calls -> AtValues]
      /\ panel \in Calls \union {None} /\ out \in Nat
      /\ \A d \in Calls : QueueOK(entry[d], out)
  BY BaseTypes
<1>2. /\ Closed(entry[c]) \in Entry /\ Fresh(Closed(entry[c]))
      /\ QueueOK(Closed(entry[c]), out) /\ Closed(entry[c]).closed
  BY <1>1, ClosedFacts
<1>3. stream = c /\ \A d \in Calls : at[d] = "asking" \/ Live(d) => d = c
  BY DEF FlowInv, Base, StreamOf
<1>4. panel \in {c, None} /\ panel' = None
  BY <1>1, <1>3 DEF FlowInv, Base, PanelLive
<1>5. /\ \A d \in Calls : at'[d] = (IF d = c THEN "over" ELSE at[d])
      /\ \A d \in Calls : d # c => entry'[d] = entry[d]
      /\ entry'[c] \in Entry /\ Fresh(entry'[c]) /\ QueueOK(entry'[c], out)
  BY <1>1, <1>2 DEF FlowInv, Base, Idle
<1>6. \A d \in Calls : at'[d] # "asking" /\ ~Live(d)'
  BY <1>3, <1>5 DEF Live
<1>7. Base'
  <2>1. entry' \in [Calls -> Entry] /\ at' \in [Calls -> AtValues]
    BY <1>1, <1>2 DEF AtValues
  <2>2. TypeOK'
    BY <1>4, <2>1 DEF FlowInv, Base, TypeOK, Positions, AtValues, sessionVars
  <2>3. Queues'
    BY <1>1, <1>5 DEF Queues, sessionVars
  <2>4. Idle'
    BY <1>5 DEF FlowInv, Base, Idle
  <2>5. PanelLive' /\ StreamOf'
    BY <1>4, <1>6 DEF PanelLive, StreamOf
  <2>6. Current'
    BY <1>6 DEF Current, Live
  <2>7. ExitPast'
    BY DEF FlowInv, Base, ExitPast, sessionVars
  <2>8. QED
    BY <2>2, <2>3, <2>4, <2>5, <2>6, <2>7 DEF Base
<1>8. ASSUME ~overlapped
      PROVE  Alone'
  <2>1. Alone
    BY <1>8 DEF FlowInv
  <2>2. OneUnderWay' /\ LiveIsPanel' /\ DetachesAlone'
    BY <1>4, <1>5, <1>6, <2>1 DEF Alone, OneUnderWay, UnderWay, LiveIsPanel, DetachesAlone
  <2>3. Owed'
    BY <1>5, <1>6, <2>1 DEF Owed, Alone
  <2>4. ShownIsFrom'
    BY <1>6 DEF ShownIsFrom
  <2>5. QED
    BY <2>1, <2>2, <2>3, <2>4 DEF Alone
<1>9. ExitRule
  BY <1>4, NoneIsNoCall DEF ExitRule, InPanel
<1>10. QED
  BY <1>7, <1>8, <1>9 DEF FlowInv

\* Call c has its entry `es[c]` and asks for the session.  `es` and `on` are
\* the entries and the stream that are left when it does.
LEMMA AsksStep ==
    ASSUME FlowInv, NEW c \in Calls, at[c] \in {"new", "detaching"},
           NEW es, es \in [Calls -> Entry], NEW on, on \in Calls \union {None},
           NEW was \in BOOLEAN, Asks(c, es, on, was),
           UNCHANGED sessionVars, overlapped' \in BOOLEAN, mounted' \in BOOLEAN,
           owes' \in Nat, lost' \in Nat, shown' \in Screens,
           Fresh(es[c]), ~es[c].closed,
           \A d \in Calls : QueueOK(es[d], out),
           \A d \in Calls : d # c /\ (at[d] # "open" \/ es[d].closed) => Fresh(es[d]),
           \A d \in Calls : d # c /\ at[d] = "detaching" => ~es[d].closed,
           \A d \in Calls : d # c /\ (at[d] = "asking" \/ (at[d] = "open" /\ ~es[d].closed))
                                => on = d,
           \A d \in Calls : at[d] = "open" => es[d].closed \/ es[d] = entry[d],
           ~overlapped' =>
                /\ \A d \in Calls : UnderWay(d) => d = c
                /\ \A d \in Calls : at[d] = "open" => es[d].closed
                /\ mounted' => es[c].inFlight + es[c].stale = owes' + lost'
                /\ shown' # Torn
    PROVE  FlowInv'
<1>1. /\ entry \in [Calls -> Entry] /\ at \in [Calls -> AtValues] /\ out \in Nat
  BY BaseTypes
<1>2. CASE on = None
  <2>1. /\ panel' = c /\ stream' = c /\ told' = was /\ entry' = es
        /\ at' = [at EXCEPT ![c] = "asking"]
    BY <1>2 DEF Asks
  <2>2. /\ \A d \in Calls : at'[d] = (IF d = c THEN "asking" ELSE at[d])
        /\ \A d \in Calls : d # c => at[d] # "asking" /\ ~(at[d] = "open" /\ ~es[d].closed)
    BY <1>1, <1>2, <2>1, NoneIsNoCall
  <2>3. \A d \in Calls : (at'[d] = "asking" \/ Live(d)') => d = c
    BY <2>1, <2>2 DEF Live
  <2>4. Base'
    <3>1. at' \in [Calls -> AtValues]
      BY <1>1, <2>1 DEF AtValues
    <3>2. TypeOK'
      BY <2>1, <3>1 DEF FlowInv, Base, TypeOK, sessionVars, Positions, Screens, AtValues
    <3>3. Queues' /\ Idle'
      BY <2>1, <2>2 DEF Queues, Idle, sessionVars
    <3>4. PanelLive' /\ StreamOf'
      BY <2>1, <2>2, <2>3 DEF PanelLive, StreamOf, Live
    <3>5. Current'
      BY <2>1, <2>2 DEF Current
    <3>6. ExitPast'
      BY DEF FlowInv, Base, ExitPast, sessionVars
    <3>7. QED
      BY <3>2, <3>3, <3>4, <3>5, <3>6 DEF Base
  <2>5. ASSUME ~overlapped'
        PROVE  Alone'
    <3>1. OneUnderWay' /\ LiveIsPanel' /\ DetachesAlone'
      BY <2>1, <2>2, <2>3, <2>5 DEF OneUnderWay, UnderWay, LiveIsPanel, DetachesAlone
    <3>2. Owed'
      BY <2>1, <2>2, <2>3, <2>5 DEF Owed, UnderWay
    <3>3. ShownIsFrom'
      BY <2>2, <2>3 DEF ShownIsFrom
    <3>4. QED
      BY <2>5, <3>1, <3>2, <3>3 DEF Alone
  <2>6. QED
    BY <2>4, <2>5 DEF FlowInv
<1>3. CASE on # None
  <2> DEFINE e2 == Closed(es[c])
  <2>1. /\ panel' = None /\ stream' = on /\ told' = mounted'
        /\ at' = [at EXCEPT ![c] = "over"] /\ entry' = [es EXCEPT ![c] = e2]
    BY <1>3 DEF Asks
  <2>2. e2 \in Entry /\ Fresh(e2) /\ QueueOK(e2, out) /\ e2.closed
    BY <1>1, ClosedFacts
  <2> HIDE DEF e2
  <2>3. /\ \A d \in Calls : at'[d] = (IF d = c THEN "over" ELSE at[d])
        /\ \A d \in Calls : entry'[d] = (IF d = c THEN e2 ELSE es[d])
    BY <1>1, <2>1
  <2>4. \A d \in Calls : at'[d] = "asking" \/ Live(d)' =>
            d # c /\ (at[d] = "asking" \/ (at[d] = "open" /\ ~es[d].closed))
    BY <2>2, <2>3 DEF Live
  <2>5. Base'
    <3>1. at' \in [Calls -> AtValues] /\ entry' \in [Calls -> Entry]
      BY <1>1, <2>1, <2>2 DEF AtValues
    <3>2. TypeOK'
      BY <2>1, <3>1 DEF FlowInv, Base, TypeOK, sessionVars, Positions, Screens, AtValues
    <3>3. Queues' /\ Idle'
      BY <2>2, <2>3 DEF Queues, Idle, sessionVars
    <3>4. PanelLive' /\ StreamOf'
      BY <2>1, <2>4 DEF PanelLive, StreamOf
    <3>5. Current'
      BY <2>3 DEF FlowInv, Base, Current, sessionVars
    <3>6. ExitPast'
      BY DEF FlowInv, Base, ExitPast, sessionVars
    <3>7. QED
      BY <3>2, <3>3, <3>4, <3>5, <3>6 DEF Base
  <2>6. ASSUME ~overlapped'
        PROVE  Alone'
    <3>1. \A d \in Calls : ~UnderWay(d)' /\ ~Live(d)'
      BY <2>3, <2>4, <2>6 DEF UnderWay
    <3>2. OneUnderWay' /\ LiveIsPanel' /\ DetachesAlone'
      BY <2>1, <3>1 DEF OneUnderWay, LiveIsPanel, DetachesAlone
    <3>3. Owed' /\ ShownIsFrom'
      BY <3>1 DEF Owed, ShownIsFrom, UnderWay
    <3>4. QED
      BY <2>6, <3>2, <3>3 DEF Alone
  <2>7. QED
    BY <2>5, <2>6 DEF FlowInv
<1>4. QED
  BY <1>2, <1>3

LEMMA DetachedStep ==
    ASSUME FlowInv, NEW c \in Calls, Detached(c)
    PROVE  FlowInv' /\ ExitRule
<1>1. /\ at[c] = "detaching" /\ Asks(c, entry, stream, told)
      /\ UNCHANGED <<sessionVars, mounted, owes, shown, lost, overlapped>>
  BY DEF Detached
<1>2. /\ entry \in [Calls -> Entry] /\ stream \in Calls \union {None}
      /\ told \in BOOLEAN /\ mounted \in BOOLEAN /\ overlapped \in BOOLEAN
      /\ owes \in Nat /\ lost \in Nat /\ shown \in Screens
      /\ \A d \in Calls : QueueOK(entry[d], out)
  BY BaseTypes DEF FlowInv, Base, TypeOK
<1>3. Fresh(entry[c])
  BY <1>1 DEF FlowInv, Base, Idle
<1>4. /\ ~entry[c].closed
      /\ \A d \in Calls : (at[d] # "open" \/ entry[d].closed) => Fresh(entry[d])
      /\ \A d \in Calls : at[d] = "detaching" => ~entry[d].closed
      /\ \A d \in Calls : at[d] = "asking" \/ (at[d] = "open" /\ ~entry[d].closed)
                            => stream = d
  BY <1>1 DEF FlowInv, Base, Idle, StreamOf, Live
<1>5. ASSUME ~overlapped
      PROVE  /\ \A d \in Calls : UnderWay(d) => d = c
             /\ panel = None
             /\ \A d \in Calls : at[d] = "open" => entry[d].closed
             /\ mounted => entry[c].inFlight + entry[c].stale = owes + lost
             /\ shown # Torn
  BY <1>1, <1>5, NoneIsNoCall
     DEF FlowInv, Alone, OneUnderWay, UnderWay, DetachesAlone, LiveIsPanel, Live, Owed
<1>6. FlowInv'
  BY <1>1, <1>2, <1>3, <1>4, <1>5, AsksStep
<1>7. ExitRule
  BY <1>5 DEF ExitRule, InPanel
<1>8. QED
  BY <1>6, <1>7

\* attachPanel as call c, for a terminal that was just mounted or to carry on
\* after an overflow.
LEMMA AttachPanelStep ==
    ASSUME FlowInv, NEW c \in Calls, NEW carry \in BOOLEAN, NEW was \in BOOLEAN,
           AttachPanel(c, carry, was), carry => panel # None,
           UNCHANGED sessionVars, mounted' \in BOOLEAN,
           owes' \in Nat, lost' \in Nat, shown' \in Screens,
           ~overlapped => shown' # Torn,
           carry => UNCHANGED <<mounted, owes, lost>>,
           ~carry => ~mounted /\ owes' = 0 /\ lost' = 0
    PROVE  FlowInv' /\ ExitRule
<1> DEFINE es == Closes(panel)
           owed == IF carry THEN entry[panel].inFlight + entry[panel].stale ELSE 0
           exit == carry /\ entry[panel].exitPending
           new == NewEntry(owed, exit, carry)
           made == [es EXCEPT ![c] = new]
<1>1. /\ at[c] = "new"
      /\ overlapped' = (overlapped \/ \E d \in Calls : UnderWay(d))
      /\ IF HasHandle(panel)
         THEN /\ panel' = None /\ stream' = Frees(panel) /\ told' = was
              /\ at' = [at EXCEPT ![c] = "detaching"]
              /\ entry' = made
         ELSE Asks(c, made, Frees(panel), was)
  BY DEF AttachPanel
<1>2. /\ entry \in [Calls -> Entry] /\ at \in [Calls -> AtValues] /\ out \in Nat
      /\ panel \in Calls \union {None} /\ owes \in Nat /\ lost \in Nat
  BY BaseTypes
<1>3. /\ es \in [Calls -> Entry]
      /\ \A d \in Calls : QueueOK(es[d], out)
      /\ \A d \in Calls : d # panel => es[d] = entry[d]
      /\ \A d \in Calls : d = panel => es[d].closed
      /\ \A d \in Calls : at[d] # "open" \/ es[d].closed => Fresh(es[d])
      /\ \A d \in Calls : at[d] = "detaching" => ~es[d].closed
      /\ Frees(panel) \in Calls \union {None}
      /\ \A d \in Calls : at[d] = "asking" \/ (at[d] = "open" /\ ~es[d].closed)
                            => Frees(panel) = d
  BY ClosesFacts
<1>4. owed \in Nat /\ exit \in BOOLEAN
  <2>1. CASE carry
    <3>1. entry[panel] \in Entry
      BY <1>2, <2>1
    <3>2. entry[panel].inFlight \in Nat /\ entry[panel].stale \in Nat
          /\ entry[panel].exitPending \in BOOLEAN
      BY <3>1 DEF Entry
    <3>3. QED
      BY <2>1, <3>2
  <2>2. CASE ~carry
    BY <2>2
  <2>3. QED
    BY <2>1, <2>2
<1>5. ASSUME ~overlapped'
      PROVE  /\ ~overlapped /\ \A d \in Calls : ~UnderWay(d)
             /\ \A d \in Calls : at[d] = "open" => es[d].closed
             /\ mounted' => owed = owes' + lost'
  <2>1. ~overlapped /\ \A d \in Calls : ~UnderWay(d)
    BY <1>1, <1>5
  <2>2. Alone
    BY <2>1 DEF FlowInv
  <2>3. \A d \in Calls : at[d] = "open" => es[d].closed
    BY <1>3, <2>2 DEF Alone, LiveIsPanel, Live
  <2>4. ASSUME mounted', carry
        PROVE  owed = owes' + lost'
    <3>1. /\ mounted /\ panel \in Calls /\ Live(panel)
          /\ owes' = owes /\ lost' = lost
      BY <1>2, <2>4 DEF FlowInv, Base, PanelLive
    <3>2. owed = entry[panel].inFlight + entry[panel].stale
      BY <2>4
    <3>3. QED
      BY <2>2, <3>1, <3>2 DEF Alone, Owed
  <2>5. ASSUME mounted', ~carry
        PROVE  owed = owes' + lost'
    BY <2>5
  <2>6. QED
    BY <2>1, <2>3, <2>4, <2>5
<1> HIDE DEF es, owed, exit
<1>6. /\ new \in Entry /\ Fresh(new) /\ QueueOK(new, out) /\ ~new.closed
      /\ new.inFlight + new.stale = owed
  BY <1>2, <1>4, NewEntryFacts
<1> HIDE DEF new
<1>7. made \in [Calls -> Entry] /\ \A d \in Calls : made[d] = (IF d = c THEN new ELSE es[d])
  BY <1>3, <1>6
<1> HIDE DEF made
<1>8. overlapped \in BOOLEAN /\ overlapped' \in BOOLEAN
  BY <1>1 DEF FlowInv, Base, TypeOK
<1>9. ExitRule
  BY <1>1, NoneIsNoCall DEF ExitRule, InPanel, HasHandle
<1>10. CASE HasHandle(panel)
  <2>1. /\ panel' = None /\ stream' = Frees(panel) /\ told' = was
        /\ at' = [at EXCEPT ![c] = "detaching"] /\ entry' = made
    BY <1>1, <1>10
  <2>2. \A d \in Calls : at'[d] = (IF d = c THEN "detaching" ELSE at[d])
    BY <1>2, <2>1
  <2>3. Base'
    <3>1. at' \in [Calls -> AtValues]
      BY <1>2, <2>1 DEF AtValues
    <3>2. TypeOK'
      BY <1>3, <1>7, <1>8, <2>1, <3>1 DEF FlowInv, Base, TypeOK, sessionVars, Positions, Screens, AtValues
    <3>3. Queues' /\ Idle'
      BY <1>3, <1>6, <1>7, <2>1, <2>2 DEF Queues, Idle, sessionVars
    <3>4. PanelLive' /\ StreamOf'
      BY <1>3, <1>7, <2>1, <2>2 DEF PanelLive, StreamOf, Live
    <3>5. Current'
      BY <1>3, <1>7, <2>1, <2>2 DEF FlowInv, Base, Current, sessionVars
    <3>6. ExitPast'
      BY DEF FlowInv, Base, ExitPast, sessionVars
    <3>7. QED
      BY <3>2, <3>3, <3>4, <3>5, <3>6 DEF Base
  <2>4. ASSUME ~overlapped'
        PROVE  Alone'
    <3>1. \A d \in Calls : d # c => at'[d] # "detaching" /\ ~UnderWay(d)' /\ ~Live(d)'
      BY <1>5, <1>7, <2>1, <2>2, <2>4 DEF UnderWay, Live
    <3>2. at'[c] = "detaching" /\ ~Live(c)'
      BY <2>2 DEF Live
    <3>3. OneUnderWay' /\ LiveIsPanel' /\ DetachesAlone'
      BY <2>1, <3>1, <3>2 DEF OneUnderWay, LiveIsPanel, DetachesAlone
    <3>4. Owed' /\ ShownIsFrom'
      BY <1>5, <1>6, <1>7, <2>1, <2>4, <3>1, <3>2 DEF Owed, ShownIsFrom
    <3>5. shown' # Torn
      BY <1>5, <2>4
    <3>6. QED
      BY <3>3, <3>4, <3>5 DEF Alone
  <2>5. QED
    BY <1>9, <2>3, <2>4 DEF FlowInv
<1>11. CASE ~HasHandle(panel)
  <2>1. Asks(c, made, Frees(panel), was)
    BY <1>1, <1>11
  <2>2. /\ Fresh(made[c]) /\ ~made[c].closed
        /\ made[c].inFlight + made[c].stale = owed
        /\ \A d \in Calls : QueueOK(made[d], out)
        /\ \A d \in Calls : d # c /\ (at[d] # "open" \/ made[d].closed) => Fresh(made[d])
        /\ \A d \in Calls : d # c /\ at[d] = "detaching" => ~made[d].closed
        /\ \A d \in Calls : d # c /\ (at[d] = "asking" \/ (at[d] = "open" /\ ~made[d].closed))
                                => Frees(panel) = d
    BY <1>3, <1>6, <1>7
  <2>3. \A d \in Calls : at[d] = "open" => made[d].closed \/ made[d] = entry[d]
    BY <1>1, <1>3, <1>7
  <2>4. ASSUME ~overlapped'
        PROVE  /\ \A d \in Calls : UnderWay(d) => d = c
               /\ \A d \in Calls : at[d] = "open" => made[d].closed
               /\ mounted' => made[c].inFlight + made[c].stale = owes' + lost'
               /\ shown' # Torn
    BY <1>1, <1>5, <1>7, <2>2, <2>4
  <2>5. FlowInv'
    BY <1>1, <1>3, <1>7, <1>8, <2>1, <2>2, <2>3, <2>4, AsksStep
  <2>6. QED
    BY <1>9, <2>5
<1>12. QED
  BY <1>10, <1>11

-----------------------------------------------------------------------------
(* The actions. *)

LEMMA InitFlow == Init => FlowInv
<1> SUFFICES ASSUME Init PROVE FlowInv
  OBVIOUS
<1> DEFINE e0 == NewEntry(0, FALSE, FALSE)
<1>1. e0 \in Entry /\ Fresh(e0) /\ QueueOK(e0, 0) /\ ~e0.closed
  BY NewEntryFacts
<1> HIDE DEF e0
<1>2. \A c \in Calls : entry[c] = e0 /\ at[c] = "new"
  BY DEF Init, e0
<1>3. TypeOK
  <2>1. entry \in [Calls -> Entry]
    BY <1>1 DEF Init, e0
  <2>2. at \in [Calls -> {"new", "detaching", "asking", "open", "over"}]
    BY DEF Init
  <2>3. 0 \in Positions /\ 0 \in 0..MaxResyncs
    BY FlowAssumption DEF Positions
  <2>4. QED
    BY <2>1, <2>2, <2>3 DEF Init, TypeOK
<1>4. Queues /\ Idle
  BY <1>1, <1>2 DEF Init, Queues, Idle
<1>5. PanelLive /\ StreamOf /\ Current /\ ExitPast
  BY <1>2 DEF Init, PanelLive, StreamOf, Current, ExitPast, Live
<1>6. Alone
  BY <1>2 DEF Init, Alone, OneUnderWay, UnderWay, LiveIsPanel, Live, DetachesAlone,
              Owed, ShownIsFrom, Blank, Torn
<1>7. QED
  BY <1>3, <1>4, <1>5, <1>6 DEF FlowInv, Base

LEMMA FlushStep ==
    ASSUME FlowInv, NEW c \in Calls, Flush(c)
    PROVE  FlowInv' /\ ExitRule
<1> DEFINE e == [entry[c] EXCEPT !.scheduled = FALSE]
           n == Sends(e)
           e2 == Flushed(e, n)
<1>1. entry \in [Calls -> Entry] /\ entry[c] \in Entry /\ owes \in Nat
      /\ QueueOK(entry[c], out)
  BY BaseTypes
<1>2. Live(c) /\ ~entry[c].closed
  BY DEF Flush, FlowInv, Base, Idle, Fresh, Live
<1>3. /\ e \in Entry /\ e.from = entry[c].from /\ e.to = entry[c].to
      /\ e.inFlight = entry[c].inFlight /\ e.stale = entry[c].stale
      /\ e.closed = entry[c].closed /\ e.resyncing = entry[c].resyncing
  BY <1>1 DEF Entry
<1>4. /\ entry' = [entry EXCEPT ![c] = Settled(e2)]
      /\ Gets(e.from, n, 0, Exits(e2))
      /\ UNCHANGED <<sessionVars, panel, at, stream, overlapped, mounted, lost>>
  BY <1>2, <1>3 DEF Flush
<1>5. entry[c].scheduled
  BY DEF Flush
<1> HIDE DEF e
<1>6. /\ SentFrom(e, Settled(e2), n, 0) /\ Exits(e2) \in BOOLEAN
      /\ Exits(e2) => e.from + n = e.to /\ ~e.resyncing
  BY <1>1, <1>3, SendFacts DEF QueueOK
<1> HIDE DEF n, e2
<1>7. SentFrom(entry[c], Settled(e2), n, 0)
  BY <1>3, <1>5, <1>6 DEF SentFrom, Fresh
<1>8. session' \in {"runs", "exited"} /\ exitAt' \in {exitAt, out} /\ Observed /\ UNCHANGED at
  BY <1>4 DEF sessionVars, Observed, FlowInv, Base, TypeOK
<1> DEFINE new == Settled(e2)
           end == Exits(e2)
<1>9. /\ end \in BOOLEAN /\ Gets(entry[c].from, n, 0, end)
      /\ end => entry[c].from + n = entry[c].to /\ ~entry[c].resyncing
      /\ SentFrom(entry[c], new, n, 0) /\ entry' = [entry EXCEPT ![c] = new]
  BY <1>3, <1>4, <1>6, <1>7
<1>10. 0 \in Nat /\ 0 <= owes
  BY <1>1
<1> HIDE DEF new, end
<1>11. QED
  BY <1>2, <1>8, <1>9, <1>10, SendStep

LEMMA AckStep ==
    ASSUME FlowInv, NEW k \in 1..owes, Ack(k)
    PROVE  FlowInv' /\ ExitRule
<1>1. /\ entry \in [Calls -> Entry] /\ owes \in Nat /\ lost \in Nat
      /\ panel \in Calls \union {None}
      /\ \A d \in Calls : QueueOK(entry[d], out)
  BY BaseTypes
<1>2. k \in Nat /\ k <= owes
  BY <1>1
<1>3. CASE panel = None
  <2>1. /\ lost' = lost + k /\ owes' = owes - k
        /\ UNCHANGED <<entry, shown, told>>
        /\ UNCHANGED <<sessionVars, panel, at, stream, overlapped, mounted>>
    BY <1>3 DEF Ack
  <2>2. owes' \in Nat /\ lost' \in Nat /\ owes' + lost' = owes + lost
    BY <1>1, <1>2, <2>1
  <2>3. Base'
    <3>1. TypeOK'
      BY <2>1, <2>2 DEF FlowInv, Base, TypeOK, sessionVars
    <3>2. QED
      BY <2>1, <3>1 DEF FlowInv, Base, Queues, Idle, PanelLive, StreamOf, Current,
                        ExitPast, Live, sessionVars
  <2>4. ASSUME ~overlapped
        PROVE  Alone'
    <3>1. Owed'
      BY <2>1, <2>2, <2>4 DEF FlowInv, Alone, Owed, Live
    <3>2. QED
      BY <2>1, <2>4, <3>1 DEF FlowInv, Alone, OneUnderWay, UnderWay, LiveIsPanel, Live,
                              DetachesAlone, ShownIsFrom
  <2>5. QED
    BY <2>1, <2>3, <2>4 DEF FlowInv, ExitRule
<1>4. CASE panel # None
  <2> DEFINE p == entry[panel]
             e == Acked(p, k)
             n == IF e.scheduled THEN 0 ELSE Sends(e)
             e2 == Flushed(e, Sends(e))
             new == IF e.scheduled THEN e ELSE Settled(e2)
             end == ~e.scheduled /\ Exits(e2)
  <2>1. panel \in Calls /\ p \in Entry /\ p.from <= p.to /\ Live(panel)
    BY <1>1, <1>4 DEF QueueOK, FlowInv, Base, PanelLive
  <2>2. /\ entry' = [entry EXCEPT ![panel] = new]
        /\ Gets(e.from, n, k, end)
        /\ UNCHANGED <<sessionVars, panel, at, stream, overlapped, mounted, lost>>
    BY <1>4 DEF Ack
  <2>3. SentFrom(p, e, 0, k)
    BY <1>2, <2>1, AckFacts
  <2>4. e \in Entry /\ e.from = p.from /\ e.to = p.to /\ e.from <= e.to
        /\ e.resyncing = p.resyncing
    BY <2>1, <2>3 DEF SentFrom, Entry
  <2>5. /\ SentFrom(e, Settled(e2), Sends(e), 0) /\ Exits(e2) \in BOOLEAN
        /\ Exits(e2) => e.from + Sends(e) = e.to /\ ~e.resyncing
    BY <2>4, SendFacts
  <2> HIDE DEF e, e2
  <2>6. SentFrom(p, new, n, k)
    <3>1. CASE e.scheduled
      BY <2>3, <3>1
    <3>2. CASE ~e.scheduled
      <4>1. SentFrom(p, Settled(e2), Sends(e), k)
        BY <1>2, <2>1, <2>3, <2>5, SentTwice
      <4>2. QED
        BY <3>2, <4>1
    <3>3. QED
      BY <3>1, <3>2
  <2>7. end \in BOOLEAN /\ (end => p.from + n = p.to /\ ~p.resyncing)
    BY <2>4, <2>5
  <2>8. session' \in {"runs", "exited"} /\ exitAt' \in {exitAt, out} /\ Observed /\ UNCHANGED at
    BY <2>2 DEF sessionVars, Observed, FlowInv, Base, TypeOK
  <2>9. Gets(p.from, n, k, end)
    BY <2>2, <2>4
  <2> HIDE DEF n, new, end
  <2>10. QED
    BY <1>2, <2>1, <2>2, <2>6, <2>7, <2>8, <2>9, SendStep
<1>5. QED
  BY <1>3, <1>4

LEMMA SessionExitsStep ==
    ASSUME FlowInv, SessionExits
    PROVE  FlowInv' /\ ExitRule
<1>1. /\ session' = "exited" /\ exitAt' = out
      /\ UNCHANGED <<out, hostUp, resyncs, panel, at, stream, overlapped, mounted, lost>>
  BY DEF SessionExits
<1>2. CASE panel = None
  <2>1. UNCHANGED <<entry, owes, shown, told>>
    BY <1>2 DEF SessionExits
  <2>2. TypeOK'
    BY <1>1, <2>1 DEF FlowInv, Base, TypeOK, Positions
  <2>3. Base'
    BY <1>1, <2>1, <2>2, BaseTypes
       DEF FlowInv, Base, Queues, Idle, PanelLive, StreamOf, Current, ExitPast, Live
  <2>4. Alone' <=> Alone
    BY <1>1, <2>1 DEF Alone, OneUnderWay, UnderWay, LiveIsPanel, Live, DetachesAlone,
                      Owed, ShownIsFrom
  <2>5. QED
    BY <1>1, <2>1, <2>3, <2>4 DEF FlowInv, ExitRule
<1>3. CASE panel # None
  <2> DEFINE p == entry[panel]
             e == [p EXCEPT !.exitPending = TRUE]
             n == Sends(e)
             e2 == Flushed(e, n)
             new == Settled(e2)
             end == Exits(e2)
  <2>1. panel \in Calls /\ Live(panel) /\ p \in Entry /\ p.from <= p.to
        /\ 0 \in Nat /\ 0 <= owes
    BY <1>3, BaseTypes DEF QueueOK, FlowInv, Base, PanelLive
  <2>2. /\ entry' = [entry EXCEPT ![panel] = new]
        /\ Gets(e.from, n, 0, end)
    BY <1>3 DEF SessionExits
  <2>3. /\ e \in Entry /\ e.from = p.from /\ e.to = p.to
        /\ e.inFlight = p.inFlight /\ e.stale = p.stale
        /\ e.closed = p.closed /\ e.resyncing = p.resyncing
        /\ e.scheduled = p.scheduled /\ e.due = p.due /\ e.resyncDue = p.resyncDue
    BY <2>1 DEF Entry
  <2> HIDE DEF e
  <2>4. /\ SentFrom(e, new, n, 0) /\ end \in BOOLEAN
        /\ end => e.from + n = e.to /\ ~e.resyncing
    BY <2>1, <2>3, SendFacts
  <2> HIDE DEF n, new, end
  <2>5. /\ SentFrom(p, new, n, 0) /\ Gets(p.from, n, 0, end)
        /\ end => p.from + n = p.to /\ ~p.resyncing
    BY <2>2, <2>3, <2>4 DEF SentFrom, Fresh
  <2>6. session' \in {"runs", "exited"} /\ exitAt' \in {exitAt, out} /\ Observed /\ UNCHANGED at
    BY <1>1 DEF Observed
  <2>7. QED
    BY <2>1, <2>2, <2>4, <2>5, <2>6, SendStep
<1>4. QED
  BY <1>2, <1>3

LEMMA ResyncStep ==
    ASSUME FlowInv, NEW z \in 1..MaxSnap, Resync(z)
    PROVE  FlowInv' /\ ExitRule
<1>1. /\ stream # None /\ at[stream] = "open" /\ ~entry[stream].closed
      /\ TakesSnapshot(stream, z, "open")
      /\ UNCHANGED <<out, session, hostUp, exitAt, panel, stream, overlapped, mounted, lost>>
  BY DEF Resync
<1>2. stream \in Calls /\ Live(stream) /\ z \in Nat
  BY <1>1, BaseTypes DEF Live
<1>3. resyncs' \in 0..MaxResyncs
  BY FlowAssumption DEF Resync, FlowInv, Base, TypeOK
<1>4. QED
  BY <1>1, <1>2, <1>3, SnapStep

LEMMA AttachedStep ==
    ASSUME FlowInv, NEW c \in Calls, NEW z \in 1..MaxSnap, Attached(c, z)
    PROVE  FlowInv' /\ ExitRule
<1>1. /\ at[c] = "asking"
      /\ UNCHANGED <<sessionVars, panel, overlapped, mounted, lost>>
  BY DEF Attached
<1>2. CASE entry[c].closed
  <2>1. /\ at' = [at EXCEPT ![c] = "over"] /\ stream' = None
        /\ UNCHANGED <<entry, owes, shown, told>>
    BY <1>2 DEF Attached
  <2>2. panel # c
    BY <1>2, NoneIsNoCall DEF FlowInv, Base, PanelLive, Live
  <2>3. told' \in BOOLEAN
    BY <2>1, BaseTypes
  <2>4. QED
    BY <1>1, <1>2, <2>1, <2>2, <2>3, OverStep
<1>3. CASE ~entry[c].closed
  <2>1. TakesSnapshot(c, z, "open") /\ UNCHANGED stream
    BY <1>3 DEF Attached
  <2>2. Live(c) /\ z \in Nat
    BY <1>1, <1>3 DEF Live
  <2>3. UNCHANGED <<session, exitAt, out, hostUp, panel, stream, overlapped, mounted, lost>>
        /\ resyncs' \in 0..MaxResyncs
    BY <1>1, <2>1 DEF sessionVars, FlowInv, Base, TypeOK
  <2>4. QED
    BY <2>1, <2>2, <2>3, SnapStep
<1>4. QED
  BY <1>2, <1>3

LEMMA RefusedStep ==
    ASSUME FlowInv, NEW c \in Calls, Refused(c)
    PROVE  FlowInv' /\ ExitRule
<1>1. told' \in BOOLEAN
  <2>1. entry[c] \in Entry /\ mounted \in BOOLEAN /\ told \in BOOLEAN
    BY BaseTypes
  <2>2. QED
    BY <2>1 DEF Refused
<1>2. /\ at[c] = "asking" /\ at' = [at EXCEPT ![c] = "over"] /\ stream' = None
      /\ panel' = (IF panel = c THEN None ELSE panel)
      /\ entry' = [entry EXCEPT ![c] = Closed(@)]
      /\ UNCHANGED <<sessionVars, overlapped, mounted, owes, shown, lost>>
  BY DEF Refused
<1>3. QED
  BY <1>1, <1>2, OverStep

LEMMA UnmountStep ==
    ASSUME FlowInv, Unmount
    PROVE  FlowInv' /\ ExitRule
<1>1. /\ panel' = None /\ stream' = Frees(panel) /\ entry' = Closes(panel)
      /\ UNCHANGED <<sessionVars, at, overlapped>>
      /\ mounted' = FALSE /\ owes' = 0 /\ lost' = 0 /\ told' = FALSE /\ shown' = Blank
  BY DEF Unmount
<1>2. hostUp' \in BOOLEAN
      /\ UNCHANGED <<out, session, exitAt, resyncs, at, overlapped>>
  BY <1>1 DEF sessionVars, FlowInv, Base, TypeOK
<1>3. shown' \in Screens /\ shown' # Torn
  BY <1>1 DEF Screens, Blank, Torn
<1>4. QED
  BY <1>1, <1>2, <1>3, CloseStep

\* What a removed host still sends continues the screen.
LEMMA HostClosesStep ==
    ASSUME FlowInv, HostCloses
    PROVE  FlowInv' /\ ExitRule
<1>1. hostUp' = FALSE /\ UNCHANGED <<out, session, exitAt, resyncs>>
  BY DEF HostCloses
<1>2. CASE panel = None
  <2>1. UNCHANGED <<panelVars, rendererVars>>
    BY <1>2 DEF HostCloses
  <2>2. UNCHANGED <<panel, at, entry, stream, overlapped, mounted, owes, shown, told, lost>>
    BY <2>1 DEF panelVars, rendererVars
  <2>3. TypeOK'
    BY <1>1, <2>2 DEF FlowInv, Base, TypeOK
  <2>4. Base'
    BY <1>1, <2>2, <2>3
       DEF FlowInv, Base, Queues, Idle, PanelLive, StreamOf, Current, ExitPast, Live
  <2>5. Alone' <=> Alone
    BY <2>2 DEF Alone, OneUnderWay, UnderWay, LiveIsPanel, Live, DetachesAlone,
                Owed, ShownIsFrom
  <2>6. QED
    BY <1>1, <2>2, <2>4, <2>5 DEF FlowInv, ExitRule
<1>3. CASE panel # None
  <2> DEFINE p == entry[panel]
             n == Queued(p)
  <2>1. panel \in Calls /\ Live(panel) /\ p \in Entry /\ QueueOK(p, out)
    BY <1>3, BaseTypes DEF FlowInv, Base, PanelLive
  <2>2. /\ Gets(p.from, n, 0, TRUE)
        /\ panel' = None /\ stream' = Frees(panel) /\ entry' = Closes(panel)
        /\ UNCHANGED <<at, overlapped, mounted, lost>>
    BY <1>3 DEF HostCloses
  <2>3. n \in Nat /\ p.from + n = p.to /\ p.from \in Nat /\ p.to \in Nat /\ p.to <= out
    BY <2>1 DEF Queued, QueueOK, Entry
  <2>4. n # 0 => at[panel] = "open" /\ ~p.resyncing
    BY <2>1, <2>3 DEF FlowInv, Base, Idle, Fresh, QueueOK, Queued, Live, Entry
  <2> HIDE DEF n
  <2>5. shown' \in {shown, p.to, Torn} /\ told' \in BOOLEAN /\ mounted \in BOOLEAN
    BY <2>2, <2>3, BaseTypes DEF Gets, Shows
  <2>6. shown' \in Screens
    <3>1. p.to \in Positions
      BY <2>3, BaseTypes, FlowAssumption DEF Positions, FlowInv, Base, TypeOK
    <3>2. QED
      BY <2>5, <3>1, BaseTypes DEF Screens
  <2>7. ASSUME ~overlapped
        PROVE  shown' # Torn
    <3>1. Alone
      BY <2>7 DEF FlowInv
    <3>2. CASE n = 0 \/ ~mounted
      BY <2>2, <3>1, <3>2 DEF Gets, Shows, Alone
    <3>3. CASE n # 0 /\ mounted
      <4>1. shown = p.from
        BY <2>1, <2>4, <3>1, <3>3 DEF Alone, ShownIsFrom
      <4>2. shown' = p.from + n
        BY <2>2, <3>3, <4>1 DEF Gets, Shows
      <4>3. QED
        BY <2>3, <4>2 DEF Torn
    <3>4. QED
      BY <3>2, <3>3
  <2>8. owes' \in Nat /\ lost' \in Nat
    BY <2>2, <2>3, BaseTypes DEF Gets
  <2>9. mounted' \in BOOLEAN /\ UNCHANGED <<at, overlapped>> /\ hostUp' \in BOOLEAN
    BY <1>1, <2>2, <2>5
  <2>10. QED
    BY <1>1, <1>3, <2>2, <2>5, <2>6, <2>7, <2>8, <2>9, CloseStep
<1>4. QED
  BY <1>2, <1>3

LEMMA MountStep ==
    ASSUME FlowInv, NEW c \in Calls, Mount(c)
    PROVE  FlowInv' /\ ExitRule
<1>1. /\ ~mounted /\ mounted' = TRUE /\ owes' = 0 /\ shown' = Blank /\ lost' = 0
      /\ AttachPanel(c, FALSE, FALSE) /\ UNCHANGED sessionVars
  BY DEF Mount
<1>2. shown' \in Screens /\ shown' # Torn
  BY <1>1 DEF Screens, Blank, Torn
<1>3. QED
  BY <1>1, <1>2, AttachPanelStep

LEMMA ReattachStep ==
    ASSUME FlowInv, NEW c \in Calls, Reattach(c)
    PROVE  FlowInv' /\ ExitRule
<1>1. /\ panel # None /\ AttachPanel(c, TRUE, told)
      /\ UNCHANGED <<sessionVars, mounted, owes, shown, lost>>
  BY DEF Reattach
<1>2. /\ told \in BOOLEAN /\ mounted' \in BOOLEAN /\ owes' \in Nat /\ lost' \in Nat
      /\ shown' \in Screens
  BY <1>1, BaseTypes
<1>3. ~overlapped => shown' # Torn
  BY <1>1 DEF FlowInv, Alone
<1>4. QED
  BY <1>1, <1>2, <1>3, AttachPanelStep

-----------------------------------------------------------------------------
(* Theorems. *)

\* Every step keeps the invariant and obeys the rule of the exit.
LEMMA FlowStep ==
    ASSUME FlowInv, [Next]_vars
    PROVE  FlowInv' /\ (ExitRule \/ UNCHANGED vars)
<1>1. CASE UNCHANGED vars
  <2>1. UNCHANGED <<out, session, hostUp, exitAt, resyncs, panel, at, entry, stream,
                    overlapped, mounted, owes, shown, told, lost>>
    BY <1>1 DEF vars, sessionVars, panelVars, rendererVars
  <2>2. TypeOK' <=> TypeOK
    BY <2>1 DEF TypeOK
  <2>3. Base' <=> Base
    BY <2>1, <2>2 DEF Base, Queues, Idle, PanelLive, StreamOf, Current, ExitPast, Live
  <2>4. Alone' <=> Alone
    BY <2>1 DEF Alone, OneUnderWay, UnderWay, LiveIsPanel, Live, DetachesAlone,
                Owed, ShownIsFrom
  <2>5. QED
    BY <1>1, <2>1, <2>3, <2>4 DEF FlowInv
<1>2. CASE Next
  <2>1. ASSUME NEW n \in 1..MaxOut, Output(n) PROVE FlowInv' /\ ExitRule
    BY <2>1, OutputStep
  <2>2. ASSUME NEW z \in 1..MaxSnap, Resync(z) PROVE FlowInv' /\ ExitRule
    BY <2>2, ResyncStep
  <2>3. ASSUME NEW k \in 1..owes, Ack(k) PROVE FlowInv' /\ ExitRule
    BY <2>3, AckStep
  <2>4. CASE Unmount
    <3>1. FlowInv' /\ ExitRule
      BY <2>4, UnmountStep
    <3>2. QED
      BY <3>1
  <2>5. CASE SessionExits
    <3>1. FlowInv' /\ ExitRule
      BY <2>5, SessionExitsStep
    <3>2. QED
      BY <3>1
  <2>6. CASE HostCloses
    <3>1. FlowInv' /\ ExitRule
      BY <2>6, HostClosesStep
    <3>2. QED
      BY <3>1
  <2>7. ASSUME NEW c \in Calls, Flush(c) PROVE FlowInv' /\ ExitRule
    BY <2>7, FlushStep
  <2>8. ASSUME NEW c \in Calls, Mount(c) PROVE FlowInv' /\ ExitRule
    BY <2>8, MountStep
  <2>9. ASSUME NEW c \in Calls, Reattach(c) PROVE FlowInv' /\ ExitRule
    BY <2>9, ReattachStep
  <2>10. ASSUME NEW c \in Calls, Detached(c) PROVE FlowInv' /\ ExitRule
    BY <2>10, DetachedStep
  <2>11. ASSUME NEW c \in Calls, NEW z \in 1..MaxSnap, Attached(c, z)
         PROVE  FlowInv' /\ ExitRule
    BY <2>11, AttachedStep
  <2>12. ASSUME NEW c \in Calls, Refused(c) PROVE FlowInv' /\ ExitRule
    BY <2>12, RefusedStep
  <2>13. QED
    BY <1>2, <2>1, <2>2, <2>3, <2>4, <2>5, <2>6, <2>7, <2>8, <2>9, <2>10, <2>11, <2>12
       DEF Next
<1>3. QED
  BY <1>1, <1>2

\* The bookkeeping of queues, credit, streams and calls holds in every state,
\* and once more tightly as long as no call of attachPanel has begun while
\* another awaits the daemon (terminals.cjs, createEntry to closeHost).
THEOREM FlowInvariant == Spec => []FlowInv
<1>1. Init => FlowInv
  BY InitFlow
<1>2. FlowInv /\ [Next]_vars => FlowInv'
  BY FlowStep
<1>3. QED
  BY <1>1, <1>2, PTL DEF Spec

\* Every variable keeps its type, whatever the credit and the limits are.
THEOREM TypeCorrect == Spec => []TypeOK
<1>1. FlowInv => TypeOK
  BY DEF FlowInv, Base
<1>2. QED
  BY <1>1, FlowInvariant, PTL

\* What the renderer is sent continues what it shows or is a snapshot, whatever
\* is flushed, dropped and attached again (onBytes, flush, overflow, closeHost).
THEOREM ScreenNeverTears == Spec => []NoTear
<1>1. FlowInv => NoTear
  BY DEF FlowInv, Alone, NoTear
<1>2. QED
  BY <1>1, FlowInvariant, PTL

\* The credit an entry counts is what the renderer owes, across overflows, the
\* snapshots after them and the entries that are replaced (ack, attachPanel).
THEOREM CreditAddsUp == Spec => []Accounted
<1>1. FlowInv => Accounted
  <2> SUFFICES ASSUME FlowInv, InPanel
               PROVE  entry[panel].inFlight + entry[panel].stale = owes + lost
    BY DEF Accounted
  <2>1. panel \in Calls /\ Live(panel) /\ mounted /\ Alone
    BY BaseTypes DEF InPanel, FlowInv, Base, PanelLive
  <2>2. QED
    BY <2>1 DEF Alone, Owed
<1>2. QED
  BY <1>1, FlowInvariant, PTL

\* The end of a session is told behind the output that came before it, never
\* in front of bytes that wait for credit or for a snapshot (settle).
THEOREM ExitIsLast == Spec => ExitComesLast
<1>1. FlowInv /\ [Next]_vars =>
        [(~told /\ told' /\ hostUp' /\ InPanel /\ at[panel] = "open" /\ panel' = panel)
            => shown' >= exitAt']_vars
  BY FlowStep DEF ExitRule
<1>2. QED
  BY <1>1, FlowInvariant, PTL DEF Spec, ExitComesLast

=============================================================================
