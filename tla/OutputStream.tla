---------------------------- MODULE OutputStream ----------------------------
(***************************************************************************)
(* The output of one session on its way to one client: the holder's ring   *)
(* and its bounded queue (sushiai-hold), the actor that numbers the bytes  *)
(* and feeds its screen (session.rs), the stream task and the outbox of    *)
(* the client's connection (server.rs), and the client that puts snapshots *)
(* and output together (electron/daemon/client.cjs).                       *)
(*                                                                         *)
(* A process counts its bytes from 0; `first` makes the number of a byte   *)
(* unique over all processes of the session.  A chunk is an interval.      *)
(*                                                                         *)
(* Out of the model: sizes and their marks, the exit of a session that is  *)
(* not put to sleep (SessionActor), a holder that is killed, output of a   *)
(* process that outlives the agent.  A task that is aborted stops at once. *)
(***************************************************************************)
EXTENDS Integers, Sequences, FiniteSetsExt

CONSTANTS
    RingCap,      \* bytes the holder's ring keeps (RING_BYTES)
    HoldQueue,    \* CLIENT_QUEUE of the holder
    Backlog,      \* OUTPUT_BACKLOG of the actor's broadcast channel
    Outbox,       \* OUTBOX of a client connection
    MaxWrite,     \* bound: bytes the processes write
    Lives,        \* bound: processes of the session
    NAttach,      \* bound: attaches of the client
    NRestarts     \* bound: restarts of the daemon

ASSUME StreamAssumption ==
    /\ RingCap \in Nat \ {0} /\ Backlog \in Nat \ {0} /\ Outbox \in Nat \ {0}
    /\ HoldQueue \in Nat /\ HoldQueue >= 2
    /\ MaxWrite \in Nat /\ Lives \in Nat \ {0}
    /\ NAttach \in Nat /\ NRestarts \in Nat

None == 0
Nowhere == -1

VARIABLES
    first,     \* bytes the earlier processes of the session have written
    written,   \* bytes this process has written: the end of the ring
    ended,     \* the process has ended
    link,      \* the actor's connection to the holder
    \* the actor: is there an agent, is it being put to sleep, what its screen
    \* was fed, by offset of the session's stream, the offset of this process,
    \* and the screen in the tail file
    agent, sleeping, log, base, tail,
    life, restarts,
    \* the server's side of the client's connection: requests not yet read, the
    \* attach under way, the stream task, and what goes to the client
    requests, serving, stream, wire,
    client, calls

holderVars == <<first, written, ended>>
actorVars == <<agent, sleeping, log, base, tail, life, restarts>>
serverVars == <<requests, serving, stream, wire>>
vars == <<holderVars, link, actorVars, serverVars, client, calls>>

-----------------------------------------------------------------------------
(* Offsets. *)

\* Entries of `log` that are no byte: one of the two of "\x1bc", and a byte the
\* ring had dropped.
Reset == -1
Gap == 0

\* What a screen shows that was fed with l: everything since the last reset.  A
\* gap leaves no trace on a screen; here it counts, so that two screens that
\* show the same have it in the same place.
Shown(l) ==
    LET resets == {i \in 1..Len(l) : l[i] = Reset}
        start == IF resets = {} THEN 0 ELSE Max(resets)
    IN  SubSeq(l, start + 1, Len(l))

\* A screen that gets the part d of the stream.
Fed(shows, d) == IF d # <<>> /\ Head(d) = Reset THEN <<>> ELSE shows \o d

Gaps(n) == [i \in 1..n |-> Gap]
\* The bytes of this process at the offsets from..to - 1.
Bytes(from, to) == [i \in 1..(to - from) |-> first + from + i]

RingBase == IF written > RingCap THEN written - RingCap ELSE 0
\* Ring::read_from
ReadFrom(seq) ==
    IF seq < RingBase THEN RingBase ELSE IF seq > written THEN written ELSE seq

-----------------------------------------------------------------------------
(* The connection to the holder. *)

NoLink == [on |-> FALSE, up |-> FALSE, asked |-> Nowhere, attached |-> FALSE,
           frames |-> <<>>]
NewLink(from) == [NoLink EXCEPT !.on = TRUE, !.up = TRUE, !.asked = from]

OutFrame(from, to) == [kind |-> "output", from |-> from, to |-> to]
ExitFrame == [kind |-> "exited", from |-> 0, to |-> 0]

\* Mutant: the queue of a client has no bound.
EnqueuedUnbounded(l, f) == {[l EXCEPT !.frames = Append(@, f)]}

\* enqueue: a client whose queue is full is dropped.  It may still read what
\* the socket has taken.
Enqueued(l, f) ==
    IF Len(l.frames) < HoldQueue THEN {[l EXCEPT !.frames = Append(@, f)]}
    ELSE {[l EXCEPT !.up = FALSE, !.frames = SubSeq(@, 1, k)] : k \in 0..Len(l.frames)}

\* What becomes of the connection when the holder has f for its client.
Sent(f) == IF link.up /\ link.attached THEN Enqueued(link, f) ELSE {link}

\* pump_output
Write(n) ==
    /\ agent = "on" /\ ~ended /\ first + written + n <= MaxWrite
    /\ written' = written + n
    /\ link' \in Sent(OutFrame(written, written + n))
    /\ UNCHANGED <<first, ended, actorVars, serverVars, client, calls>>

\* The process ends after its TERM, and the holder delivers that.
End ==
    /\ sleeping /\ ~ended /\ ended' = TRUE
    /\ link' \in Sent(ExitFrame)
    /\ UNCHANGED <<first, written, actorVars, serverVars, client, calls>>

\* hold.attach: the replay, then live output, then the exit if there was one.
HoldAttach ==
    LET start == ReadFrom(link.asked)
        replay == IF start < written THEN <<OutFrame(start, written)>> ELSE <<>>
    IN
    /\ link.up /\ link.asked # Nowhere
    /\ link' = [link EXCEPT !.asked = Nowhere, !.attached = TRUE,
                            !.frames = replay \o (IF ended THEN <<ExitFrame>> ELSE <<>>)]
    /\ UNCHANGED <<holderVars, actorVars, serverVars, client, calls>>

-----------------------------------------------------------------------------
(* The actor. *)

Seq0 == Len(log)   \* self.seq

NoStream == [on |-> FALSE, phase |-> "recv", next |-> 0, rx |-> <<>>, lag |-> FALSE,
             msg |-> None]
NotServing == [phase |-> "idle", n |-> None, rx |-> <<>>, lag |-> FALSE,
               snap |-> None]

\* A receiver of the broadcast channel gets chunk c.
Heard(r, c) ==
    IF Len(r.rx) < Backlog THEN [r EXCEPT !.rx = Append(@, c)]
    ELSE [r EXCEPT !.rx = Append(Tail(@), c), !.lag = TRUE]

\* Everybody subscribed gets the chunk from..to - 1.
Publish(from, to) ==
    LET c == [from |-> from, to |-> to] IN
    /\ stream' = IF stream.on THEN Heard(stream, c) ELSE stream
    /\ serving' = IF serving.phase \in {"answered", "replying"}
                  THEN Heard(serving, c) ELSE serving

\* output_chunk: bytes seen already are skipped, a gap moves the offset on.
OutputChunk(f) ==
    LET seq == f.from + base
        end == f.to + base
        from == IF seq < Seq0 THEN Seq0 ELSE seq
    IN  IF end <= from
        THEN UNCHANGED <<log, stream, serving>>
        ELSE /\ log' = log \o Gaps(from - Seq0) \o Bytes(from - base, f.to)
             /\ Publish(from, end)

ReadOutput ==
    /\ link.on /\ link.frames # <<>> /\ Head(link.frames).kind = "output"
    /\ OutputChunk(Head(link.frames))
    /\ link' = [link EXCEPT !.frames = Tail(@)]
    /\ UNCHANGED <<holderVars, agent, sleeping, base, tail, life, restarts,
                   requests, wire, client, calls>>

\* hibernated: the connection and the screen are dropped.
ReadExit ==
    /\ link.on /\ link.frames # <<>> /\ Head(link.frames).kind = "exited"
    /\ agent' = "asleep" /\ sleeping' = FALSE
    /\ link' = NoLink
    /\ UNCHANGED <<holderVars, log, base, tail, life, restarts, serverVars, client, calls>>

\* holder_lost
ReadEof ==
    /\ link.on /\ ~link.up /\ link.frames = <<>>
    /\ link' = NoLink
    /\ UNCHANGED <<holderVars, actorVars, serverVars, client, calls>>

\* Mutant: the offset in the session's stream is taken for one of the holder's.
ResumeAtSeq == Seq0

\* reconnect: everything after the last byte seen.
ResumeAt == Seq0 - base
Reconnect ==
    /\ agent = "on" /\ ~link.on
    /\ link' = NewLink(ResumeAt)
    /\ UNCHANGED <<holderVars, actorVars, serverVars, client, calls>>

\* go_to_sleep
GoToSleep ==
    /\ agent = "on" /\ link.on /\ ~sleeping
    /\ sleeping' = TRUE /\ tail' = Shown(log)
    /\ UNCHANGED <<holderVars, link, agent, log, base, life, restarts, serverVars, client, calls>>

\* begin_wake: clients clear their terminal, the new process starts there.
BeginWake ==
    /\ agent = "asleep" /\ life < Lives
    /\ agent' = "starting" /\ life' = life + 1
    /\ log' = log \o <<Reset, Reset>> /\ base' = Seq0 + 2
    /\ Publish(Seq0, Seq0 + 2)
    /\ first' = first + written /\ written' = 0 /\ ended' = FALSE
    /\ UNCHANGED <<link, sleeping, tail, restarts, requests, wire, client, calls>>

\* spawned: attach to the new holder from its first byte.
Spawned ==
    /\ agent = "starting" /\ agent' = "on"
    /\ link' = NewLink(0)
    /\ UNCHANGED <<holderVars, sleeping, log, base, tail, life, restarts,
                   serverVars, client, calls>>

\* wake_failed
WakeFailed ==
    /\ agent = "starting" /\ agent' = "asleep"
    /\ UNCHANGED <<holderVars, link, sleeping, log, base, tail, life, restarts,
                   serverVars, client, calls>>

\* snap: a sleeping session shows its tail.
Snap == [at |-> Seq0, slept |-> agent = "asleep",
         shows |-> IF agent = "asleep" THEN tail ELSE Shown(log)]

-----------------------------------------------------------------------------
(* The server's side of the client's connection. *)

\* The next request: session.detach ends the stream, session.attach is answered
\* by the actor, a subscription and a snapshot in one step.
ReadRequest ==
    /\ requests # <<>> /\ serving.phase = "idle"
    /\ requests' = Tail(requests)
    /\ IF Head(requests) = None
       THEN stream' = NoStream /\ UNCHANGED serving
       ELSE /\ serving' = [NotServing EXCEPT !.phase = "answered",
                                             !.n = Head(requests), !.snap = Snap]
            /\ UNCHANGED stream
    /\ UNCHANGED <<holderVars, link, actorVars, wire, client, calls>>

\* attach: the client's old stream ends.
Attached ==
    /\ serving.phase = "answered"
    /\ serving' = [serving EXCEPT !.phase = "replying"]
    /\ stream' = NoStream
    /\ UNCHANGED <<holderVars, link, actorVars, requests, wire, client, calls>>

SnapMsg(kind, n, s) == [kind |-> kind, n |-> n, from |-> s.at, to |-> s.at,
                        shows |-> s.shows, slept |-> s.slept]
OutMsg(c) == [kind |-> "output", n |-> None, from |-> c.from, to |-> c.to,
              shows |-> <<>>, slept |-> FALSE]

\* The response is queued, then the stream starts from the snapshot's offset.
Reply ==
    /\ serving.phase = "replying" /\ Len(wire) < Outbox
    /\ wire' = Append(wire, SnapMsg("response", serving.n, serving.snap))
    /\ stream' = [NoStream EXCEPT !.on = TRUE, !.next = serving.snap.at,
                                  !.rx = serving.rx, !.lag = serving.lag]
    /\ serving' = NotServing
    /\ UNCHANGED <<holderVars, link, actorVars, requests, client, calls>>

\* Mutants: a gap is forwarded; a gap is skipped.
TakesGap(s) ==
    LET c == Head(s.rx)
        e == [s EXCEPT !.rx = Tail(@)]
    IN  IF s.lag THEN [s EXCEPT !.lag = FALSE]
        ELSE IF c.to <= s.next THEN e
        ELSE [e EXCEPT !.phase = "send", !.msg = OutMsg(c)]
TakesNoGap(s) ==
    LET c == Head(s.rx)
        e == [s EXCEPT !.rx = Tail(@)]
    IN  IF s.lag THEN [s EXCEPT !.lag = FALSE]
        ELSE IF c.to <= s.next \/ c.from > s.next THEN e
        ELSE [e EXCEPT !.phase = "send", !.msg = OutMsg(c)]

\* stream_output: what the task makes of the next chunk, or of a lag.
Takes(s) ==
    LET c == Head(s.rx)
        e == [s EXCEPT !.rx = Tail(@)]
    IN  IF s.lag THEN [s EXCEPT !.phase = "resync", !.lag = FALSE]
        ELSE IF c.to <= s.next THEN e
        ELSE IF c.from <= s.next THEN [e EXCEPT !.phase = "send", !.msg = OutMsg(c)]
        ELSE [e EXCEPT !.phase = "resync"]

StreamTakes ==
    /\ stream.on /\ stream.phase = "recv" /\ stream.rx # <<>>
    /\ stream' = Takes(stream)
    /\ UNCHANGED <<holderVars, link, actorVars, requests, serving, wire, client, calls>>

\* Cmd::Snapshot
StreamResyncs ==
    /\ stream.on /\ stream.phase = "resync"
    /\ stream' = [stream EXCEPT !.phase = "send", !.msg = SnapMsg("snapshot", None, Snap)]
    /\ UNCHANGED <<holderVars, link, actorVars, requests, serving, wire, client, calls>>

StreamSends ==
    /\ stream.on /\ stream.phase = "send" /\ Len(wire) < Outbox
    /\ wire' = Append(wire, stream.msg)
    /\ stream' = [stream EXCEPT !.phase = "recv", !.next = stream.msg.to, !.msg = None]
    /\ UNCHANGED <<holderVars, link, actorVars, requests, serving, client, calls>>

-----------------------------------------------------------------------------
(* The client. *)

\* n: the attach that `attached` has; waiting: its request is under way;
\* resolved: the response was read, the code after the await has not run yet;
\* overtaken: a pushed snapshot came before the answer, or the answer was put
\* over newer output; slept: the snapshot
\* shown is the tail of a sleeping session.
Off == [n |-> None, waiting |-> FALSE, syncing |-> FALSE, queue |-> <<>>,
        next |-> 0, shows |-> <<>>, slept |-> FALSE, resolved |-> <<>>,
        overtaken |-> FALSE]

\* deliver
Delivered(c, m) ==
    IF m.to <= c.next THEN c
    ELSE [c EXCEPT !.next = m.to, !.slept = FALSE,
                   !.shows = Fed(@, SubSeq(log, Max({m.from, c.next}) + 1, m.to))]

\* applySnapshot, up to the output that waited for it.
Applied(c, m) ==
    [c EXCEPT !.next = m.to, !.shows = m.shows, !.slept = m.slept,
              !.syncing = FALSE]

\* Its loop over that output, a frame per step; the client does nothing else
\* before it is through.
Draining == ~client.syncing /\ client.queue # <<>>
DeliverQueued ==
    /\ Draining
    /\ client' = [Delivered(client, Head(client.queue)) EXCEPT !.queue = Tail(@)]
    /\ UNCHANGED <<holderVars, link, actorVars, serverVars, calls>>

Attach(n) ==
    /\ client.n = None /\ n = calls + 1
    /\ calls' = n
    /\ client' = [Off EXCEPT !.n = n, !.waiting = TRUE, !.syncing = TRUE]
    /\ requests' = Append(requests, n)
    /\ UNCHANGED <<holderVars, link, actorVars, serving, stream, wire>>

\* The request times out: the answer, if it comes, finds nobody.
TimeOut ==
    /\ client.waiting /\ client.resolved = <<>> /\ ~Draining
    /\ client' = Off
    /\ UNCHANGED <<holderVars, link, actorVars, serverVars, calls>>

Detach ==
    /\ client.n # None /\ ~client.waiting /\ ~Draining
    /\ client' = Off
    /\ requests' = Append(requests, None)
    /\ UNCHANGED <<holderVars, link, actorVars, serving, stream, wire, calls>>

\* onFrame: a client that has no terminal attached drops what it reads.
OnFrame(m) ==
    IF client.n = None THEN UNCHANGED client
    ELSE CASE m.kind = "response" ->
                client' = IF m.n = client.n /\ client.waiting
                          THEN [client EXCEPT !.resolved = <<m>>] ELSE client
           [] m.kind = "snapshot" ->
                client' = [Applied(client, m) EXCEPT !.overtaken = @ \/ client.waiting]
           [] m.kind = "output" ->
                client' = IF client.syncing THEN [client EXCEPT !.queue = Append(@, m)]
                          ELSE Delivered(client, m)

ClientReads ==
    /\ wire # <<>> /\ wire' = Tail(wire) /\ ~Draining
    /\ OnFrame(Head(wire))
    /\ UNCHANGED <<holderVars, link, actorVars, requests, serving, stream, calls>>

\* The code after the await of session.attach.  More of what came in one read
\* of the socket may have been handled before it.
AttachResolves ==
    /\ client.resolved # <<>> /\ ~Draining
    /\ client' = [Applied(client, client.resolved[1]) EXCEPT
                    !.waiting = FALSE, !.resolved = <<>>,
                    !.overtaken = ~client.syncing /\ client.next > client.resolved[1].to]
    /\ UNCHANGED <<holderVars, link, actorVars, serverVars, calls>>

NoConnection ==
    /\ requests' = <<>> /\ serving' = NotServing /\ stream' = NoStream
    /\ wire' = <<>> /\ client' = Off

\* The connection of the client is lost.
ConnectionLost ==
    /\ NoConnection
    /\ UNCHANGED <<holderVars, link, actorVars, calls>>

\* The daemon restarts (attach_and_replay, spawn_actor, start_hibernated): the
\* replay of the ring is all the screen gets, or a part of it when the holder
\* drops the daemon in the middle.
Restart(k) ==
    /\ restarts < NRestarts /\ restarts' = restarts + 1
    /\ ~sleeping /\ agent # "starting"
    /\ base' = 0
    /\ IF agent = "asleep"
       THEN k = 0 /\ log' = <<>> /\ UNCHANGED link
       ELSE /\ k \in RingBase..written
            /\ log' = Gaps(RingBase) \o Bytes(RingBase, k)
            /\ link' = [NewLink(Nowhere) EXCEPT !.attached = TRUE, !.up = k = written]
    /\ NoConnection
    /\ UNCHANGED <<holderVars, agent, sleeping, tail, life, calls>>

-----------------------------------------------------------------------------
Init ==
    /\ first = 0 /\ written = 0 /\ ended = FALSE
    /\ link = [NewLink(Nowhere) EXCEPT !.attached = TRUE]
    /\ agent = "on" /\ sleeping = FALSE /\ log = <<>> /\ base = 0 /\ tail = <<>>
    /\ life = 1 /\ restarts = 0
    /\ requests = <<>> /\ serving = NotServing /\ stream = NoStream /\ wire = <<>>
    /\ client = Off /\ calls = 0

Actor == ReadOutput \/ ReadExit \/ ReadEof \/ Reconnect \/ Spawned \/ WakeFailed
Server == ReadRequest \/ Attached \/ Reply
          \/ StreamTakes \/ StreamResyncs \/ StreamSends
Client == ClientReads \/ AttachResolves \/ DeliverQueued

Next ==
    \/ \E n \in 1..MaxWrite : Write(n)
    \/ End \/ HoldAttach
    \/ Actor \/ GoToSleep \/ BeginWake
    \/ Server
    \/ Client
    \/ \E n \in 1..NAttach : Attach(n)
    \/ TimeOut \/ Detach \/ ConnectionLost
    \/ \E k \in 0..MaxWrite : Restart(k)

Spec == Init /\ [][Next]_vars

\* The daemon's tasks and the holder run, and the client reads.
Fairness ==
    /\ WF_vars(HoldAttach)
    /\ WF_vars(ReadOutput) /\ WF_vars(ReadExit) /\ WF_vars(ReadEof)
    /\ WF_vars(Reconnect) /\ WF_vars(Spawned \/ WakeFailed)
    /\ WF_vars(ReadRequest) /\ WF_vars(Attached)
    /\ WF_vars(Reply)
    /\ WF_vars(StreamTakes) /\ WF_vars(StreamResyncs) /\ WF_vars(StreamSends)
    /\ WF_vars(ClientReads) /\ WF_vars(AttachResolves)
    /\ WF_vars(DeliverQueued)
FairSpec == Spec /\ Fairness

-----------------------------------------------------------------------------
Offsets == 0..(MaxWrite + 2 * Lives)
Intervals == [from : Offsets, to : Offsets]

TypeOK ==
    /\ first \in Nat /\ written \in 0..MaxWrite /\ ended \in BOOLEAN
    /\ agent \in {"on", "asleep", "starting"} /\ sleeping \in BOOLEAN
    /\ Len(log) \in Offsets /\ base \in 0..Len(log)
    /\ link.asked \in {Nowhere} \union 0..MaxWrite
    /\ Len(link.frames) <= HoldQueue
    /\ \A r \in {stream, serving} :
            Len(r.rx) <= Backlog /\ \A i \in 1..Len(r.rx) : r.rx[i] \in Intervals
    /\ Len(wire) <= Outbox
    /\ stream.next \in Offsets /\ client.next \in Offsets

\* Every byte of the process is on the screen of the actor once, at its offset,
\* whatever the holder replays: only what the ring had dropped is missing, and
\* a process that has ended has been read to its end (output_chunk, reconnect,
\* begin_wake).
FeedIsWhole ==
    LET read == Len(log) - base IN
    /\ \A i \in 1..read :
            log[base + i] = first + i \/ (log[base + i] = Gap /\ i <= RingBase)
    /\ agent = "asleep" /\ written > 0 /\ restarts = 0 => read = written

\* A client that has its snapshot shows exactly what the actor's screen showed
\* at the client's offset, or the tail of a session that slept then: no byte
\* twice and none missing, whatever lags, overlaps or is attached again
\* (stream_output, deliver, applySnapshot).
ScreenIsRight ==
    client.n # None /\ ~client.syncing /\ ~client.overtaken =>
        client.slept \/ client.shows = Shown(SubSeq(log, 1, client.next))

\* A client that stays attached ends up with everything the process wrote that
\* the ring did not drop (Lagged in stream_output, holder_lost, reconnect).
CatchesUp ==
    []<>(client.n # None /\ ~client.overtaken =>
            /\ client.next = Len(log)
            /\ agent = "on" => Len(log) = base + written)
=============================================================================
