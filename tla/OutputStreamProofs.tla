------------------------ MODULE OutputStreamProofs -------------------------
(***************************************************************************)
(* Proofs about OutputStream for every value of its constants: its types   *)
(* and the bounds of its queues, that the actor's screen is fed every byte *)
(* once at its offset, and that an attached client shows what the actor's  *)
(* screen showed at the client's offset.                                   *)
(***************************************************************************)
EXTENDS OutputStream, TLAPS, WellFoundedInduction

-----------------------------------------------------------------------------
Frames == [kind : {"output", "exited"}, from : Nat, to : Nat]
Links == [on : BOOLEAN, up : BOOLEAN, asked : Int, attached : BOOLEAN,
          frames : Seq(Frames)]

\* Where the ring begins when w bytes were written.
RingStart(w) == IF w > RingCap THEN w - RingCap ELSE 0

\* The actor that has read r bytes has read p once it reaches frame i of fs.
Reaches(r, fs, p, i) ==
    p <= r \/ \E j \in 1..(i - 1) : fs[j].kind = "output" /\ p <= fs[j].to

\* A frame joins what comes before it, or begins where the ring did; the exit
\* comes after everything the process wrote.
FrameIn(r, w, e, fs, i) ==
    /\ fs[i].kind = "output" =>
          /\ fs[i].from < fs[i].to /\ fs[i].to <= w
          /\ Reaches(r, fs, fs[i].from, i) \/ fs[i].from <= RingStart(w)
    /\ fs[i].kind = "exited" => e /\ Reaches(r, fs, w, i)
FramesIn(r, w, e, fs) == \A i \in 1..Len(fs) : FrameIn(r, w, e, fs, i)

\* The connection k of an actor that has read r of the w bytes.
LinkIn(k, r, w, e) ==
    /\ k \in Links
    /\ ~k.on => k = NoLink
    /\ k.asked # Nowhere => ~k.attached /\ k.asked = r
    /\ ~k.attached => k.frames = <<>>
    /\ Len(k.frames) <= HoldQueue
    /\ FramesIn(r, w, e, k.frames)
    /\ k.up /\ k.attached => Reaches(r, k.frames, w, Len(k.frames) + 1)

\* Two sequences one after the other.
LEMMA ConcatFacts ==
    ASSUME NEW S, NEW s \in Seq(S), NEW t \in Seq(S)
    PROVE  /\ s \o t \in Seq(S) /\ Len(s \o t) = Len(s) + Len(t)
           /\ Len(s) \in Nat /\ Len(t) \in Nat
           /\ \A i \in 1..Len(s) : (s \o t)[i] = s[i]
           /\ \A i \in 1..Len(t) : (s \o t)[Len(s) + i] = t[i]
  OBVIOUS

\* k is s, a long, and then t, c long; all of numbers.
Joined(k, s, a, t, c) ==
    /\ k \in Seq(Int) /\ Len(k) = a + c
    /\ \A i \in 1..a : k[i] = s[i]
    /\ \A i \in 1..c : k[a + i] = t[i]

LEMMA IntConcat ==
    ASSUME NEW s \in Seq(Int), NEW t \in Seq(Int)
    PROVE  Joined(s \o t, s, Len(s), t, Len(t))
  <1>1. /\ s \o t \in Seq(Int) /\ Len(s \o t) = Len(s) + Len(t)
        /\ \A i \in 1..Len(s) : (s \o t)[i] = s[i]
        /\ \A i \in 1..Len(t) : (s \o t)[Len(s) + i] = t[i]
    OBVIOUS
  <1> QED BY <1>1 DEF Joined

LEMMA RingStartGrows ==
    ASSUME NEW w \in Nat, NEW n \in Nat
    PROVE  /\ RingStart(w) \in 0..w /\ RingStart(w) <= RingStart(w + n)
           /\ RingStart(w + n) \in Nat
  BY StreamAssumption DEF RingStart

LEMMA NoLinkIn ==
    ASSUME NEW r \in Nat, NEW w \in Nat, NEW e \in BOOLEAN
    PROVE  LinkIn(NoLink, r, w, e)
  <1>1. NoLink \in Links
    BY DEF NoLink, Links, Nowhere, Frames
  <1> QED
    BY <1>1, StreamAssumption DEF LinkIn, NoLink, FramesIn

LEMMA NewLinkIn ==
    ASSUME NEW r \in Nat, NEW w \in Nat, NEW e \in BOOLEAN
    PROVE  LinkIn(NewLink(r), r, w, e)
  <1>1. NoLink \in Links
    BY DEF NoLink, Links, Nowhere, Frames
  <1>2. r \in Int /\ NoLink.frames = <<>> /\ NoLink.attached = FALSE
    BY DEF NoLink
  <1>3. /\ NewLink(r) \in Links
        /\ NewLink(r).on = TRUE /\ NewLink(r).up = TRUE /\ NewLink(r).asked = r
        /\ NewLink(r).attached = FALSE /\ NewLink(r).frames = <<>>
    BY <1>1, <1>2 DEF NewLink, Links
  <1> QED
    BY <1>3, StreamAssumption DEF LinkIn, FramesIn

\* What the frames in the queue say stays true when more is written.
LEMMA MoreWritten ==
    ASSUME NEW r \in Nat, NEW w \in Nat, NEW n \in Nat,
           NEW fs \in Seq(Frames), FramesIn(r, w, FALSE, fs)
    PROVE  FramesIn(r, w + n, FALSE, fs)
  <1> SUFFICES ASSUME NEW i \in 1..Len(fs)
               PROVE  FrameIn(r, w + n, FALSE, fs, i)
    BY DEF FramesIn
  <1>1. FrameIn(r, w, FALSE, fs, i)
    BY DEF FramesIn
  <1>2. fs[i] \in Frames
    OBVIOUS
  <1>3. RingStart(w) \in 0..w /\ RingStart(w) <= RingStart(w + n)
    BY RingStartGrows
  <1>4. RingStart(w + n) \in Nat
    BY RingStartGrows
  <1> QED
    BY <1>1, <1>2, <1>3, <1>4 DEF FrameIn, Frames

LEMMA MoreWrittenLink ==
    ASSUME NEW r \in Nat, NEW w \in Nat, NEW n \in Nat, NEW k,
           LinkIn(k, r, w, FALSE), ~(k.up /\ k.attached)
    PROVE  LinkIn(k, r, w + n, FALSE)
  <1>1. k.frames \in Seq(Frames)
    BY DEF LinkIn, Links
  <1>2. FramesIn(r, w + n, FALSE, k.frames)
    BY <1>1, MoreWritten DEF LinkIn
  <1> QED
    BY <1>2 DEF LinkIn

\* The process ends.
LEMMA EndedFrames ==
    ASSUME NEW r \in Nat, NEW w \in Nat, NEW fs \in Seq(Frames), FramesIn(r, w, FALSE, fs)
    PROVE  FramesIn(r, w, TRUE, fs)
  BY DEF FramesIn, FrameIn

\* A frame at the end of the queue.
LEMMA FramesAppend ==
    ASSUME NEW r \in Nat, NEW w \in Nat, NEW e \in BOOLEAN,
           NEW fs \in Seq(Frames), NEW f \in Frames,
           FramesIn(r, w, e, fs),
           f.kind = "output" =>
                /\ f.from < f.to /\ f.to <= w
                /\ \/ Reaches(r, fs, f.from, Len(fs) + 1)
                   \/ f.from <= RingStart(w),
           f.kind = "exited" => e /\ Reaches(r, fs, w, Len(fs) + 1)
    PROVE  FramesIn(r, w, e, Append(fs, f))
  <1> DEFINE gs == Append(fs, f)
  <1>1. /\ Len(gs) = Len(fs) + 1 /\ gs[Len(fs) + 1] = f
        /\ \A i \in 1..Len(fs) : gs[i] = fs[i]
    OBVIOUS
  <1> HIDE DEF gs
  <1>2. Len(fs) \in Nat
    OBVIOUS
  <1>3. ASSUME NEW i \in 1..(Len(fs) + 1), NEW p, Reaches(r, fs, p, i)
        PROVE  Reaches(r, gs, p, i)
    <2>1. \A j \in 1..(i - 1) : gs[j] = fs[j]
      BY <1>1, <1>2
    <2> QED BY <1>3, <2>1 DEF Reaches
  <1> SUFFICES ASSUME NEW i \in 1..Len(gs)
               PROVE  FrameIn(r, w, e, gs, i)
    BY DEF FramesIn, gs
  <1>4. CASE i \in 1..Len(fs)
    <2>1. FrameIn(r, w, e, fs, i) /\ gs[i] = fs[i]
      BY <1>1, <1>4 DEF FramesIn
    <2>2. i \in 1..(Len(fs) + 1)
      BY <1>2, <1>4
    <2>3. \A p : Reaches(r, fs, p, i) => Reaches(r, gs, p, i)
      BY <1>3, <2>2
    <2> QED BY <2>1, <2>3 DEF FrameIn
  <1>5. CASE i = Len(fs) + 1
    <2>1. \A p : Reaches(r, fs, p, i) => Reaches(r, gs, p, i)
      BY <1>1, <1>2, <1>3, <1>5
    <2>2. gs[i] = f
      BY <1>1, <1>5
    <2> QED BY <1>5, <2>1, <2>2 DEF FrameIn
  <1> QED BY <1>1, <1>2, <1>4, <1>5

\* The first k frames.
LEMMA FramesCut ==
    ASSUME NEW r \in Nat, NEW w \in Nat, NEW e \in BOOLEAN,
           NEW fs \in Seq(Frames), NEW k \in 0..Len(fs), FramesIn(r, w, e, fs)
    PROVE  FramesIn(r, w, e, SubSeq(fs, 1, k))
  <1> DEFINE gs == SubSeq(fs, 1, k)
  <1>1. Len(gs) = k /\ \A i \in 1..k : gs[i] = fs[i]
    OBVIOUS
  <1> HIDE DEF gs
  <1> SUFFICES ASSUME NEW i \in 1..k PROVE FrameIn(r, w, e, gs, i)
    BY <1>1 DEF FramesIn, gs
  <1>2. i \in 1..Len(fs) /\ \A j \in 1..i : gs[j] = fs[j]
    BY <1>1
  <1>3. FrameIn(r, w, e, fs, i) /\ gs[i] = fs[i]
    BY <1>2 DEF FramesIn
  <1>4. ASSUME NEW p, Reaches(r, fs, p, i)
        PROVE  Reaches(r, gs, p, i)
    <2>1. \A j \in 1..(i - 1) : gs[j] = fs[j]
      BY <1>2
    <2> QED BY <1>4, <2>1 DEF Reaches
  <1> QED BY <1>3, <1>4 DEF FrameIn

\* The first frame is read.
LEMMA FramesTail ==
    ASSUME NEW r \in Nat, NEW w \in Nat, NEW e \in BOOLEAN, NEW s \in Nat,
           NEW fs \in Seq(Frames), fs # <<>>, FramesIn(r, w, e, fs),
           r <= s, fs[1].kind = "output" => fs[1].to <= s
    PROVE  /\ FramesIn(s, w, e, Tail(fs))
           /\ \A p \in Nat : Reaches(r, fs, p, Len(fs) + 1)
                    => Reaches(s, Tail(fs), p, Len(Tail(fs)) + 1)
  <1> DEFINE gs == Tail(fs)
  <1>1. /\ Len(fs) \in Nat /\ Len(fs) > 0 /\ Len(gs) = Len(fs) - 1
        /\ \A i \in 1..Len(gs) : gs[i] = fs[i + 1]
    OBVIOUS
  <1>2. \A i \in 1..Len(fs) : fs[i] \in Frames
    OBVIOUS
  <1> HIDE DEF gs
  <1>3. ASSUME NEW i \in 1..Len(fs), NEW p \in Nat, Reaches(r, fs, p, i + 1)
        PROVE  Reaches(s, gs, p, i)
    <2>1. CASE p <= r
      BY <2>1 DEF Reaches
    <2>2. CASE \E j \in 1..i : fs[j].kind = "output" /\ p <= fs[j].to
      <3>1. PICK j \in 1..i : fs[j].kind = "output" /\ p <= fs[j].to
        BY <2>2
      <3>2. CASE j = 1
        <4>1. fs[1].to \in Nat
          BY <1>1, <1>2 DEF Frames
        <4> QED BY <3>1, <3>2, <4>1 DEF Reaches
      <3>3. CASE j # 1
        <4>1. j - 1 \in 1..(i - 1) /\ j - 1 \in 1..Len(gs) /\ (j - 1) + 1 = j
          BY <1>1, <3>3
        <4>2. gs[j - 1] = fs[j]
          BY <1>1, <4>1
        <4> QED BY <3>1, <4>1, <4>2 DEF Reaches
      <3> QED BY <3>2, <3>3
    <2>3. (i + 1) - 1 = i
      OBVIOUS
    <2> QED BY <1>3, <2>1, <2>2, <2>3 DEF Reaches
  <1>4. ASSUME NEW i \in 1..Len(gs)
        PROVE  FrameIn(s, w, e, gs, i)
    <2>1. i + 1 \in 1..Len(fs) /\ i \in 1..Len(fs) /\ gs[i] = fs[i + 1]
      BY <1>1
    <2>2. FrameIn(r, w, e, fs, i + 1)
      BY <2>1 DEF FramesIn
    <2>3. fs[i + 1] \in Frames
      BY <1>2, <2>1
    <2>4. \A p \in Nat : Reaches(r, fs, p, i + 1) => Reaches(s, gs, p, i)
      BY <1>3, <2>1
    <2> QED BY <2>1, <2>2, <2>3, <2>4 DEF FrameIn, Frames
  <1>5. ASSUME NEW p \in Nat, Reaches(r, fs, p, Len(fs) + 1)
        PROVE  Reaches(s, gs, p, Len(gs) + 1)
    <2>1. Len(gs) + 1 = Len(fs) /\ Len(fs) \in 1..Len(fs)
      BY <1>1
    <2>2. Reaches(s, gs, p, Len(fs))
      BY <1>3, <1>5, <2>1
    <2> QED BY <2>1, <2>2
  <1> QED BY <1>4, <1>5 DEF FramesIn, gs

\* The holder has the frame f for its client.
LEMMA FrameEnqueued ==
    ASSUME NEW r \in Nat, NEW w \in Nat, NEW e \in BOOLEAN, NEW k \in Links,
           k.on, k.up, k.attached, k.asked = Nowhere, Len(k.frames) <= HoldQueue,
           NEW f \in Frames,
           FramesIn(r, w, e, k.frames), FramesIn(r, w, e, Append(k.frames, f)),
           Reaches(r, Append(k.frames, f), w, Len(k.frames) + 2),
           NEW m \in Enqueued(k, f)
    PROVE  LinkIn(m, r, w, e) /\ (m.on => k.on)
  <1> DEFINE fs == k.frames
  <1>1. fs \in Seq(Frames) /\ Len(fs) \in Nat
    BY DEF Links
  <1>2. CASE Len(fs) < HoldQueue
    <2> DEFINE gs == Append(fs, f)
    <2>1. m = [k EXCEPT !.frames = gs]
      BY <1>2 DEF Enqueued
    <2>2. gs \in Seq(Frames) /\ Len(gs) = Len(fs) + 1
      BY <1>1
    <2>3. FramesIn(r, w, e, gs) /\ Reaches(r, gs, w, Len(gs) + 1)
      <3>1. Len(gs) + 1 = Len(fs) + 2
        BY <1>1, <2>2
      <3> QED BY <3>1
    <2> HIDE DEF gs
    <2>4. m \in Links
      BY <2>1, <2>2 DEF Links
    <2>5. /\ m.on = k.on /\ m.asked = k.asked /\ m.up = k.up
          /\ m.attached = k.attached /\ m.frames = gs
      BY <2>1 DEF Links
    <2>6. Len(gs) <= HoldQueue
      BY <1>1, <1>2, <2>2, StreamAssumption
    <2> QED BY <2>3, <2>4, <2>5, <2>6 DEF LinkIn
  <1>3. CASE ~(Len(fs) < HoldQueue)
    <2>1. PICK j \in 0..Len(fs) :
             m = [k EXCEPT !.up = FALSE, !.frames = SubSeq(fs, 1, j)]
      BY <1>3 DEF Enqueued
    <2> DEFINE gs == SubSeq(fs, 1, j)
    <2>2. gs \in Seq(Frames) /\ Len(gs) = j
      BY <1>1
    <2>3. FramesIn(r, w, e, gs)
      BY <1>1, FramesCut
    <2>4. m = [k EXCEPT !.up = FALSE, !.frames = gs]
      BY <2>1
    <2> HIDE DEF gs
    <2>5. m \in Links
      BY <2>4, <2>2 DEF Links
    <2>6. /\ m.on = k.on /\ m.asked = k.asked /\ m.up = FALSE
          /\ m.attached = k.attached /\ m.frames = gs
      BY <2>4 DEF Links
    <2>7. Len(gs) <= HoldQueue
      BY <1>1, <2>2, StreamAssumption
    <2> QED BY <2>3, <2>5, <2>6, <2>7 DEF LinkIn
  <1> QED BY <1>2, <1>3

\* What a connection that is up and attached is like.
LEMMA UpLink ==
    ASSUME NEW r, NEW w, NEW e, NEW k, LinkIn(k, r, w, e), k.up, k.attached
    PROVE  /\ k \in Links /\ k.on /\ k.asked = Nowhere /\ Len(k.frames) <= HoldQueue
           /\ k.frames \in Seq(Frames) /\ Len(k.frames) \in Nat
           /\ FramesIn(r, w, e, k.frames)
           /\ Reaches(r, k.frames, w, Len(k.frames) + 1)
  <1>1. k \in Links /\ FramesIn(r, w, e, k.frames) /\ Len(k.frames) <= HoldQueue
        /\ Reaches(r, k.frames, w, Len(k.frames) + 1) /\ k.asked = Nowhere
    BY DEF LinkIn
  <1>2. k.on
    BY <1>1 DEF LinkIn, NoLink, Links
  <1>3. k.frames \in Seq(Frames) /\ Len(k.frames) \in Nat
    BY <1>1 DEF Links
  <1> QED BY <1>1, <1>2, <1>3

\* The holder has output for the actor.
LEMMA OutputEnqueued ==
    ASSUME NEW r \in Nat, NEW w \in Nat, NEW v \in Nat, w < v, NEW k,
           LinkIn(k, r, w, FALSE), k.up, k.attached,
           NEW m \in Enqueued(k, OutFrame(w, v))
    PROVE  LinkIn(m, r, v, FALSE) /\ (m.on => k.on)
  <1> DEFINE f == OutFrame(w, v)
             fs == k.frames
             gs == Append(fs, f)
  <1>1. /\ k \in Links /\ fs \in Seq(Frames) /\ Len(fs) \in Nat
        /\ FramesIn(r, w, FALSE, fs) /\ Reaches(r, fs, w, Len(fs) + 1)
        /\ k.on /\ k.asked = Nowhere /\ Len(fs) <= HoldQueue
    BY UpLink
  <1>2. f \in Frames /\ f.kind = "output" /\ f.from = w /\ f.to = v
    BY DEF OutFrame, Frames
  <1>3. FramesIn(r, v, FALSE, fs)
    <2>1. PICK n \in Nat : v = w + n
      <3>1. v - w \in Nat /\ v = w + (v - w)
        OBVIOUS
      <3> QED BY <3>1
    <2>2. FramesIn(r, w + n, FALSE, fs)
      BY <1>1, MoreWritten
    <2> QED BY <2>1, <2>2
  <1>4. FALSE \in BOOLEAN /\ v <= v
    OBVIOUS
  <1>5. m \in Enqueued(k, f)
    OBVIOUS
  <1> HIDE DEF f
  <1>6. gs[Len(fs) + 1] = f
    BY <1>1, <1>2
  <1>7. FramesIn(r, v, FALSE, gs)
    <2>1. f.kind = "output" =>
             /\ f.from < f.to /\ f.to <= v
             /\ Reaches(r, fs, f.from, Len(fs) + 1) \/ f.from <= RingStart(v)
      BY <1>1, <1>2, <1>4
    <2>2. f.kind = "exited" => FALSE /\ Reaches(r, fs, v, Len(fs) + 1)
      BY <1>2
    <2> QED BY <1>1, <1>2, <1>3, <1>4, <2>1, <2>2, FramesAppend
  <1>8. Reaches(r, gs, v, Len(fs) + 2)
    <2>1. Len(fs) + 1 \in 1..((Len(fs) + 2) - 1)
      BY <1>1
    <2>2. gs[Len(fs) + 1].kind = "output" /\ v <= gs[Len(fs) + 1].to
      BY <1>2, <1>4, <1>6
    <2> QED BY <2>1, <2>2 DEF Reaches
  <1> QED BY <1>1, <1>2, <1>3, <1>4, <1>5, <1>7, <1>8, FrameEnqueued

\* The process has ended, and the holder has that for the actor.
LEMMA ExitEnqueued ==
    ASSUME NEW r \in Nat, NEW w \in Nat, NEW k,
           LinkIn(k, r, w, FALSE), k.up, k.attached,
           NEW m \in Enqueued(k, ExitFrame)
    PROVE  LinkIn(m, r, w, TRUE) /\ (m.on => k.on)
  <1> DEFINE f == ExitFrame
             fs == k.frames
             gs == Append(fs, f)
  <1>1. /\ k \in Links /\ fs \in Seq(Frames) /\ Len(fs) \in Nat
        /\ FramesIn(r, w, FALSE, fs) /\ Reaches(r, fs, w, Len(fs) + 1)
        /\ k.on /\ k.asked = Nowhere /\ Len(fs) <= HoldQueue
    BY UpLink
  <1>2. f \in Frames /\ f.kind = "exited"
    BY DEF ExitFrame, Frames
  <1>3. FramesIn(r, w, TRUE, fs)
    BY <1>1, EndedFrames
  <1> HIDE DEF f
  <1>4. \A i \in 1..Len(fs) : gs[i] = fs[i]
    BY <1>1, <1>2
  <1>5. TRUE \in BOOLEAN /\ f.kind # "output"
    BY <1>2
  <1>6. FramesIn(r, w, TRUE, gs)
    BY <1>1, <1>2, <1>3, <1>5, FramesAppend
  <1> HIDE DEF gs
  <1>7. Reaches(r, gs, w, Len(fs) + 2)
    <2>1. CASE w <= r
      BY <2>1 DEF Reaches
    <2>2. ASSUME NEW j \in 1..((Len(fs) + 1) - 1), fs[j].kind = "output", w <= fs[j].to
          PROVE  Reaches(r, gs, w, Len(fs) + 2)
      <3>1. j \in 1..Len(fs) /\ j \in 1..((Len(fs) + 2) - 1)
        BY <1>1
      <3>2. gs[j].kind = "output" /\ w <= gs[j].to
        BY <1>4, <2>2, <3>1
      <3> QED BY <3>1, <3>2 DEF Reaches
    <2> QED BY <1>1, <2>1, <2>2 DEF Reaches
  <1> QED
    <2>1. m \in Enqueued(k, f)
      BY DEF f
    <2> QED BY <1>1, <1>2, <1>3, <1>5, <1>6, <1>7, <2>1, FrameEnqueued DEF gs

\* What the holder answers to an attach that asks for the bytes after the r
\* that were read.
Answer(r, w, e) ==
    LET start == IF r < RingStart(w) THEN RingStart(w) ELSE r
        replay == IF start < w THEN <<OutFrame(start, w)>> ELSE <<>>
    IN  replay \o (IF e THEN <<ExitFrame>> ELSE <<>>)

LEMMA AnswerIn ==
    ASSUME NEW w \in Nat, NEW r \in 0..w, NEW e \in BOOLEAN
    PROVE  /\ Answer(r, w, e) \in Seq(Frames) /\ Len(Answer(r, w, e)) <= 2
           /\ FramesIn(r, w, e, Answer(r, w, e))
           /\ Reaches(r, Answer(r, w, e), w, Len(Answer(r, w, e)) + 1)
  <1> DEFINE start == IF r < RingStart(w) THEN RingStart(w) ELSE r
             out == OutFrame(start, w)
             a == Answer(r, w, e)
  <1>1. RingStart(w) \in 0..w /\ (RingStart(w) = w => w = 0)
    BY StreamAssumption DEF RingStart
  <1>2. start \in r..w /\ (start = r \/ start <= RingStart(w))
        /\ (~(start < w) => w <= r)
    BY <1>1
  <1> HIDE DEF start
  <1>3. /\ out \in Frames /\ out.kind = "output" /\ out.from = start /\ out.to = w
        /\ ExitFrame \in Frames /\ ExitFrame.kind = "exited"
    BY <1>2 DEF OutFrame, ExitFrame, Frames
  <1> HIDE DEF out
  <1>4. a = (IF start < w THEN <<out>> ELSE <<>>)
                          \o (IF e THEN <<ExitFrame>> ELSE <<>>)
    BY DEF Answer, start, out
  <1> HIDE DEF a
  <1>5. ASSUME NEW g, g[1] = out, start < w
        PROVE  FrameIn(r, w, e, g, 1)
    <2>1. Reaches(r, g, start, 1) \/ start <= RingStart(w)
      BY <1>2 DEF Reaches
    <2>2. g[1].kind = "output" /\ g[1].from = start /\ g[1].to = w
      BY <1>3, <1>5
    <2>3. start < w /\ w <= w /\ g[1].kind # "exited"
      BY <1>5, <2>2
    <2> QED BY <2>1, <2>2, <2>3 DEF FrameIn
  <1>6. CASE start < w /\ e
    <2> DEFINE x == <<out>>
               y == <<ExitFrame>>
    <2>0. /\ x \in Seq(Frames) /\ Len(x) = 1 /\ x[1] = out
          /\ y \in Seq(Frames) /\ Len(y) = 1 /\ y[1] = ExitFrame
      BY <1>3
    <2>1. a = x \o y
      BY <1>4, <1>6
    <2> HIDE DEF x, y
    <2>2. Len(a) = 2 /\ a[1] = out /\ a[2] = ExitFrame /\ a \in Seq(Frames)
      <3>1. /\ x \o y \in Seq(Frames) /\ Len(x \o y) = Len(x) + Len(y)
            /\ \A i \in 1..Len(x) : (x \o y)[i] = x[i]
            /\ \A i \in 1..Len(y) : (x \o y)[Len(x) + i] = y[i]
        BY <2>0, ConcatFacts
      <3> QED BY <2>0, <2>1, <3>1
    <2>3. Reaches(r, a, w, 2) /\ Reaches(r, a, w, 3)
      <3>1. 1 \in 1..(2 - 1) /\ 1 \in 1..(3 - 1) /\ w <= w
        OBVIOUS
      <3> QED BY <1>3, <2>2, <3>1 DEF Reaches
    <2>4. FrameIn(r, w, e, a, 2)
      BY <1>3, <1>6, <2>2, <2>3 DEF FrameIn
    <2>5. FramesIn(r, w, e, a)
      <3>1. \A i \in 1..2 : i = 1 \/ i = 2
        OBVIOUS
      <3> QED BY <1>5, <1>6, <2>2, <2>4, <3>1 DEF FramesIn
    <2>6. Len(a) + 1 = 3 /\ Len(a) <= 2
      BY <2>2
    <2> QED BY <2>2, <2>3, <2>5, <2>6 DEF a
  <1>7. CASE start < w /\ ~e
    <2>1. a = <<out>>
      BY <1>4, <1>7
    <2>2. Len(a) = 1 /\ a[1] = out /\ a \in Seq(Frames)
      BY <1>3, <2>1
    <2>3. Reaches(r, a, w, 2)
      <3>1. 1 \in 1..(2 - 1) /\ w <= w
        OBVIOUS
      <3> QED BY <1>3, <2>2, <3>1 DEF Reaches
    <2>5. FramesIn(r, w, e, a)
      <3>1. \A i \in 1..1 : i = 1
        OBVIOUS
      <3> QED BY <1>5, <1>7, <2>2, <3>1 DEF FramesIn
    <2>6. Len(a) + 1 = 2 /\ Len(a) <= 2
      BY <2>2
    <2> QED BY <2>2, <2>3, <2>5, <2>6 DEF a
  <1>8. CASE ~(start < w) /\ e
    <2>1. a = <<ExitFrame>>
      BY <1>4, <1>8
    <2>2. Len(a) = 1 /\ a[1] = ExitFrame /\ a \in Seq(Frames)
      BY <1>3, <2>1
    <2>3. \A i \in 1..2 : Reaches(r, a, w, i)
      BY <1>2, <1>8 DEF Reaches
    <2>4. FrameIn(r, w, e, a, 1)
      BY <1>3, <1>8, <2>2, <2>3 DEF FrameIn
    <2>5. FramesIn(r, w, e, a)
      <3>1. \A i \in 1..1 : i = 1
        OBVIOUS
      <3> QED BY <2>2, <2>4, <3>1 DEF FramesIn
    <2>6. Len(a) + 1 = 2 /\ Len(a) <= 2 /\ 2 \in 1..2
      BY <2>2
    <2> QED BY <2>2, <2>3, <2>5, <2>6 DEF a
  <1>9. CASE ~(start < w) /\ ~e
    <2>1. a = <<>>
      BY <1>4, <1>9
    <2>0. <<>> \in Seq(Frames) /\ Len(<<>>) = 0
      OBVIOUS
    <2>2. Len(a) = 0 /\ a \in Seq(Frames) /\ Len(a) <= 2
      BY <2>0, <2>1
    <2>3. Reaches(r, a, w, Len(a) + 1)
      BY <1>2, <1>9 DEF Reaches
    <2>4. FramesIn(r, w, e, a)
      BY <2>2 DEF FramesIn
    <2> QED BY <2>2, <2>3, <2>4 DEF a
  <1> QED BY <1>6, <1>7, <1>8, <1>9

-----------------------------------------------------------------------------
(* What the actor's screen was fed.                                        *)

\* l, which has r bytes of the process from offset b on, has the bytes after f,
\* each once and at its offset, save some of those the ring had dropped.
FeedIn(l, b, r, f, w) ==
    /\ b \in Nat /\ r \in Nat /\ Len(l) = b + r /\ r <= w
    /\ \A i \in 1..r : l[b + i] = f + i \/ (l[b + i] = Gap /\ i <= RingStart(w))

LEMMA GapsFacts ==
    ASSUME NEW n \in Nat
    PROVE  /\ Gaps(n) \in Seq(Int) /\ Len(Gaps(n)) = n
           /\ \A i \in 1..n : Gaps(n)[i] = Gap
  BY DEF Gaps, Gap

LEMMA BytesFacts ==
    ASSUME first \in Nat, NEW p \in Nat, NEW n \in Nat
    PROVE  /\ Bytes(p, p + n) \in Seq(Int) /\ Len(Bytes(p, p + n)) = n
           /\ \A i \in 1..n : Bytes(p, p + n)[i] = first + p + i
  <1>1. (p + n) - p = n
    OBVIOUS
  <1> QED BY <1>1 DEF Bytes

\* The n entries of l from the offset o are bytes.
BytesAfter(l, o, n) == \A i \in 1..n : l[o + i] > 0

\* n bytes come at the end, after d that are missing.
LEMMA FeedGrows ==
    ASSUME first \in Nat, NEW w \in Nat, NEW l \in Seq(Int),
           NEW b \in Nat, NEW r \in Nat, FeedIn(l, b, r, first, w),
           NEW d \in Nat, NEW n \in Nat, r + d + n <= w,
           d = 0 \/ r + d <= RingStart(w)
    PROVE  /\ l \o Gaps(d) \o Bytes(r + d, r + d + n) \in Seq(Int)
           /\ FeedIn(l \o Gaps(d) \o Bytes(r + d, r + d + n), b, r + d + n, first, w)
           /\ \A i \in 1..Len(l) : (l \o Gaps(d) \o Bytes(r + d, r + d + n))[i] = l[i]
           /\ BytesAfter(l \o Gaps(d) \o Bytes(r + d, r + d + n), b + r + d, n)
  <1> DEFINE g == Gaps(d)
             y == Bytes(r + d, r + d + n)
             h == l \o g
             m == h \o y
  <1>0. r + d \in Nat /\ r + d + n \in Nat /\ b + r \in Nat /\ b + r + d \in Nat
    OBVIOUS
  <1>1. /\ g \in Seq(Int) /\ Len(g) = d
        /\ \A i \in 1..d : g[i] = Gap
    BY GapsFacts
  <1>2. /\ y \in Seq(Int) /\ Len(y) = n
        /\ \A i \in 1..n : y[i] = first + (r + d) + i
    BY <1>0, BytesFacts
  <1> HIDE DEF g, y
  <1>3. PICK a \in Nat, c \in Nat : a = b + r /\ c = a + d /\ c = b + (r + d)
    OBVIOUS
  <1>3a. Len(l) = a
    BY <1>3 DEF FeedIn
  <1>4. /\ h \in Seq(Int) /\ Len(h) = c
        /\ \A i \in 1..a : h[i] = l[i]
        /\ \A i \in 1..d : h[a + i] = g[i]
    <2>1. g \in Seq(Int) /\ Len(g) = d
      BY <1>1
    <2>2. Joined(h, l, Len(l), g, Len(g))
      BY <2>1, IntConcat
    <2> HIDE DEF h
    <2>3. Joined(h, l, a, g, d)
      BY <1>3a, <2>1, <2>2
    <2> QED BY <1>3, <2>3 DEF Joined
  <1> HIDE DEF h
  <1>5. /\ m \in Seq(Int) /\ Len(m) = c + n
        /\ \A i \in 1..c : m[i] = h[i]
        /\ \A i \in 1..n : m[c + i] = y[i]
    <2>1. y \in Seq(Int) /\ Len(y) = n /\ h \in Seq(Int) /\ Len(h) = c
      BY <1>2, <1>4
    <2>2. Joined(m, h, Len(h), y, Len(y))
      BY <2>1, IntConcat
    <2> HIDE DEF m
    <2>3. Joined(m, h, c, y, n)
      BY <2>1, <2>2
    <2> QED BY <2>3 DEF Joined
  <1> HIDE DEF m
  <1>6. ASSUME NEW i \in 1..(r + d + n)
        PROVE  m[b + i] = first + i \/ (m[b + i] = Gap /\ i <= RingStart(w))
    <2>1. CASE i <= r
      <3>1. i \in 1..r /\ b + i \in 1..a /\ b + i \in 1..c
        BY <1>3, <2>1
      <3>2. m[b + i] = l[b + i]
        BY <1>4, <1>5, <3>1
      <3>3. l[b + i] = first + i \/ (l[b + i] = Gap /\ i <= RingStart(w))
        BY <3>1 DEF FeedIn
      <3> QED BY <3>2, <3>3
    <2>2. CASE r < i /\ i <= r + d
      <3>1. PICK j \in 1..d : i = r + j
        <4>1. i - r \in 1..d /\ i = r + (i - r)
          BY <2>2
        <4> QED BY <4>1
      <3>2. b + i = a + j /\ b + i \in 1..c
        BY <1>3, <3>1
      <3>3. m[b + i] = Gap
        BY <1>1, <1>4, <1>5, <3>2
      <3>4. i <= RingStart(w)
        <4>1. RingStart(w) \in Nat
          BY StreamAssumption DEF RingStart
        <4>2. r + d <= RingStart(w)
          BY <2>2
        <4> QED BY <2>2, <4>1, <4>2
      <3> QED BY <3>3, <3>4
    <2>3. CASE r + d < i
      <3>1. PICK j \in 1..n : i = r + d + j
        <4>1. i - (r + d) \in 1..n /\ i = r + d + (i - (r + d))
          BY <2>3
        <4> QED BY <4>1
      <3>2. b + i = c + j
        BY <1>3, <3>1
      <3>3. m[b + i] = first + (r + d) + j
        BY <1>2, <1>5, <3>2
      <3> QED BY <3>1, <3>3
    <2> QED BY <2>1, <2>2, <2>3
  <1>7. Len(m) = b + (r + d + n)
    BY <1>3, <1>5
  <1>8. ASSUME NEW i \in 1..Len(l) PROVE m[i] = l[i]
    <2>1. i \in 1..a /\ i \in 1..c
      BY <1>3, <1>3a
    <2> QED BY <1>4, <1>5, <2>1
  <1>9. ASSUME NEW i \in 1..n PROVE m[b + r + d + i] > 0
    <2>1. b + r + d + i = c + i
      BY <1>3
    <2>2. m[c + i] = first + (r + d) + i
      BY <1>2, <1>5
    <2> QED BY <2>1, <2>2
  <1>10. BytesAfter(m, b + r + d, n)
    BY <1>9 DEF BytesAfter
  <1> QED BY <1>0, <1>5, <1>6, <1>7, <1>8, <1>10 DEF FeedIn, m, h, g, y

\* The actor reads the frame f, which joins what it has read.
LEMMA OutputRead ==
    ASSUME first \in Nat, written \in Nat, log \in Seq(Int),
           NEW r \in Nat, FeedIn(log, base, r, first, written),
           NEW f \in Frames, f.from < f.to, f.to <= written,
           f.from <= r \/ f.from <= RingStart(written),
           OutputChunk(f)
    PROVE  /\ log' \in Seq(Int)
           /\ \E s \in Nat : /\ r <= s /\ f.to <= s
                             /\ FeedIn(log', base, s, first, written)
           /\ Len(log) <= Len(log') /\ \A i \in 1..Len(log) : log'[i] = log[i]
           /\ \/ log' = log /\ UNCHANGED <<stream, serving>>
              \/ \E p \in Nat, q \in Nat :
                    /\ p < q /\ q <= Len(log') /\ Publish(p, q)
                    /\ \A i \in (p + 1)..q : log'[i] > 0
  <1> DEFINE at == IF f.from + base < Seq0 THEN Seq0 ELSE f.from + base
  <1>1. /\ base \in Nat /\ r <= written /\ Len(log) = base + r /\ Seq0 = base + r
        /\ f.from \in Nat /\ f.to \in Nat
    BY DEF FeedIn, Frames, Seq0
  <1>2. CASE f.to + base <= at
    <2>1. log' = log /\ UNCHANGED <<stream, serving>>
      BY <1>2 DEF OutputChunk
    <2>2. f.to <= r
      BY <1>1, <1>2
    <2>3. Len(log) <= Len(log) /\ r <= r
      BY <1>1
    <2> QED BY <2>1, <2>2, <2>3
  <1>3. CASE ~(f.to + base <= at)
    <2>1. log' = log \o Gaps(at - Seq0) \o Bytes(at - base, f.to)
          /\ Publish(at, f.to + base)
      BY <1>3 DEF OutputChunk
    <2>2. PICK x \in Nat, y \in Nat, u \in Nat :
             x = f.from /\ y = f.to /\ u = written
      BY <1>1
    <2>3. PICK b \in Nat : b = base
      BY <1>1
    <2>4. at = IF x + b < b + r THEN b + r ELSE x + b
      BY <1>1, <2>2, <2>3
    <2> HIDE DEF at
    <2>5. PICK d \in Nat, n \in Nat :
             at = b + r + d /\ y = r + d + n /\ (d = 0 \/ r + d = x)
      <3>1. CASE x < r
        <4>1. at = b + r
          BY <2>4, <3>1
        <4>2. ~(y + b <= b + r)
          BY <1>3, <2>2, <2>3, <4>1
        <4>3. y - r \in Nat /\ y = r + 0 + (y - r) /\ at = b + r + 0
          BY <4>1, <4>2
        <4> QED BY <4>3
      <3>2. CASE ~(x < r)
        <4>1. at = x + b
          BY <2>4, <3>2
        <4>0. ~(y + b <= x + b)
          BY <1>3, <2>2, <2>3, <4>1
        <4>2. x - r \in Nat /\ y - x \in Nat
          BY <3>2, <4>0
        <4>3. /\ at = b + r + (x - r) /\ r + (x - r) = x
              /\ y = r + (x - r) + (y - x)
          BY <4>1
        <4> QED BY <4>2, <4>3
      <3> QED BY <3>1, <3>2
    <2>6. at - Seq0 = d /\ at - base = r + d
      BY <1>1, <2>3, <2>5
    <2>7. log' = log \o Gaps(d) \o Bytes(r + d, r + d + n)
      BY <2>1, <2>2, <2>5, <2>6
    <2>8. r + d + n <= written /\ (d = 0 \/ r + d <= RingStart(written))
      <3>1. RingStart(written) \in Nat
        BY StreamAssumption DEF RingStart
      <3>2. d = 0 \/ r + d = f.from
        BY <2>2, <2>5
      <3>3. r + d + n = f.to
        BY <2>2, <2>5
      <3>4. d = 0 \/ r + d <= RingStart(written)
        <4>1. CASE r + d = f.from /\ f.from <= r
          BY <4>1
        <4> QED BY <3>2, <4>1
      <3> QED BY <3>3, <3>4
    <2>9. log' \in Seq(Int) /\ FeedIn(log', base, r + d + n, first, written)
      BY <1>1, <2>7, <2>8, FeedGrows
    <2>10. r + d + n \in Nat /\ r <= r + d + n /\ f.to <= r + d + n
      BY <2>2, <2>5
    <2>11. /\ \A i \in 1..Len(log) : log'[i] = log[i]
           /\ \A i \in 1..n : log'[base + r + d + i] > 0
      <3> DEFINE h == log \o Gaps(d) \o Bytes(r + d, r + d + n)
      <3>1. base \in Nat /\ log \in Seq(Int) /\ r \in Nat /\ first \in Nat
            /\ written \in Nat /\ FeedIn(log, base, r, first, written)
        BY <1>1
      <3>0. PICK v \in Nat : v = base
        BY <1>1
      <3>0a. FeedIn(log, v, r, first, written)
        BY <3>0, <3>1
      <3>1a. \A i \in 1..Len(log) : h[i] = log[i]
        BY <2>8, <3>1, <3>0a, FeedGrows
      <3>1b. BytesAfter(h, v + r + d, n)
        BY <2>8, <3>1, <3>0a, FeedGrows
      <3>2. /\ \A i \in 1..Len(log) : h[i] = log[i]
            /\ \A i \in 1..n : h[base + r + d + i] > 0
        BY <3>0, <3>1a, <3>1b DEF BytesAfter
      <3>3. log' = h
        BY <2>7
      <3> HIDE DEF h
      <3> QED BY <3>2, <3>3
    <2>12. Len(log') = b + (r + d + n)
      BY <2>3, <2>9 DEF FeedIn
    <2>13. Len(log) <= Len(log')
      BY <1>1, <2>3, <2>12
    <2>14. PICK q \in Nat : q = f.to + base /\ q = at + n /\ q <= Len(log')
      BY <2>2, <2>3, <2>5, <2>12
    <2>15. Publish(at, q) /\ at \in Nat /\ at < q
      BY <1>3, <2>1, <2>3, <2>5, <2>14 DEF at
    <2>16. ASSUME NEW i \in (at + 1)..q PROVE log'[i] > 0
      <3>1. PICK j \in 1..n : i = at + j
        <4>1. i - at \in 1..n /\ i = at + (i - at)
          BY <2>14, <2>15
        <4> QED BY <4>1
      <3>2. i = base + r + d + j
        BY <2>3, <2>5, <3>1
      <3> QED BY <2>11, <3>2
    <2> QED BY <2>9, <2>10, <2>11, <2>13, <2>14, <2>15, <2>16
  <1> QED BY <1>2, <1>3

\* What k has read of a frame is gone from the connection.
LEMMA FrameRead ==
    ASSUME NEW r \in Nat, NEW w \in Nat, NEW e \in BOOLEAN, NEW s \in Nat, NEW k,
           LinkIn(k, r, w, e), k.frames # <<>>, r <= s,
           k.frames[1].kind = "output" => k.frames[1].to <= s,
           NEW m, m = [k EXCEPT !.frames = Tail(@)]
    PROVE  LinkIn(m, s, w, e) /\ (m.on => k.on)
  <1> DEFINE fs == k.frames
             gs == Tail(fs)
  <1>1. /\ k \in Links /\ fs \in Seq(Frames) /\ Len(fs) \in Nat /\ Len(fs) <= HoldQueue
        /\ FramesIn(r, w, e, fs)
    BY DEF LinkIn, Links
  <1>2. gs \in Seq(Frames) /\ Len(gs) <= Len(fs) /\ Len(gs) \in Nat
    BY <1>1
  <1>3. /\ FramesIn(s, w, e, gs)
        /\ Reaches(r, fs, w, Len(fs) + 1) => Reaches(s, gs, w, Len(gs) + 1)
    BY <1>1, FramesTail
  <1>0. m = [k EXCEPT !.frames = gs]
    OBVIOUS
  <1> HIDE DEF gs
  <1>4. m \in Links
    BY <1>0, <1>1, <1>2 DEF Links
  <1>5. /\ m.on = k.on /\ m.asked = k.asked /\ m.up = k.up
        /\ m.attached = k.attached /\ m.frames = gs
    BY <1>0, <1>1 DEF Links
  <1>6. k.on /\ k.attached /\ k.asked = Nowhere
    BY DEF LinkIn, NoLink
  <1>7. Len(gs) <= HoldQueue
    BY <1>1, <1>2, StreamAssumption
  <1>8. m.up /\ m.attached => Reaches(s, m.frames, w, Len(m.frames) + 1)
    BY <1>3, <1>5 DEF LinkIn
  <1>9. LinkIn(m, s, w, e)
    BY <1>3, <1>4, <1>5, <1>6, <1>7, <1>8 DEF LinkIn
  <1> QED BY <1>5, <1>9

-----------------------------------------------------------------------------
(* The invariant of the feed and of the connection.                        *)

Read == Len(log) - base

FeedInv ==
    /\ first \in Nat /\ written \in Nat /\ first + written <= MaxWrite
    /\ ended \in BOOLEAN /\ sleeping \in BOOLEAN
    /\ agent \in {"on", "asleep", "starting"}
    /\ log \in Seq(Int) /\ FeedIn(log, base, Read, first, written)
    /\ life \in 1..Lives /\ restarts \in Nat
    /\ base <= first + 2 * (life - 1)
    /\ agent = "starting" => written = 0
    /\ agent = "asleep" /\ written > 0 /\ restarts = 0 => Read = written

LinkInv ==
    /\ LinkIn(link, Read, written, ended)
    /\ link.on => agent = "on"

LEMMA ReadIs ==
    ASSUME NEW s \in Nat, NEW f, NEW w, FeedIn(log, base, s, f, w)
    PROVE  Read = s
  BY DEF FeedIn, Read

\* The connection of a daemon that replayed the ring.
LEMMA ReplayedLink ==
    ASSUME NEW u \in BOOLEAN, NEW r \in Nat, NEW w \in Nat, NEW e \in BOOLEAN, u => w = r
    PROVE  /\ LinkIn([NewLink(Nowhere) EXCEPT !.attached = TRUE, !.up = u], r, w, e)
           /\ LinkIn([NewLink(Nowhere) EXCEPT !.attached = TRUE], r, r, e)
  <1> DEFINE k == NewLink(Nowhere)
             l == [k EXCEPT !.attached = TRUE, !.up = u]
             m == [k EXCEPT !.attached = TRUE]
  <1>1. NoLink \in Links /\ NoLink.frames = <<>>
    BY DEF NoLink, Links, Nowhere, Frames
  <1>2. Nowhere \in Int
    BY DEF Nowhere
  <1>3. /\ k \in Links /\ k.on = TRUE /\ k.up = TRUE /\ k.asked = Nowhere
        /\ k.frames = <<>>
    BY <1>1, <1>2 DEF NewLink, Links
  <1> HIDE DEF k
  <1>4. /\ l \in Links /\ l.on = TRUE /\ l.up = u /\ l.asked = Nowhere
        /\ l.frames = <<>> /\ l.attached = TRUE
    BY <1>3 DEF Links
  <1>5. /\ m \in Links /\ m.on = TRUE /\ m.up = TRUE /\ m.asked = Nowhere
        /\ m.frames = <<>> /\ m.attached = TRUE
    BY <1>3 DEF Links
  <1> HIDE DEF l, m
  <1>6. Len(<<>>) = 0
    OBVIOUS
  <1>7. LinkIn(l, r, w, e)
    BY <1>4, <1>6, StreamAssumption DEF LinkIn, FramesIn, Reaches
  <1>8. LinkIn(m, r, r, e)
    BY <1>5, <1>6, StreamAssumption DEF LinkIn, FramesIn, Reaches
  <1> QED BY <1>7, <1>8 DEF k, l, m

LEMMA FeedInit ==
    ASSUME Init
    PROVE  FeedInv /\ LinkInv
  <1>1. Read = 0 /\ Len(log) = 0 /\ log \in Seq(Int)
    <2>1. <<>> \in Seq(Int) /\ Len(<<>>) = 0
      OBVIOUS
    <2> QED BY <2>1 DEF Init, Read
  <1>2. FeedInv
    <2>1. FeedIn(log, 0, 0, 0, 0)
      BY <1>1 DEF FeedIn
    <2>2. /\ first = 0 /\ written = 0 /\ ended = FALSE /\ sleeping = FALSE
          /\ agent = "on" /\ base = 0 /\ life = 1 /\ restarts = 0
      BY DEF Init
    <2>3. FeedIn(log, base, Read, first, written)
      BY <1>1, <2>1, <2>2
    <2>4. 0 + 0 <= MaxWrite /\ 1 \in 1..Lives /\ 0 <= 0 + 2 * (1 - 1)
      BY StreamAssumption
    <2> QED BY <1>1, <2>2, <2>3, <2>4 DEF FeedInv
  <1>3. LinkInv
    <2>1. LinkIn([NewLink(Nowhere) EXCEPT !.attached = TRUE], 0, 0, FALSE)
      <3>1. 0 \in Nat
        OBVIOUS
      <3> QED BY <3>1, ReplayedLink
    <2>2. link = [NewLink(Nowhere) EXCEPT !.attached = TRUE] /\ written = 0
          /\ ended = FALSE /\ agent = "on"
      BY DEF Init
    <2> QED BY <1>1, <2>1, <2>2 DEF LinkInv
  <1> QED BY <1>2, <1>3

\* Steps of the server's side and of the client.
LEMMA FeedSame ==
    ASSUME FeedInv, LinkInv,
           UNCHANGED <<holderVars, link, agent, log, base, life, restarts>>,
           sleeping' \in BOOLEAN
    PROVE  FeedInv' /\ LinkInv'
  <1>1. /\ first' = first /\ written' = written /\ ended' = ended /\ link' = link
        /\ agent' = agent /\ log' = log /\ base' = base /\ life' = life
        /\ restarts' = restarts /\ Read' = Read
    BY DEF holderVars, Read
  <1>2. FeedInv'
    BY <1>1 DEF FeedInv, FeedIn
  <1>3. LinkInv'
    BY <1>1 DEF LinkInv
  <1> QED BY <1>2, <1>3

LEMMA FeedWrite ==
    ASSUME FeedInv, LinkInv, NEW n \in 1..MaxWrite, Write(n)
    PROVE  FeedInv' /\ LinkInv'
  <1>1. /\ agent = "on" /\ ended = FALSE /\ first + written + n <= MaxWrite
        /\ written' = written + n /\ link' \in Sent(OutFrame(written, written + n))
        /\ first' = first /\ ended' = ended /\ agent' = agent /\ sleeping' = sleeping
        /\ log' = log /\ base' = base /\ life' = life /\ restarts' = restarts
        /\ Read' = Read
    BY DEF Write, actorVars, FeedInv, Read
  <1>2. n \in Nat \ {0} /\ written \in Nat /\ first \in Nat /\ Read \in Nat
        /\ written + n \in Nat
    BY StreamAssumption DEF FeedInv, FeedIn
  <1>3. FeedIn(log, base, Read, first, written + n)
    <2>1. RingStart(written) \in Nat /\ RingStart(written + n) \in Nat
          /\ RingStart(written) <= RingStart(written + n)
      BY <1>2, RingStartGrows
    <2>2. /\ base \in Nat /\ Read \in Nat /\ Len(log) = base + Read
          /\ Read <= written
      BY DEF FeedInv, FeedIn
    <2>3. ASSUME NEW i \in 1..Read
          PROVE  log[base + i] = first + i
                 \/ (log[base + i] = Gap /\ i <= RingStart(written + n))
      <3>1. log[base + i] = first + i \/ (log[base + i] = Gap /\ i <= RingStart(written))
        BY DEF FeedInv, FeedIn
      <3> QED BY <2>1, <2>2, <3>1
    <2>4. Read <= written + n
      BY <1>2, <2>2
    <2> QED BY <2>2, <2>3, <2>4 DEF FeedIn
  <1>4. FeedInv'
    BY <1>1, <1>2, <1>3 DEF FeedInv
  <1>5. LinkIn(link, Read, written, FALSE)
    BY <1>1 DEF LinkInv
  <1>6. LinkIn(link', Read, written + n, FALSE) /\ (link'.on => link.on)
    <2>1. CASE link.up /\ link.attached
      <3>1. link' \in Enqueued(link, OutFrame(written, written + n))
        BY <1>1, <2>1 DEF Sent
      <3>2. n \in Nat \ {0} /\ written \in Nat /\ Read \in Nat
        BY <1>2
      <3>3. PICK v \in Nat : v = written + n /\ written < v
        BY <3>2
      <3>4. LinkIn(link', Read, v, FALSE) /\ (link'.on => link.on)
        BY <1>5, <2>1, <3>1, <3>2, <3>3, OutputEnqueued
      <3> QED BY <3>3, <3>4
    <2>2. CASE ~(link.up /\ link.attached)
      <3>1. link' = link
        BY <1>1, <2>2 DEF Sent
      <3>2. n \in Nat /\ written \in Nat /\ Read \in Nat
        BY <1>2
      <3>3. LinkIn(link, Read, written + n, FALSE)
        BY <1>5, <2>2, <3>2, MoreWrittenLink, Zenon
      <3> QED BY <3>1, <3>3
    <2> QED BY <2>1, <2>2
  <1>7. LinkInv'
    BY <1>1, <1>6 DEF LinkInv
  <1> QED BY <1>4, <1>7

LEMMA FeedEnd ==
    ASSUME FeedInv, LinkInv, End
    PROVE  FeedInv' /\ LinkInv'
  <1>1. /\ ended = FALSE /\ ended' = TRUE /\ link' \in Sent(ExitFrame)
        /\ first' = first /\ written' = written /\ agent' = agent /\ sleeping' = sleeping
        /\ log' = log /\ base' = base /\ life' = life /\ restarts' = restarts
        /\ Read' = Read
    BY DEF End, actorVars, FeedInv, Read
  <1>2. written \in Nat /\ Read \in Nat
    BY DEF FeedInv, FeedIn
  <1>3. FeedInv'
    BY <1>1 DEF FeedInv, FeedIn
  <1>4. LinkIn(link, Read, written, FALSE)
    BY <1>1 DEF LinkInv
  <1>5. LinkIn(link', Read, written, TRUE) /\ (link'.on => link.on)
    <2>1. CASE link.up /\ link.attached
      <3>1. link' \in Enqueued(link, ExitFrame)
        BY <1>1, <2>1 DEF Sent
      <3> QED BY <1>2, <1>4, <2>1, <3>1, ExitEnqueued
    <2>2. CASE ~(link.up /\ link.attached)
      <3>1. link' = link
        BY <1>1, <2>2 DEF Sent
      <3>2. FramesIn(Read, written, TRUE, link.frames)
        BY <1>2, <1>4, EndedFrames DEF LinkIn, Links
      <3> QED BY <1>4, <2>2, <3>1, <3>2 DEF LinkIn
    <2> QED BY <2>1, <2>2
  <1>6. LinkInv'
    BY <1>1, <1>5 DEF LinkInv
  <1> QED BY <1>3, <1>6

LEMMA FeedHoldAttach ==
    ASSUME FeedInv, LinkInv, HoldAttach
    PROVE  FeedInv' /\ LinkInv'
  <1> DEFINE fs == Answer(Read, written, ended)
             m == [link EXCEPT !.asked = Nowhere, !.attached = TRUE, !.frames = fs]
  <1>1. written \in Nat /\ Read \in 0..written /\ ended \in BOOLEAN
    BY DEF FeedInv, FeedIn
  <1>2. /\ link \in Links /\ link.up /\ link.asked = Read /\ link.on
    <2>1. link.up /\ link.asked # Nowhere /\ link \in Links
      BY DEF HoldAttach, LinkInv, LinkIn
    <2> QED BY <2>1 DEF LinkInv, LinkIn, NoLink
  <1>3. ReadFrom(link.asked) = IF Read < RingStart(written) THEN RingStart(written) ELSE Read
    BY <1>1, <1>2 DEF ReadFrom, RingBase, RingStart
  <1>4. link' = m
    BY <1>3 DEF HoldAttach, Answer
  <1>5. /\ fs \in Seq(Frames) /\ Len(fs) <= 2
        /\ FramesIn(Read, written, ended, fs)
        /\ Reaches(Read, fs, written, Len(fs) + 1)
    BY <1>1, AnswerIn
  <1> HIDE DEF fs
  <1>6. m \in Links
    <2>1. Nowhere \in Int
      BY DEF Nowhere
    <2> QED BY <1>2, <1>5, <2>1 DEF Links
  <1>7. /\ m.on = link.on /\ m.up = link.up /\ m.asked = Nowhere
        /\ m.attached = TRUE /\ m.frames = fs
    BY <1>2 DEF Links
  <1>8. Len(fs) <= HoldQueue
    BY <1>5, StreamAssumption
  <1> HIDE DEF m
  <1>9. LinkIn(m, Read, written, ended)
    BY <1>2, <1>5, <1>6, <1>7, <1>8 DEF LinkIn
  <1>10. /\ first' = first /\ written' = written /\ ended' = ended /\ agent' = agent
         /\ sleeping' = sleeping /\ log' = log /\ base' = base /\ life' = life
         /\ restarts' = restarts /\ Read' = Read
    BY DEF HoldAttach, holderVars, actorVars, Read
  <1>11. FeedInv'
    BY <1>10 DEF FeedInv, FeedIn
  <1>12. LinkInv'
    BY <1>2, <1>4, <1>7, <1>9, <1>10 DEF LinkInv
  <1> QED BY <1>11, <1>12

\* The frame it reads joins what it has read.
LEMMA ReadOutputIs ==
    ASSUME FeedInv, LinkInv, ReadOutput
    PROVE  /\ log' \in Seq(Int)
           /\ Len(log) <= Len(log') /\ \A i \in 1..Len(log) : log'[i] = log[i]
           /\ \/ log' = log /\ UNCHANGED <<stream, serving>>
              \/ \E p \in Nat, q \in Nat :
                    /\ p < q /\ q <= Len(log') /\ Publish(p, q)
                    /\ \A i \in (p + 1)..q : log'[i] > 0
           /\ \E s \in Nat : /\ Read <= s /\ link.frames[1].to <= s
                             /\ FeedIn(log', base, s, first, written)
  <1> DEFINE f == link.frames[1]
  <1>1. /\ link.on /\ link.frames # <<>> /\ Head(link.frames).kind = "output"
        /\ OutputChunk(Head(link.frames))
        /\ link' = [link EXCEPT !.frames = Tail(@)]
        /\ first' = first /\ written' = written /\ ended' = ended /\ agent' = agent
        /\ sleeping' = sleeping /\ base' = base /\ life' = life /\ restarts' = restarts
    BY DEF ReadOutput, holderVars
  <1>2. /\ link.frames \in Seq(Frames) /\ Len(link.frames) \in Nat
        /\ Len(link.frames) > 0
    BY <1>1 DEF LinkInv, LinkIn, Links
  <1>3. f \in Frames /\ Head(link.frames) = f /\ f.kind = "output" /\ OutputChunk(f)
    BY <1>1, <1>2
  <1>4. FrameIn(Read, written, ended, link.frames, 1)
    BY <1>2 DEF LinkInv, LinkIn, FramesIn
  <1>5. /\ f.from < f.to /\ f.to <= written
        /\ f.from <= Read \/ f.from <= RingStart(written)
    BY <1>3, <1>4 DEF FrameIn, Reaches
  <1> HIDE DEF f
  <1>6. /\ first \in Nat /\ written \in Nat /\ log \in Seq(Int) /\ Read \in Nat
        /\ FeedIn(log, base, Read, first, written) /\ ended \in BOOLEAN
    BY DEF FeedInv, FeedIn
  <1> QED BY <1>3, <1>5, <1>6, OutputRead DEF f

LEMMA FeedReadOutput ==
    ASSUME FeedInv, LinkInv, ReadOutput
    PROVE  FeedInv' /\ LinkInv'
  <1>1. /\ link.on /\ link.frames # <<>> /\ Head(link.frames).kind = "output"
        /\ link' = [link EXCEPT !.frames = Tail(@)]
        /\ first' = first /\ written' = written /\ ended' = ended /\ agent' = agent
        /\ sleeping' = sleeping /\ base' = base /\ life' = life /\ restarts' = restarts
    BY DEF ReadOutput, holderVars
  <1>6. /\ Read \in Nat /\ written \in Nat /\ ended \in BOOLEAN
    BY DEF FeedInv, FeedIn
  <1>7. log' \in Seq(Int)
    BY ReadOutputIs
  <1>8. PICK s \in Nat : /\ Read <= s /\ link.frames[1].to <= s
                        /\ FeedIn(log', base, s, first, written)
    BY ReadOutputIs
  <1>9. Read' = s /\ s <= written
    BY <1>1, <1>8 DEF FeedIn, Read
  <1>10. FeedInv'
    <2>1. FeedIn(log', base', Read', first', written')
      BY <1>1, <1>8, <1>9
    <2>2. agent = "on"
      BY <1>1 DEF LinkInv
    <2> QED BY <1>1, <1>7, <2>1, <2>2 DEF FeedInv
  <1>11. LinkIn(link', s, written, ended) /\ (link'.on => link.on)
    <2>1. LinkIn(link, Read, written, ended)
      BY DEF LinkInv
    <2>2. link.frames[1].kind = "output" => link.frames[1].to <= s
      BY <1>8
    <2> QED BY <1>1, <1>6, <1>8, <2>1, <2>2, FrameRead
  <1>12. LinkInv'
    BY <1>1, <1>9, <1>11 DEF LinkInv
  <1> QED BY <1>10, <1>12

\* Steps that change the connection or the agent, and nothing of the feed.
LEMMA FeedReadExit ==
    ASSUME FeedInv, LinkInv, ReadExit
    PROVE  FeedInv' /\ LinkInv'
  <1>1. /\ link.on /\ link.frames # <<>> /\ Head(link.frames).kind = "exited"
        /\ agent' = "asleep" /\ sleeping' = FALSE /\ link' = NoLink
        /\ first' = first /\ written' = written /\ ended' = ended /\ log' = log
        /\ base' = base /\ life' = life /\ restarts' = restarts /\ Read' = Read
    BY DEF ReadExit, holderVars, Read
  <1>2. written \in Nat /\ Read \in Nat /\ Read <= written /\ ended \in BOOLEAN
    BY DEF FeedInv, FeedIn
  <1>3. Read = written
    <2>1. /\ link.frames \in Seq(Frames) /\ Len(link.frames) \in Nat
          /\ Len(link.frames) > 0
      BY <1>1 DEF LinkInv, LinkIn, Links
    <2>2. Head(link.frames) = link.frames[1]
      BY <2>1
    <2>3. Reaches(Read, link.frames, written, 1)
      <3>1. FrameIn(Read, written, ended, link.frames, 1)
        BY <2>1 DEF LinkInv, LinkIn, FramesIn
      <3> QED BY <1>1, <2>2, <3>1 DEF FrameIn
    <2> QED BY <1>2, <2>3 DEF Reaches
  <1>4. FeedInv'
    BY <1>1, <1>3 DEF FeedInv, FeedIn
  <1>5. LinkInv'
    <2>1. NoLink.on = FALSE
      BY DEF NoLink
    <2> QED BY <1>1, <1>2, <2>1, NoLinkIn DEF LinkInv
  <1> QED BY <1>4, <1>5

LEMMA FeedReadEof ==
    ASSUME FeedInv, LinkInv, ReadEof
    PROVE  FeedInv' /\ LinkInv'
  <1>1. /\ link' = NoLink
        /\ first' = first /\ written' = written /\ ended' = ended /\ log' = log
        /\ agent' = agent /\ sleeping' = sleeping
        /\ base' = base /\ life' = life /\ restarts' = restarts /\ Read' = Read
    BY DEF ReadEof, holderVars, actorVars, Read
  <1>2. written \in Nat /\ Read \in Nat /\ ended \in BOOLEAN
    BY DEF FeedInv, FeedIn
  <1>3. FeedInv'
    BY <1>1 DEF FeedInv, FeedIn
  <1>4. LinkInv'
    <2>1. NoLink.on = FALSE
      BY DEF NoLink
    <2> QED BY <1>1, <1>2, <2>1, NoLinkIn DEF LinkInv
  <1> QED BY <1>3, <1>4

LEMMA FeedReconnect ==
    ASSUME FeedInv, LinkInv, Reconnect
    PROVE  FeedInv' /\ LinkInv'
  <1>1. /\ agent = "on" /\ link' = NewLink(Read)
        /\ first' = first /\ written' = written /\ ended' = ended /\ log' = log
        /\ agent' = agent /\ sleeping' = sleeping
        /\ base' = base /\ life' = life /\ restarts' = restarts /\ Read' = Read
    BY DEF Reconnect, ResumeAt, Seq0, holderVars, actorVars, Read
  <1>2. written \in Nat /\ Read \in Nat /\ ended \in BOOLEAN
    BY DEF FeedInv, FeedIn
  <1>3. FeedInv'
    BY <1>1 DEF FeedInv, FeedIn
  <1>4. LinkInv'
    BY <1>1, <1>2, NewLinkIn DEF LinkInv
  <1> QED BY <1>3, <1>4

LEMMA FeedSpawned ==
    ASSUME FeedInv, LinkInv, Spawned
    PROVE  FeedInv' /\ LinkInv'
  <1>1. /\ agent = "starting" /\ agent' = "on" /\ link' = NewLink(0)
        /\ first' = first /\ written' = written /\ ended' = ended /\ log' = log
        /\ sleeping' = sleeping
        /\ base' = base /\ life' = life /\ restarts' = restarts /\ Read' = Read
    BY DEF Spawned, holderVars, Read
  <1>2. written \in Nat /\ Read = 0 /\ ended \in BOOLEAN
    BY <1>1 DEF FeedInv, FeedIn
  <1>3. FeedInv'
    BY <1>1 DEF FeedInv, FeedIn
  <1>4. LinkInv'
    BY <1>1, <1>2, NewLinkIn DEF LinkInv
  <1> QED BY <1>3, <1>4

LEMMA FeedWakeFailed ==
    ASSUME FeedInv, LinkInv, WakeFailed
    PROVE  FeedInv' /\ LinkInv'
  <1>1. /\ agent = "starting" /\ agent' = "asleep" /\ link' = link
        /\ first' = first /\ written' = written /\ ended' = ended /\ log' = log
        /\ sleeping' = sleeping
        /\ base' = base /\ life' = life /\ restarts' = restarts /\ Read' = Read
    BY DEF WakeFailed, holderVars, Read
  <1>2. FeedInv'
    BY <1>1 DEF FeedInv, FeedIn
  <1>3. LinkInv'
    BY <1>1 DEF LinkInv
  <1> QED BY <1>2, <1>3

\* A new process: nothing of it is read yet.
LEMMA FeedBeginWake ==
    ASSUME FeedInv, LinkInv, BeginWake
    PROVE  FeedInv' /\ LinkInv'
  <1>1. /\ agent = "asleep" /\ life < Lives /\ agent' = "starting" /\ life' = life + 1
        /\ log' = log \o <<Reset, Reset>> /\ base' = Len(log) + 2
        /\ first' = first + written /\ written' = 0 /\ ended' = FALSE
        /\ link' = link /\ sleeping' = sleeping /\ restarts' = restarts
    BY DEF BeginWake, Seq0
  <1>2. /\ log \in Seq(Int) /\ Len(log) \in Nat /\ Len(log) = base + Read
        /\ Read <= written /\ written \in Nat /\ first \in Nat
        /\ base <= first + 2 * (life - 1) /\ life \in 1..Lives /\ base \in Nat
        /\ first + written <= MaxWrite /\ Read \in Nat /\ ended \in BOOLEAN
    BY DEF FeedInv, FeedIn
  <1>3. log' \in Seq(Int) /\ Len(log') = Len(log) + 2
    <2> DEFINE d == <<Reset, Reset>>
    <2>1. d \in Seq(Int) /\ Len(d) = 2
      BY DEF Reset
    <2>2. log' = log \o d
      BY <1>1
    <2> HIDE DEF d
    <2>3. Joined(log \o d, log, Len(log), d, Len(d))
      BY <1>2, <2>1, IntConcat
    <2> QED BY <2>1, <2>2, <2>3 DEF Joined
  <1>4. Read' = 0
    BY <1>1, <1>2, <1>3 DEF Read
  <1>5. FeedIn(log', base', 0, first', 0)
    BY <1>1, <1>2, <1>3 DEF FeedIn
  <1>6. life' \in 1..Lives /\ base' <= first' + 2 * (life' - 1)
    BY <1>1, <1>2, StreamAssumption
  <1>7. FeedInv'
    <2>1. FeedIn(log', base', Read', first', written')
      BY <1>1, <1>4, <1>5
    <2>2. first' \in Nat /\ written' \in Nat /\ first' + written' <= MaxWrite
      BY <1>1, <1>2
    <2>3. sleeping \in BOOLEAN /\ restarts \in Nat
      BY DEF FeedInv
    <2> QED BY <1>1, <1>3, <1>6, <2>1, <2>2, <2>3 DEF FeedInv
  <1>8. LinkInv'
    <2>1. link = NoLink /\ ~link.on
      BY <1>1 DEF LinkInv, LinkIn
    <2>2. LinkIn(NoLink, 0, 0, FALSE)
      BY NoLinkIn
    <2> QED BY <1>1, <1>4, <2>1, <2>2 DEF LinkInv
  <1> QED BY <1>7, <1>8

\* The daemon restarts: what it is fed is the replay of the ring, or the first
\* part of it.
LEMMA FeedRestart ==
    ASSUME FeedInv, LinkInv, NEW k \in 0..MaxWrite, Restart(k)
    PROVE  FeedInv' /\ LinkInv'
  <1>1. /\ restarts' = restarts + 1 /\ ~sleeping /\ agent # "starting" /\ base' = 0
        /\ first' = first /\ written' = written /\ ended' = ended
        /\ agent' = agent /\ sleeping' = sleeping /\ life' = life
    BY DEF Restart, holderVars
  <1>2. /\ first \in Nat /\ written \in Nat /\ restarts \in Nat /\ life \in 1..Lives
        /\ RingStart(written) \in 0..written /\ ended \in BOOLEAN
    <2>1. first \in Nat /\ written \in Nat /\ restarts \in Nat /\ life \in 1..Lives
          /\ ended \in BOOLEAN
      BY DEF FeedInv
    <2> QED BY <2>1, RingStartGrows
  <1>3. <<>> \in Seq(Int) /\ Len(<<>>) = 0
    OBVIOUS
  <1>4. CASE agent = "asleep"
    <2>1. log' = <<>> /\ link' = link
      BY <1>4 DEF Restart
    <2>2. log' \in Seq(Int) /\ Read' = 0
      BY <1>1, <1>3, <2>1 DEF Read
    <2>3. FeedIn(log', 0, 0, first, written)
      BY <1>2, <1>3, <2>1 DEF FeedIn
    <2>4. FeedInv'
      BY <1>1, <1>2, <1>4, <2>2, <2>3 DEF FeedInv
    <2>5. link = NoLink /\ ~link.on
      BY <1>4 DEF LinkInv, LinkIn
    <2>6. LinkIn(NoLink, 0, written, ended)
      BY <1>2, NoLinkIn
    <2> QED BY <1>1, <2>1, <2>2, <2>4, <2>5, <2>6 DEF LinkInv
  <1>5. CASE agent # "asleep"
    <2> DEFINE m == [NewLink(Nowhere) EXCEPT !.attached = TRUE, !.up = k = written]
    <2>0. RingBase = RingStart(written)
      BY DEF RingBase, RingStart
    <2>1. /\ k \in RingStart(written)..written
          /\ log' = Gaps(RingStart(written)) \o Bytes(RingStart(written), k)
          /\ link' = m
      BY <1>5, <2>0 DEF Restart
    <2>2. PICK d \in Nat, n \in Nat : d = RingStart(written) /\ k = d + n
      <3>1. k - RingStart(written) \in Nat /\ k = RingStart(written) + (k - RingStart(written))
        BY <1>2, <2>1
      <3> QED BY <1>2, <3>1
    <2>3. PICK z \in Nat : z = 0
      OBVIOUS
    <2>4. /\ <<>> \o Gaps(d) \o Bytes(z + d, z + d + n) \in Seq(Int)
          /\ FeedIn(<<>> \o Gaps(d) \o Bytes(z + d, z + d + n), z, z + d + n, first, written)
      <3>1. FeedIn(<<>>, z, z, first, written)
        BY <1>2, <1>3, <2>3 DEF FeedIn
      <3>2. z + d + n <= written /\ z + d <= RingStart(written)
        BY <2>1, <2>2, <2>3
      <3>3. first \in Nat /\ written \in Nat /\ <<>> \in Seq(Int)
        BY <1>2, <1>3
      <3> QED BY <3>1, <3>2, <3>3, FeedGrows, Zenon
    <2>4a. <<>> \o Gaps(d) \o Bytes(z + d, z + d + n) = log' /\ z + d + n = k
      <3>1. z + d = d /\ z + d + n = k
        BY <2>2, <2>3
      <3>2. <<>> \o Gaps(d) = Gaps(d)
        BY GapsFacts
      <3> QED BY <2>1, <2>2, <3>1, <3>2
    <2>5. log' \in Seq(Int) /\ FeedIn(log', 0, k, first, written)
      BY <2>3, <2>4, <2>4a
    <2>6. Read' = k
      BY <1>1, <2>5 DEF Read, FeedIn
    <2>7. FeedInv'
      <3>1. FeedIn(log', base', Read', first', written')
        BY <1>1, <2>5, <2>6
      <3>2. base' <= first' + 2 * (life' - 1)
        BY <1>1, <1>2
      <3> QED BY <1>1, <1>2, <1>5, <2>5, <3>1, <3>2 DEF FeedInv
    <2>10. LinkIn(link', k, written, ended)
      <3>1. PICK u \in BOOLEAN : u = (k = written)
        OBVIOUS
      <3>2. link' = [NewLink(Nowhere) EXCEPT !.attached = TRUE, !.up = u]
        BY <2>1, <3>1
      <3>3. u => written = k
        BY <3>1
      <3>4. k \in Nat
        OBVIOUS
      <3>5. LinkIn([NewLink(Nowhere) EXCEPT !.attached = TRUE, !.up = u], k, written, ended)
        BY <1>2, <3>3, <3>4, ReplayedLink
      <3> QED BY <3>2, <3>5
    <2>11. agent = "on"
      BY <1>1, <1>5 DEF FeedInv
    <2> QED BY <1>1, <2>1, <2>6, <2>7, <2>10, <2>11 DEF LinkInv
  <1> QED BY <1>4, <1>5

\* The variables that FeedInv and LinkInv speak of.
LEMMA FeedNext ==
    ASSUME FeedInv, LinkInv, [Next]_vars
    PROVE  FeedInv' /\ LinkInv'
  <1>0. sleeping \in BOOLEAN
    BY DEF FeedInv
  <1>1. CASE \E n \in 1..MaxWrite : Write(n)
    BY <1>1, FeedWrite
  <1>2. CASE End
    BY <1>2, FeedEnd
  <1>3. CASE HoldAttach
    BY <1>3, FeedHoldAttach
  <1>4. CASE Actor
    BY <1>4, FeedReadOutput, FeedReadExit, FeedReadEof, FeedReconnect, FeedSpawned,
       FeedWakeFailed DEF Actor
  <1>5. CASE GoToSleep
    <2>1. UNCHANGED <<holderVars, link, agent, log, base, life, restarts>>
          /\ sleeping' \in BOOLEAN
      BY <1>5 DEF GoToSleep
    <2> QED BY <2>1, FeedSame
  <1>6. CASE BeginWake
    BY <1>6, FeedBeginWake
  <1>7. CASE Server
    <2>1. UNCHANGED <<holderVars, link, actorVars>>
      BY <1>7 DEF Server, ReadRequest, Attached, Reply, StreamTakes, StreamResyncs,
         StreamSends
    <2> QED BY <1>0, <2>1, FeedSame DEF actorVars
  <1>8. CASE Client \/ TimeOut \/ Detach \/ ConnectionLost
             \/ \E n \in 1..NAttach : Attach(n)
    <2>1. UNCHANGED <<holderVars, link, actorVars>>
      BY <1>8 DEF Client, ClientReads, AttachResolves, DeliverQueued, TimeOut, Detach,
         ConnectionLost, Attach
    <2> QED BY <1>0, <2>1, FeedSame DEF actorVars
  <1>9. CASE \E k \in 0..MaxWrite : Restart(k)
    BY <1>9, FeedRestart
  <1>10. CASE UNCHANGED vars
    <2>1. UNCHANGED <<holderVars, link, actorVars>>
      BY <1>10 DEF vars
    <2> QED BY <1>0, <2>1, FeedSame DEF actorVars
  <1> QED
    BY <1>1, <1>2, <1>3, <1>4, <1>5, <1>6, <1>7, <1>8, <1>9, <1>10 DEF Next

LEMMA FeedAlways == Spec => [](FeedInv /\ LinkInv)
  <1>1. Init => FeedInv /\ LinkInv
    BY FeedInit
  <1>2. FeedInv /\ LinkInv /\ [Next]_vars => (FeedInv /\ LinkInv)'
    BY FeedNext
  <1> QED BY <1>1, <1>2, PTL DEF Spec

\* Every byte of the process is on the actor's screen once and at its offset,
\* but for what the ring had dropped, and a process that has ended has been
\* read to its end (output_chunk, reconnect, begin_wake): for every capacity
\* of the ring and of the holder's queue, every number of processes and of
\* restarts of the daemon.
THEOREM BytesOnScreenOnce == Spec => []FeedIsWhole
  <1>1. FeedInv => FeedIsWhole
    <2> SUFFICES ASSUME FeedInv PROVE FeedIsWhole
      OBVIOUS
    <2>1. FeedIn(log, base, Read, first, written)
      BY DEF FeedInv
    <2>2. Read = Len(log) - base /\ RingBase = RingStart(written)
      BY DEF Read, RingBase, RingStart
    <2>3. \A i \in 1..Read :
             log[base + i] = first + i \/ (log[base + i] = Gap /\ i <= RingBase)
      BY <2>1, <2>2 DEF FeedIn
    <2>4. agent = "asleep" /\ written > 0 /\ restarts = 0 => Read = written
      BY DEF FeedInv
    <2> HIDE DEF FeedInv
    <2> QED BY <2>2, <2>3, <2>4 DEF FeedIsWhole
  <1> QED BY <1>1, FeedAlways, PTL

-----------------------------------------------------------------------------
(* What a screen shows.                                                    *)

\* A set of positions that is not empty has a largest one: the distances to
\* the end have a smallest.
LEMMA LargestPosition ==
    ASSUME NEW n \in Nat, NEW T \in SUBSET (1..n), T # {}
    PROVE  Max(T) \in T /\ \A u \in T : u <= Max(T)
  <1> DEFINE D == {n - t : t \in T}
             R == OpToRel(<, Nat)
  <1>1. \A t \in T : t \in 1..n /\ n - t \in Nat
    OBVIOUS
  <1>2. D \subseteq Nat
    BY <1>1
  <1>2a. D # {}
    OBVIOUS
  <1>3. IsWellFoundedOn(R, Nat)
    BY NatLessThanWellFounded
  <1>4. PICK x \in D : \A y \in D : ~(<<y, x>> \in R)
    <2> HIDE DEF D, R
    <2> QED BY <1>2, <1>2a, <1>3, WFMin
  <1>5. \A y \in D : ~(y < x)
    BY <1>2, <1>4 DEF OpToRel
  <1>6. PICK t \in T : x = n - t
    OBVIOUS
  <1>7. ASSUME NEW u \in T PROVE t >= u
    <2>1. ~(n - u < x)
      BY <1>5
    <2>2. u \in 1..n /\ t \in 1..n
      BY <1>1
    <2> QED BY <1>6, <2>1, <2>2
  <1>8. Max(T) \in T /\ \A u \in T : Max(T) >= u
    BY <1>7 DEF Max
  <1> QED BY <1>1, <1>8

\* k is the n elements of s after the first m.
Part(k, s, m, n) ==
    /\ k \in Seq(Int) /\ Len(k) = n
    /\ \A i \in 1..n : k[i] = s[m + i]

LEMMA IntPart ==
    ASSUME NEW s \in Seq(Int), NEW m \in Nat, NEW n \in Nat, m + n <= Len(s)
    PROVE  Part(SubSeq(s, m + 1, m + n), s, m, n)
  <1>1. /\ Len(s) \in Nat /\ m + 1 \in Nat /\ m + n \in Nat
        /\ \A i \in (m + 1)..(m + n) : i \in 1..Len(s) /\ s[i] \in Int
    OBVIOUS
  <1>2. SubSeq(s, m + 1, m + n) = [i \in 1..n |-> s[m + i]]
    OBVIOUS
  <1> QED BY <1>1, <1>2 DEF Part

\* Two sequences of one length with the same elements are the same.
LEMMA SameInts ==
    ASSUME NEW s \in Seq(Int), NEW t \in Seq(Int), NEW n, Len(s) = n, Len(t) = n,
           \A i \in 1..n : s[i] = t[i]
    PROVE  s = t
  OBVIOUS

\* The last reset in l is its m-th entry; n entries follow.  No reset: m is 0.
ResetAt(l, m, n) ==
    /\ m \in Nat /\ n \in Nat /\ Len(l) = m + n
    /\ m = 0 \/ l[m] = Reset
    /\ \A i \in 1..n : l[m + i] # Reset

LEMMA ShownIs ==
    ASSUME NEW l \in Seq(Int), NEW m, NEW n, ResetAt(l, m, n)
    PROVE  Part(Shown(l), l, m, n)
  <1> DEFINE T == {i \in 1..Len(l) : l[i] = Reset}
  <1>1. Len(l) \in Nat /\ m \in Nat /\ n \in Nat /\ Len(l) = m + n
    BY DEF ResetAt
  <1>2. \A i \in T : i <= m
    <2> SUFFICES ASSUME NEW i \in 1..Len(l), l[i] = Reset, m < i PROVE FALSE
      BY <1>1
    <2>1. PICK j \in 1..n : i = m + j
      <3>1. i - m \in 1..n /\ i = m + (i - m)
        BY <1>1
      <3> QED BY <3>1
    <2> QED BY <2>1 DEF ResetAt
  <1>3. Shown(l) = SubSeq(l, (IF T = {} THEN 0 ELSE Max(T)) + 1, Len(l))
    BY DEF Shown
  <1>4. (IF T = {} THEN 0 ELSE Max(T)) = m
    <2>1. CASE T = {}
      <3>1. m = 0
        <4> SUFFICES ASSUME m # 0 PROVE FALSE
          OBVIOUS
        <4>1. m \in 1..Len(l)
          BY <1>1
        <4> QED BY <2>1, <4>1 DEF ResetAt
      <3> QED BY <2>1, <3>1
    <2>2. CASE T # {}
      <3>1. T \in SUBSET (1..Len(l))
        OBVIOUS
      <3> HIDE DEF T
      <3>2. Max(T) \in T /\ \A u \in T : u <= Max(T)
        BY <1>1, <2>2, <3>1, LargestPosition
      <3>3. Max(T) \in 1..Len(l) /\ Max(T) <= m
        BY <1>2, <3>1, <3>2
      <3>4. m \in T
        <4>1. m \in 1..Len(l) /\ m # 0
          BY <1>1, <3>3
        <4> QED BY <4>1 DEF T, ResetAt
      <3>5. m <= Max(T)
        BY <3>2, <3>4
      <3> QED BY <1>1, <2>2, <3>3, <3>5
    <2> QED BY <2>1, <2>2
  <1> HIDE DEF T
  <1>5. Shown(l) = SubSeq(l, m + 1, m + n)
    BY <1>1, <1>3, <1>4
  <1>6. Part(SubSeq(l, m + 1, m + n), l, m, n)
    BY <1>1, IntPart
  <1> QED BY <1>5, <1>6

LEMMA SomeReset ==
    ASSUME NEW l \in Seq(Int)
    PROVE  \E m \in Nat, n \in Nat : ResetAt(l, m, n)
  <1> DEFINE T == {i \in 1..Len(l) : l[i] = Reset}
  <1>1. Len(l) \in Nat /\ T \in SUBSET (1..Len(l))
    OBVIOUS
  <1>2. CASE T = {}
    <2>1. \A i \in 1..Len(l) : l[0 + i] # Reset
      BY <1>2
    <2>2. Len(l) = 0 + Len(l)
      BY <1>1
    <2>3. ResetAt(l, 0, Len(l))
      BY <1>1, <2>1, <2>2 DEF ResetAt
    <2> QED BY <1>1, <2>3
  <1>3. CASE T # {}
    <2> DEFINE m == Max(T)
    <2>1. m \in T /\ \A u \in T : u <= m
      <3> HIDE DEF T
      <3> QED BY <1>1, <1>3, LargestPosition
    <2>2. m \in 1..Len(l) /\ l[m] = Reset
      BY <2>1
    <2>3. \A i \in 1..Len(l) : l[i] = Reset => i <= m
      BY <2>1
    <2> HIDE DEF m, T
    <2>4. PICK n \in Nat : Len(l) = m + n
      <3>1. Len(l) - m \in Nat /\ Len(l) = m + (Len(l) - m)
        BY <1>1, <2>2
      <3> QED BY <3>1
    <2>5. \A i \in 1..n : l[m + i] # Reset
      <3> SUFFICES ASSUME NEW i \in 1..n, l[m + i] = Reset PROVE FALSE
        OBVIOUS
      <3>1. m + i \in 1..Len(l)
        BY <2>2, <2>4
      <3>2. m + i <= m
        BY <2>3, <3>1
      <3> QED BY <2>2, <3>2
    <2>6. m \in Nat
      BY <2>2
    <2> QED BY <2>2, <2>4, <2>5, <2>6 DEF ResetAt
  <1> QED BY <1>2, <1>3

\* What was shown after the first p entries of l.
Then(l, p) == Shown(SubSeq(l, 1, p))

LEMMA Front ==
    ASSUME NEW l \in Seq(Int), NEW p \in Nat, p <= Len(l)
    PROVE  /\ SubSeq(l, 1, p) \in Seq(Int) /\ Len(SubSeq(l, 1, p)) = p
           /\ \A i \in 1..p : SubSeq(l, 1, p)[i] = l[i]
  <1>1. PICK z \in Nat : z = 0
    OBVIOUS
  <1>2. Part(SubSeq(l, z + 1, z + p), l, z, p)
    <2>1. z + p <= Len(l)
      BY <1>1
    <2> QED BY <2>1, IntPart
  <1>3. z + 1 = 1 /\ z + p = p
    BY <1>1
  <1>4. Part(SubSeq(l, 1, p), l, z, p)
    BY <1>2, <1>3
  <1> QED BY <1>1, <1>4 DEF Part

LEMMA WholeFront ==
    ASSUME NEW l \in Seq(Int)
    PROVE  Then(l, Len(l)) = Shown(l)
  <1>1. Len(l) \in Nat /\ Len(l) <= Len(l)
    OBVIOUS
  <1>2. SubSeq(l, 1, Len(l)) = l
    BY <1>1, Front, SameInts
  <1> QED BY <1>2 DEF Then

LEMMA ShownType ==
    ASSUME NEW l \in Seq(Int)
    PROVE  Shown(l) \in Seq(Int)
  <1>1. PICK m \in Nat, n \in Nat : ResetAt(l, m, n)
    BY SomeReset
  <1>2. Part(Shown(l), l, m, n)
    BY <1>1, ShownIs
  <1> QED BY <1>2 DEF Part

\* The part from q to t has no reset: the screen shows it after the rest.
LEMMA ThenMore ==
    ASSUME NEW l \in Seq(Int), NEW q \in Nat, NEW d \in Nat, q + d <= Len(l),
           \A i \in 1..d : l[q + i] # Reset
    PROVE  Then(l, q + d) = Then(l, q) \o SubSeq(l, q + 1, q + d)
  <1> DEFINE a == SubSeq(l, 1, q)
             b == SubSeq(l, 1, q + d)
             y == SubSeq(l, q + 1, q + d)
             k == Then(l, q) \o y
  <1>1. Len(l) \in Nat /\ q <= Len(l) /\ q + d \in Nat
    OBVIOUS
  <1>2. /\ a \in Seq(Int) /\ Len(a) = q /\ \A i \in 1..q : a[i] = l[i]
        /\ b \in Seq(Int) /\ Len(b) = q + d /\ \A i \in 1..(q + d) : b[i] = l[i]
    BY <1>1, Front
  <1>3. Part(y, l, q, d)
    BY IntPart
  <1>4. Then(l, q) = Shown(a) /\ Then(l, q + d) = Shown(b)
    BY DEF Then
  <1> HIDE DEF a, b, y
  <1>5. PICK m \in Nat, n \in Nat : ResetAt(a, m, n)
    BY <1>2, SomeReset
  <1>6. q = m + n
    BY <1>2, <1>5 DEF ResetAt
  <1>7. PICK e \in Nat : e = n + d
    OBVIOUS
  <1>8. ResetAt(b, m, e)
    <2>1. Len(b) = m + e
      BY <1>2, <1>6, <1>7
    <2>2. m = 0 \/ b[m] = Reset
      <3> SUFFICES ASSUME m # 0 PROVE b[m] = Reset
        OBVIOUS
      <3>1. m \in 1..q /\ m \in 1..(q + d)
        BY <1>6
      <3> QED BY <1>2, <1>5, <3>1 DEF ResetAt
    <2>3. ASSUME NEW i \in 1..e PROVE b[m + i] # Reset
      <3>1. CASE i <= n
        <4>1. i \in 1..n /\ m + i \in 1..q /\ m + i \in 1..(q + d)
          BY <1>6, <1>7, <3>1
        <4> QED BY <1>2, <1>5, <4>1 DEF ResetAt
      <3>2. CASE n < i
        <4>1. PICK j \in 1..d : i = n + j
          <5>1. i - n \in 1..d /\ i = n + (i - n)
            BY <1>7, <3>2
          <5> QED BY <5>1
        <4>2. m + i = q + j /\ m + i \in 1..(q + d)
          BY <1>6, <4>1
        <4> QED BY <1>2, <4>2
      <3> QED BY <1>7, <3>1, <3>2
    <2> QED BY <2>1, <2>2, <2>3 DEF ResetAt
  <1>9. Part(Shown(a), a, m, n) /\ Part(Shown(b), b, m, e)
    BY <1>2, <1>5, <1>8, ShownIs
  <1>10. Joined(k, Shown(a), n, y, d)
    <2>1. Shown(a) \in Seq(Int) /\ Len(Shown(a)) = n /\ y \in Seq(Int) /\ Len(y) = d
      BY <1>3, <1>9 DEF Part
    <2>2. Joined(Shown(a) \o y, Shown(a), Len(Shown(a)), y, Len(y))
      BY <2>1, IntConcat
    <2>3. k = Shown(a) \o y
      BY <1>4
    <2> QED BY <2>1, <2>2, <2>3
  <1> HIDE DEF k
  <1>11. ASSUME NEW i \in 1..e PROVE Shown(b)[i] = k[i]
    <2>1. Shown(b)[i] = b[m + i]
      BY <1>9 DEF Part
    <2>2. CASE i <= n
      <3>1. i \in 1..n /\ m + i \in 1..q /\ m + i \in 1..(q + d)
        BY <1>6, <1>7, <2>2
      <3>2. k[i] = Shown(a)[i] /\ Shown(a)[i] = a[m + i]
        BY <1>9, <1>10, <3>1 DEF Part, Joined
      <3>3. a[m + i] = l[m + i] /\ b[m + i] = l[m + i]
        BY <1>2, <3>1
      <3> QED BY <2>1, <3>2, <3>3
    <2>3. CASE n < i
      <3>1. PICK j \in 1..d : i = n + j
        <4>1. i - n \in 1..d /\ i = n + (i - n)
          BY <1>7, <2>3
        <4> QED BY <4>1
      <3>2. k[i] = y[j] /\ y[j] = l[q + j]
        BY <1>3, <1>10, <3>1 DEF Part, Joined
      <3>3. m + i = q + j /\ m + i \in 1..(q + d)
        BY <1>6, <3>1
      <3>4. b[m + i] = l[q + j]
        BY <1>2, <3>3
      <3> QED BY <2>1, <3>2, <3>4
    <2> QED BY <1>7, <2>2, <2>3
  <1>12. Shown(b) = k
    <2>1. Shown(b) \in Seq(Int) /\ Len(Shown(b)) = e
      BY <1>9 DEF Part
    <2>2. k \in Seq(Int) /\ Len(k) = e
      BY <1>7, <1>10 DEF Joined
    <2> QED BY <1>11, <2>1, <2>2, SameInts
  <1> QED BY <1>4, <1>12 DEF k, y

\* The entry p is a reset: the screen is clear after it.
LEMMA ThenClear ==
    ASSUME NEW l \in Seq(Int), NEW p \in 1..Len(l), l[p] = Reset
    PROVE  Then(l, p) = <<>>
  <1> DEFINE b == SubSeq(l, 1, p)
  <1>1. p \in Nat /\ p <= Len(l)
    OBVIOUS
  <1>2. b \in Seq(Int) /\ Len(b) = p /\ \A i \in 1..p : b[i] = l[i]
    BY <1>1, Front
  <1>3. Then(l, p) = Shown(b)
    BY DEF Then
  <1> HIDE DEF b
  <1>4. PICK z \in Nat : z = 0
    OBVIOUS
  <1>5. ResetAt(b, p, z)
    <2>1. p \in 1..p /\ p = p + z
      BY <1>1, <1>4
    <2>2. b[p] = Reset
      BY <1>2, <2>1
    <2> QED BY <1>1, <1>2, <1>4, <2>1, <2>2 DEF ResetAt
  <1>6. Part(Shown(b), b, p, z)
    BY <1>2, <1>5, ShownIs
  <1> QED BY <1>3, <1>4, <1>6 DEF Part

-----------------------------------------------------------------------------
(* The stream of the session and what is on its way to the client.         *)

Chunks == [from : Nat, to : Nat]
Messages == [kind : {"response", "snapshot", "output"}, n : Nat, from : Nat, to : Nat,
             shows : Seq(Int), slept : BOOLEAN]
Snaps == [at : Nat, slept : BOOLEAN, shows : Seq(Int)]
Streams == [on : BOOLEAN, phase : {"recv", "resync", "send"}, next : Nat,
            rx : Seq(Chunks), lag : BOOLEAN, msg : Messages \union {None}]
Servings == [phase : {"idle", "answered", "replying"}, n : Nat, rx : Seq(Chunks),
             lag : BOOLEAN, snap : Snaps \union {None}]

\* A chunk of the stream l: bytes of a process, or the reset before one.
ChunkIn(l, from, to) ==
    /\ from < to /\ to <= Len(l)
    /\ \/ \A i \in (from + 1)..to : l[i] # Reset
       \/ \A i \in (from + 1)..to : l[i] = Reset
ChunksIn(l, rx) ==
    /\ rx \in Seq(Chunks) /\ Len(rx) <= Backlog
    /\ \A i \in 1..Len(rx) : ChunkIn(l, rx[i].from, rx[i].to)

\* The session slept at p: what follows in the stream is a reset.
SleptAt(l, a, p) ==
    \/ p = Len(l) /\ a = "asleep"
    \/ p < Len(l) /\ l[p + 1] = Reset

\* What shows at p of the stream l of a session whose agent is a.
RightIn(l, a, p, shows, slept) ==
    /\ p <= Len(l)
    /\ slept => SleptAt(l, a, p)
    /\ ~slept => shows = Then(l, p)

MessageIn(l, a, m) ==
    /\ m.kind = "output" => ChunkIn(l, m.from, m.to)
    /\ m.kind # "output" => RightIn(l, a, m.to, m.shows, m.slept)

\* The stream goes on from l with agent a to k with agent b.
Goes(l, a, k, b) ==
    /\ l \in Seq(Int) /\ k \in Seq(Int) /\ Len(l) <= Len(k)
    /\ \A i \in 1..Len(l) : k[i] = l[i]
    /\ a = "asleep" => \/ Len(k) = Len(l) /\ b = "asleep"
                       \/ Len(l) < Len(k) /\ k[Len(l) + 1] = Reset

LEMMA ThenStays ==
    ASSUME NEW l, NEW a, NEW k, NEW b, Goes(l, a, k, b), NEW p \in Nat, p <= Len(l)
    PROVE  Then(k, p) = Then(l, p)
  <1>1. l \in Seq(Int) /\ k \in Seq(Int) /\ Len(l) \in Nat /\ Len(k) \in Nat
        /\ Len(l) <= Len(k) /\ \A i \in 1..Len(l) : k[i] = l[i]
    BY DEF Goes
  <1>2. /\ SubSeq(l, 1, p) \in Seq(Int) /\ Len(SubSeq(l, 1, p)) = p
        /\ \A i \in 1..p : SubSeq(l, 1, p)[i] = l[i]
    BY <1>1, Front
  <1>3. /\ SubSeq(k, 1, p) \in Seq(Int) /\ Len(SubSeq(k, 1, p)) = p
        /\ \A i \in 1..p : SubSeq(k, 1, p)[i] = k[i]
    <2>1. p <= Len(k)
      BY <1>1
    <2> QED BY <1>1, <2>1, Front
  <1>4. \A i \in 1..p : k[i] = l[i]
    BY <1>1
  <1>5. SubSeq(k, 1, p) = SubSeq(l, 1, p)
    <2>1. \A i \in 1..p : SubSeq(k, 1, p)[i] = SubSeq(l, 1, p)[i]
      BY <1>2, <1>3, <1>4
    <2> QED BY <1>2, <1>3, <2>1, SameInts
  <1> QED BY <1>5 DEF Then

LEMMA ChunkStays ==
    ASSUME NEW l, NEW a, NEW k, NEW b, Goes(l, a, k, b),
           NEW from \in Nat, NEW to \in Nat, ChunkIn(l, from, to)
    PROVE  ChunkIn(k, from, to)
  <1>1. Len(l) \in Nat /\ Len(k) \in Nat /\ Len(l) <= Len(k)
        /\ \A i \in 1..Len(l) : k[i] = l[i]
    BY DEF Goes
  <1>2. \A i \in (from + 1)..to : i \in 1..Len(l)
    BY <1>1 DEF ChunkIn
  <1> QED BY <1>1, <1>2 DEF ChunkIn

LEMMA ChunksStay ==
    ASSUME NEW l, NEW a, NEW k, NEW b, Goes(l, a, k, b), NEW rx, ChunksIn(l, rx)
    PROVE  ChunksIn(k, rx)
  <1>0. rx \in Seq(Chunks)
    BY DEF ChunksIn
  <1>1. ASSUME NEW i \in 1..Len(rx) PROVE rx[i].from \in Nat /\ rx[i].to \in Nat
    <2>1. rx[i] \in Chunks
      BY <1>0
    <2> QED BY <2>1 DEF Chunks
  <1>2. \A i \in 1..Len(rx) : ChunkIn(k, rx[i].from, rx[i].to)
    BY <1>1, ChunkStays DEF ChunksIn
  <1> QED BY <1>2 DEF ChunksIn

LEMMA RightStays ==
    ASSUME NEW l, NEW a, NEW k, NEW b, Goes(l, a, k, b), NEW p \in Nat, NEW shows,
           NEW slept \in BOOLEAN, RightIn(l, a, p, shows, slept)
    PROVE  RightIn(k, b, p, shows, slept)
  <1>1. Len(l) \in Nat /\ Len(k) \in Nat /\ Len(l) <= Len(k) /\ p <= Len(l)
        /\ \A i \in 1..Len(l) : k[i] = l[i]
    BY DEF Goes, RightIn
  <1>2. Then(k, p) = Then(l, p)
    BY <1>1, ThenStays
  <1>3. ASSUME SleptAt(l, a, p) PROVE SleptAt(k, b, p)
    <2>1. CASE p = Len(l) /\ a = "asleep"
      BY <1>1, <2>1 DEF SleptAt, Goes
    <2>2. CASE p < Len(l) /\ l[p + 1] = Reset
      <3>1. p + 1 \in 1..Len(l) /\ p < Len(k)
        BY <1>1, <2>2
      <3> QED BY <1>1, <2>2, <3>1 DEF SleptAt
    <2> QED BY <1>3, <2>1, <2>2 DEF SleptAt
  <1>4. p <= Len(k)
    BY <1>1
  <1>5. slept => SleptAt(k, b, p)
    BY <1>3 DEF RightIn
  <1>6. ~slept => shows = Then(k, p)
    BY <1>2 DEF RightIn
  <1> QED BY <1>4, <1>5, <1>6 DEF RightIn

LEMMA MessageStays ==
    ASSUME NEW l, NEW a, NEW k, NEW b, Goes(l, a, k, b), NEW m \in Messages,
           MessageIn(l, a, m)
    PROVE  MessageIn(k, b, m)
  <1>1. /\ m.from \in Nat /\ m.to \in Nat /\ m.slept \in BOOLEAN
    BY DEF Messages
  <1>2. ASSUME m.kind = "output" PROVE ChunkIn(k, m.from, m.to)
    BY <1>1, <1>2, ChunkStays DEF MessageIn
  <1>3. ASSUME m.kind # "output" PROVE RightIn(k, b, m.to, m.shows, m.slept)
    BY <1>1, <1>3, RightStays DEF MessageIn
  <1> QED BY <1>2, <1>3 DEF MessageIn

\* The stream task of the client's connection, and its messages: each begins
\* where the one before it ended, or earlier.
StreamIn(l, a, s) ==
    /\ s \in Streams /\ ChunksIn(l, s.rx) /\ s.next <= Len(l)
    /\ s.phase = "send" =>
          /\ s.msg \in Messages /\ MessageIn(l, a, s.msg) /\ s.msg.kind # "response"
          /\ s.msg.kind = "output" => s.msg.from <= s.next
ServingIn(l, a, s) ==
    /\ s \in Servings /\ ChunksIn(l, s.rx)
    /\ s.phase # "idle" =>
          s.snap \in Snaps /\ RightIn(l, a, s.snap.at, s.snap.shows, s.snap.slept)
WireIn(l, a, w) ==
    /\ w \in Seq(Messages) /\ Len(w) <= Outbox
    /\ \A i \in 1..Len(w) : MessageIn(l, a, w[i])
    /\ \A i \in 1..Len(w) : i > 1 /\ w[i].kind = "output" => w[i].from <= w[i - 1].to

LEMMA StreamStays ==
    ASSUME NEW l, NEW a, NEW k, NEW b, Goes(l, a, k, b), NEW s, StreamIn(l, a, s)
    PROVE  StreamIn(k, b, s)
  <1>1. s \in Streams /\ ChunksIn(k, s.rx)
    BY ChunksStay DEF StreamIn
  <1>2. s.next <= Len(k)
    <2>1. s.next \in Nat /\ s.next <= Len(l) /\ Len(l) <= Len(k)
          /\ Len(l) \in Nat /\ Len(k) \in Nat
      BY DEF StreamIn, Streams, Goes
    <2> QED BY <2>1
  <1>3. ASSUME s.phase = "send" PROVE MessageIn(k, b, s.msg)
    BY <1>3, MessageStays DEF StreamIn
  <1> QED BY <1>1, <1>2, <1>3 DEF StreamIn

LEMMA ServingStays ==
    ASSUME NEW l, NEW a, NEW k, NEW b, Goes(l, a, k, b), NEW s, ServingIn(l, a, s)
    PROVE  ServingIn(k, b, s)
  <1>1. s \in Servings /\ ChunksIn(k, s.rx)
    BY ChunksStay DEF ServingIn
  <1>2. ASSUME s.phase # "idle"
        PROVE  RightIn(k, b, s.snap.at, s.snap.shows, s.snap.slept)
    <2>1. s.snap.at \in Nat /\ s.snap.slept \in BOOLEAN
      BY <1>2 DEF ServingIn, Snaps
    <2> QED BY <1>2, <2>1, RightStays DEF ServingIn
  <1> QED BY <1>1, <1>2 DEF ServingIn

LEMMA WireStays ==
    ASSUME NEW l, NEW a, NEW k, NEW b, Goes(l, a, k, b), NEW w, WireIn(l, a, w)
    PROVE  WireIn(k, b, w)
  <1>1. ASSUME NEW i \in 1..Len(w) PROVE MessageIn(k, b, w[i])
    <2>1. w[i] \in Messages /\ MessageIn(l, a, w[i])
      BY DEF WireIn
    <2> QED BY <2>1, MessageStays
  <1> QED BY <1>1 DEF WireIn

\* A receiver gets a chunk of the stream.
LEMMA HeardChunks ==
    ASSUME NEW l, NEW r, ChunksIn(l, r.rx), NEW c \in Chunks, ChunkIn(l, c.from, c.to)
    PROVE  LET rx == IF Len(r.rx) < Backlog THEN Append(r.rx, c)
                     ELSE Append(Tail(r.rx), c)
           IN  ChunksIn(l, rx)
  <1> DEFINE q == r.rx
  <1>1. q \in Seq(Chunks) /\ Len(q) \in Nat /\ Len(q) <= Backlog /\ Backlog \in Nat
        /\ Backlog > 0
    BY StreamAssumption DEF ChunksIn
  <1>2. \A i \in 1..Len(q) : ChunkIn(l, q[i].from, q[i].to)
    BY DEF ChunksIn
  <1> HIDE DEF q
  <1>3. CASE Len(q) < Backlog
    <2> DEFINE z == Append(q, c)
    <2>1. z \in Seq(Chunks) /\ Len(z) = Len(q) + 1 /\ z[Len(q) + 1] = c
          /\ \A i \in 1..Len(q) : z[i] = q[i]
      BY <1>1
    <2> HIDE DEF z
    <2>2. \A i \in 1..Len(z) : i \in 1..Len(q) \/ i = Len(q) + 1
      BY <1>1, <2>1
    <2>3. \A i \in 1..Len(z) : ChunkIn(l, z[i].from, z[i].to)
      BY <1>2, <2>1, <2>2
    <2>4. Len(z) <= Backlog
      BY <1>1, <1>3, <2>1
    <2> QED BY <1>3, <2>1, <2>3, <2>4 DEF ChunksIn, z, q
  <1>4. CASE ~(Len(q) < Backlog)
    <2>0. q # <<>> /\ Len(q) > 0
      BY <1>1, <1>4
    <2> DEFINE y == Tail(q)
               z == Append(y, c)
    <2>1. y \in Seq(Chunks) /\ Len(y) = Len(q) - 1 /\ Len(y) \in Nat
          /\ \A i \in 1..Len(y) : y[i] = q[i + 1]
      BY <1>1, <2>0
    <2> HIDE DEF y
    <2>2. z \in Seq(Chunks) /\ Len(z) = Len(y) + 1 /\ z[Len(y) + 1] = c
          /\ \A i \in 1..Len(y) : z[i] = y[i]
      BY <2>1
    <2> HIDE DEF z
    <2>3. \A i \in 1..Len(y) : i + 1 \in 1..Len(q)
      BY <1>1, <2>1
    <2>4. \A i \in 1..Len(z) : i \in 1..Len(y) \/ i = Len(y) + 1
      BY <2>1, <2>2
    <2>5. \A i \in 1..Len(z) : ChunkIn(l, z[i].from, z[i].to)
      BY <1>2, <2>1, <2>2, <2>3, <2>4
    <2>6. Len(z) <= Backlog
      BY <1>1, <2>1, <2>2
    <2> QED BY <1>4, <2>2, <2>5, <2>6 DEF ChunksIn, z, y, q
  <1> QED BY <1>3, <1>4

LEMMA HeardStream ==
    ASSUME NEW l, NEW a, NEW s, StreamIn(l, a, s),
           NEW c \in Chunks, ChunkIn(l, c.from, c.to)
    PROVE  StreamIn(l, a, Heard(s, c))
           /\ (Heard(s, c).on <=> s.on) /\ Heard(s, c).next = s.next
  <1> DEFINE rx == IF Len(s.rx) < Backlog THEN Append(s.rx, c)
                   ELSE Append(Tail(s.rx), c)
             h == Heard(s, c)
  <1>1. ChunksIn(l, rx)
    BY HeardChunks DEF StreamIn
  <1>2. rx \in Seq(Chunks)
    BY <1>1 DEF ChunksIn
  <1>3. s \in Streams
    BY DEF StreamIn
  <1>4. h = [s EXCEPT !.rx = rx] \/ h = [s EXCEPT !.rx = rx, !.lag = TRUE]
    BY DEF Heard
  <1> HIDE DEF rx, h
  <1>5. h \in Streams
    BY <1>2, <1>3, <1>4 DEF Streams
  <1>6. /\ h.rx = rx /\ h.on = s.on /\ h.next = s.next /\ h.phase = s.phase
        /\ h.msg = s.msg
    BY <1>3, <1>4 DEF Streams
  <1>7. StreamIn(l, a, h)
    BY <1>1, <1>5, <1>6 DEF StreamIn
  <1> QED BY <1>6, <1>7 DEF h

LEMMA HeardServing ==
    ASSUME NEW l, NEW a, NEW s, ServingIn(l, a, s),
           NEW c \in Chunks, ChunkIn(l, c.from, c.to)
    PROVE  ServingIn(l, a, Heard(s, c))
           /\ Heard(s, c).phase = s.phase /\ Heard(s, c).n = s.n
           /\ Heard(s, c).snap = s.snap
  <1> DEFINE rx == IF Len(s.rx) < Backlog THEN Append(s.rx, c)
                   ELSE Append(Tail(s.rx), c)
             h == Heard(s, c)
  <1>1. ChunksIn(l, rx)
    BY HeardChunks DEF ServingIn
  <1>2. rx \in Seq(Chunks)
    BY <1>1 DEF ChunksIn
  <1>3. s \in Servings
    BY DEF ServingIn
  <1>4. h = [s EXCEPT !.rx = rx] \/ h = [s EXCEPT !.rx = rx, !.lag = TRUE]
    BY DEF Heard
  <1> HIDE DEF rx, h
  <1>5. h \in Servings
    BY <1>2, <1>3, <1>4 DEF Servings
  <1>6. /\ h.rx = rx /\ h.n = s.n /\ h.phase = s.phase /\ h.snap = s.snap
    BY <1>3, <1>4 DEF Servings
  <1>7. ServingIn(l, a, h)
    BY <1>1, <1>5, <1>6 DEF ServingIn
  <1> QED BY <1>6, <1>7 DEF h

-----------------------------------------------------------------------------
(* What the client has.                                                    *)

Clients == [n : Nat, waiting : BOOLEAN, syncing : BOOLEAN, queue : Seq(Messages),
            next : Nat, shows : Seq(Int), slept : BOOLEAN, resolved : Seq(Messages),
            overtaken : BOOLEAN]

ClientIn(l, a, c) ==
    /\ c \in Clients /\ c.next <= Len(l)
    /\ \A i \in 1..Len(c.queue) : ChunkIn(l, c.queue[i].from, c.queue[i].to)
    /\ c.resolved # <<>> =>
          RightIn(l, a, c.resolved[1].to, c.resolved[1].shows, c.resolved[1].slept)

LEMMA ClientStays ==
    ASSUME NEW l, NEW a, NEW k, NEW b, Goes(l, a, k, b), NEW c, ClientIn(l, a, c)
    PROVE  ClientIn(k, b, c)
  <1>1. c \in Clients /\ c.queue \in Seq(Messages) /\ c.resolved \in Seq(Messages)
    BY DEF ClientIn, Clients
  <1>2. c.next <= Len(k)
    <2>1. c.next \in Nat /\ c.next <= Len(l) /\ Len(l) <= Len(k)
          /\ Len(l) \in Nat /\ Len(k) \in Nat
      BY DEF ClientIn, Clients, Goes
    <2> QED BY <2>1
  <1>3. ASSUME NEW i \in 1..Len(c.queue)
        PROVE  ChunkIn(k, c.queue[i].from, c.queue[i].to)
    <2>1. c.queue[i] \in Messages
      BY <1>1
    <2>2. c.queue[i].from \in Nat /\ c.queue[i].to \in Nat
      BY <2>1 DEF Messages
    <2>3. ChunkIn(l, c.queue[i].from, c.queue[i].to)
      BY DEF ClientIn
    <2> QED BY <2>2, <2>3, ChunkStays
  <1>4. ASSUME c.resolved # <<>>
        PROVE  RightIn(k, b, c.resolved[1].to, c.resolved[1].shows, c.resolved[1].slept)
    <2>1. c.resolved[1] \in Messages
      BY <1>1, <1>4
    <2>2. c.resolved[1].to \in Nat /\ c.resolved[1].slept \in BOOLEAN
      BY <2>1 DEF Messages
    <2>3. RightIn(l, a, c.resolved[1].to, c.resolved[1].shows, c.resolved[1].slept)
      BY <1>4 DEF ClientIn
    <2> QED BY <2>2, <2>3, RightStays
  <1> QED BY <1>1, <1>2, <1>3, <1>4 DEF ClientIn

LEMMA OffIn ==
    ASSUME NEW l \in Seq(Int), NEW a
    PROVE  ClientIn(l, a, Off)
  <1>1. Off \in Clients
    BY DEF Off, Clients, None
  <1>2. Off.next = 0 /\ Off.queue = <<>> /\ Off.resolved = <<>>
    BY DEF Off
  <1>3. Len(l) \in Nat /\ Len(<<>>) = 0
    OBVIOUS
  <1> QED BY <1>1, <1>2, <1>3 DEF ClientIn

LEMMA Larger ==
    ASSUME NEW x \in Nat, NEW y \in Nat
    PROVE  Max({x, y}) \in {x, y} /\ x <= Max({x, y}) /\ y <= Max({x, y})
  <1>1. \E z \in {x, y} : \A u \in {x, y} : z >= u
    OBVIOUS
  <1>2. Max({x, y}) \in {x, y} /\ \A u \in {x, y} : Max({x, y}) >= u
    BY <1>1 DEF Max
  <1> QED BY <1>2

\* A chunk of the stream brings what it shows on to its end, if it begins no
\* later than where that is.
LEMMA DeliveredIn ==
    ASSUME log \in Seq(Int), NEW c, ClientIn(log, agent, c),
           NEW m \in Messages, ChunkIn(log, m.from, m.to)
    PROVE  /\ ClientIn(log, agent, Delivered(c, m))
           /\ Delivered(c, m).queue = c.queue
           /\ c.next <= Delivered(c, m).next /\ m.to <= Delivered(c, m).next
           /\ Delivered(c, m).next = c.next \/ Delivered(c, m).next = m.to
           /\ m.from <= c.next /\ RightIn(log, agent, c.next, c.shows, c.slept)
                => RightIn(log, agent, Delivered(c, m).next, Delivered(c, m).shows,
                           Delivered(c, m).slept)
  <1> DEFINE e == Delivered(c, m)
             q == Max({m.from, c.next})
             y == SubSeq(log, q + 1, m.to)
             shows == Fed(c.shows, y)
  <1>1. /\ c \in Clients /\ c.next \in Nat /\ c.next <= Len(log) /\ c.shows \in Seq(Int)
        /\ c.slept \in BOOLEAN
    BY DEF ClientIn, Clients
  <1>2. /\ m.from \in Nat /\ m.to \in Nat /\ m.from < m.to /\ m.to <= Len(log)
        /\ Len(log) \in Nat
    BY DEF Messages, ChunkIn
  <1>3. CASE m.to <= c.next
    <2>1. e = c
      BY <1>3 DEF Delivered
    <2> QED BY <1>1, <1>2, <1>3, <2>1
  <1>4. CASE ~(m.to <= c.next)
    <2>1. e = [c EXCEPT !.next = m.to, !.slept = FALSE, !.shows = shows]
      BY <1>4 DEF Delivered
    <2>2. q \in Nat /\ m.from <= q /\ c.next <= q /\ q < m.to
      <3>1. q \in {m.from, c.next} /\ m.from <= q /\ c.next <= q
        BY <1>1, <1>2, Larger
      <3> QED BY <1>1, <1>2, <1>4, <3>1
    <2>3. PICK d \in Nat : m.to = q + d /\ d > 0
      <3>1. m.to - q \in Nat /\ m.to = q + (m.to - q) /\ m.to - q > 0
        BY <1>2, <2>2
      <3> QED BY <3>1
    <2>4. Part(y, log, q, d)
      <3>1. Part(SubSeq(log, q + 1, q + d), log, q, d)
        BY <1>2, <2>2, <2>3, IntPart
      <3> QED BY <2>3, <3>1
    <2>2a. q = m.from \/ q = c.next
      <3>1. q \in {m.from, c.next}
        BY <1>1, <1>2, Larger
      <3> QED BY <3>1
    <2> HIDE DEF q
    <2>5. m.from <= c.next => q = c.next
      BY <1>1, <1>2, <2>2, <2>2a
    <2>6. y \in Seq(Int) /\ Len(y) = d /\ Head(y) = log[q + 1] /\ y # <<>>
      <3>1. y \in Seq(Int) /\ Len(y) = d /\ 1 \in 1..d /\ y[1] = log[q + 1]
        BY <2>3, <2>4 DEF Part
      <3> HIDE DEF y
      <3>2. y # <<>> /\ Head(y) = y[1]
        BY <2>3, <3>1
      <3> QED BY <3>1, <3>2
    <2>7. shows = IF log[q + 1] = Reset THEN <<>> ELSE c.shows \o y
      BY <2>6 DEF Fed
    <2>8. shows \in Seq(Int)
      <3>1. c.shows \o y \in Seq(Int)
        <4> HIDE DEF y
        <4>1. Joined(c.shows \o y, c.shows, Len(c.shows), y, Len(y))
          BY <1>1, <2>6, IntConcat
        <4> QED BY <4>1 DEF Joined
      <3>2. <<>> \in Seq(Int)
        OBVIOUS
      <3> HIDE DEF shows, y
      <3> QED BY <2>7, <3>1, <3>2
    <2> HIDE DEF shows, e
    <2>9. /\ e \in Clients /\ e.next = m.to /\ e.slept = FALSE /\ e.shows = shows
          /\ e.queue = c.queue /\ e.resolved = c.resolved
      BY <1>1, <1>2, <2>1, <2>8 DEF Clients
    <2>10. ClientIn(log, agent, e)
      BY <1>2, <2>9 DEF ClientIn
    <2>11. c.next <= e.next /\ m.to <= e.next
      BY <1>1, <1>2, <1>4, <2>9
    <2>12. ASSUME m.from <= c.next, RightIn(log, agent, c.next, c.shows, c.slept)
           PROVE  RightIn(log, agent, e.next, e.shows, e.slept)
      <3>1. q = c.next
        BY <2>5, <2>12
      <3>2. q + 1 \in (m.from + 1)..m.to /\ q + 1 \in 1..Len(log)
            /\ m.to \in (m.from + 1)..m.to /\ m.to \in 1..Len(log)
        BY <1>2, <2>2
      <3>3. shows = Then(log, m.to)
        <4>1. CASE log[q + 1] = Reset
          <5>1. \A i \in (m.from + 1)..m.to : log[i] = Reset
            BY <3>2, <4>1 DEF ChunkIn
          <5>2. log[m.to] = Reset
            BY <3>2, <5>1
          <5> QED BY <2>7, <3>2, <4>1, <5>2, ThenClear
        <4>2. CASE log[q + 1] # Reset
          <5>1. \A i \in (m.from + 1)..m.to : log[i] # Reset
            BY <3>2, <4>2 DEF ChunkIn
          <5>2. \A i \in 1..d : log[q + i] # Reset
            <6>1. \A i \in 1..d : q + i \in (m.from + 1)..m.to
              BY <1>2, <2>2, <2>3
            <6> QED BY <5>1, <6>1
          <5>3. ~c.slept
            <6> SUFFICES ASSUME c.slept PROVE FALSE
              OBVIOUS
            <6>1. SleptAt(log, agent, c.next)
              BY <2>12 DEF RightIn
            <6>2. c.next # Len(log)
              BY <1>1, <1>2, <1>4
            <6> QED BY <3>1, <4>2, <6>1, <6>2 DEF SleptAt
          <5>4. c.shows = Then(log, q)
            BY <2>12, <3>1, <5>3 DEF RightIn
          <5>5. Then(log, q + d) = Then(log, q) \o SubSeq(log, q + 1, q + d)
            <6>1. q + d <= Len(log)
              BY <1>2, <2>3
            <6> QED BY <2>2, <2>3, <5>2, <6>1, ThenMore
          <5>6. shows = Then(log, q) \o y
            BY <2>7, <4>2, <5>4
          <5> QED BY <2>3, <5>5, <5>6 DEF y
        <4> QED BY <4>1, <4>2
      <3> QED BY <1>2, <2>9, <3>3 DEF RightIn
    <2> QED BY <2>9, <2>10, <2>11, <2>12 DEF e
  <1> QED BY <1>3, <1>4

-----------------------------------------------------------------------------
(* The server's side of the connection, and the client.                    *)

ServerInv ==
    /\ tail \in Seq(Int) /\ requests \in Seq(Nat) /\ calls \in Nat
    /\ StreamIn(log, agent, stream) /\ ServingIn(log, agent, serving)
    /\ WireIn(log, agent, wire) /\ ClientIn(log, agent, client)
    /\ stream.on => serving.phase # "replying"
    /\ stream.on /\ wire # <<>> => stream.next = wire[Len(wire)].to

LEMMA GoesSame ==
    ASSUME NEW l \in Seq(Int), NEW a, NEW b, a = "asleep" => b = "asleep"
    PROVE  Goes(l, a, l, b)
  BY DEF Goes

\* The stream goes on, and nobody of the server or the client takes part.
LEMMA ServerWorld ==
    ASSUME ServerInv, Goes(log, agent, log', agent'), tail' \in Seq(Int),
           UNCHANGED <<serverVars, client, calls>>
    PROVE  ServerInv'
  <1>1. /\ requests' = requests /\ serving' = serving /\ stream' = stream /\ wire' = wire
        /\ client' = client /\ calls' = calls
    BY DEF serverVars
  <1>2. StreamIn(log', agent', stream) /\ ServingIn(log', agent', serving)
    BY StreamStays, ServingStays DEF ServerInv
  <1>3. WireIn(log', agent', wire) /\ ClientIn(log', agent', client)
    BY WireStays, ClientStays DEF ServerInv
  <1> QED BY <1>1, <1>2, <1>3 DEF ServerInv

\* What a chunk that is published leaves as it is.
LEMMA PublishKeeps ==
    ASSUME NEW l, NEW a, StreamIn(l, a, stream), ServingIn(l, a, serving),
           NEW p \in Nat, NEW q \in Nat, ChunkIn(l, p, q), Publish(p, q)
    PROVE  /\ StreamIn(l, a, stream') /\ ServingIn(l, a, serving')
           /\ stream'.on = stream.on /\ stream'.next = stream.next
           /\ serving'.phase = serving.phase /\ serving'.n = serving.n
           /\ serving'.snap = serving.snap
  <1>1. PICK c \in Chunks : c = [from |-> p, to |-> q]
    BY DEF Chunks
  <1>2. ChunkIn(l, c.from, c.to)
    BY <1>1
  <1>3. /\ stream' = IF stream.on THEN Heard(stream, c) ELSE stream
        /\ serving' = IF serving.phase \in {"answered", "replying"}
                      THEN Heard(serving, c) ELSE serving
    BY <1>1 DEF Publish
  <1>4. /\ StreamIn(l, a, Heard(stream, c))
        /\ (Heard(stream, c).on <=> stream.on) /\ Heard(stream, c).next = stream.next
    BY <1>2, HeardStream
  <1>5. stream.on \in BOOLEAN /\ Heard(stream, c).on \in BOOLEAN
    BY <1>4 DEF StreamIn, Streams
  <1>6. /\ StreamIn(l, a, stream') /\ stream'.on = stream.on
        /\ stream'.next = stream.next
    BY <1>3, <1>4, <1>5
  <1>7. /\ ServingIn(l, a, Heard(serving, c))
        /\ Heard(serving, c).phase = serving.phase /\ Heard(serving, c).n = serving.n
        /\ Heard(serving, c).snap = serving.snap
    BY <1>2, HeardServing
  <1>8. /\ ServingIn(l, a, serving') /\ serving'.phase = serving.phase
        /\ serving'.n = serving.n /\ serving'.snap = serving.snap
    BY <1>3, <1>7
  <1> QED BY <1>6, <1>8

\* What the stream task and an attach under way keep.
TalkKept ==
    /\ stream'.on => stream.on
    /\ stream'.next = stream.next
    /\ serving'.phase = "idle" <=> serving.phase = "idle"
    /\ serving'.n = serving.n /\ serving'.snap = serving.snap

LEMMA ServerPublishes ==
    ASSUME ServerInv, Goes(log, agent, log', agent'),
           NEW p \in Nat, NEW q \in Nat, ChunkIn(log', p, q), Publish(p, q),
           UNCHANGED <<tail, requests, wire, client, calls>>
    PROVE  ServerInv' /\ TalkKept
  <1>1. StreamIn(log', agent', stream) /\ ServingIn(log', agent', serving)
    BY StreamStays, ServingStays DEF ServerInv
  <1>2. WireIn(log', agent', wire) /\ ClientIn(log', agent', client)
    BY WireStays, ClientStays DEF ServerInv
  <1>3. /\ StreamIn(log', agent', stream') /\ ServingIn(log', agent', serving')
        /\ stream'.on = stream.on /\ stream'.next = stream.next
        /\ serving'.phase = serving.phase /\ serving'.n = serving.n
        /\ serving'.snap = serving.snap
    BY <1>1, PublishKeeps
  <1>4. ServerInv'
    BY <1>2, <1>3 DEF ServerInv
  <1>5. TalkKept
    BY <1>3 DEF TalkKept
  <1> QED BY <1>4, <1>5

\* The actor's step that reads output.
LEMMA ServerReadOutput ==
    ASSUME FeedInv, LinkInv, ServerInv, ReadOutput
    PROVE  ServerInv' /\ TalkKept /\ Goes(log, agent, log', agent')
  <1> DEFINE f == link.frames[1]
  <1>1. /\ OutputChunk(Head(link.frames)) /\ link.frames # <<>>
        /\ Head(link.frames).kind = "output"
        /\ agent' = agent /\ base' = base
        /\ UNCHANGED <<tail, requests, wire, client, calls>>
    BY DEF ReadOutput
  <1>2. /\ log' \in Seq(Int) /\ Len(log) <= Len(log')
        /\ \A i \in 1..Len(log) : log'[i] = log[i]
        /\ \/ log' = log /\ UNCHANGED <<stream, serving>>
           \/ \E p \in Nat, q \in Nat :
                 /\ p < q /\ q <= Len(log') /\ Publish(p, q)
                 /\ \A i \in (p + 1)..q : log'[i] > 0
    BY ReadOutputIs
  <1>3. log \in Seq(Int) /\ agent # "asleep"
    BY DEF FeedInv, LinkInv, ReadOutput
  <1>4. Goes(log, agent, log', agent')
    BY <1>1, <1>2, <1>3 DEF Goes
  <1>5. CASE log' = log /\ UNCHANGED <<stream, serving>>
    <2>1. UNCHANGED <<serverVars, client, calls>> /\ tail' \in Seq(Int)
      BY <1>1, <1>5 DEF serverVars, ServerInv
    <2>2. TalkKept
      BY <1>5 DEF TalkKept
    <2> QED BY <1>4, <2>1, <2>2, ServerWorld
  <1>6. CASE \E p \in Nat, q \in Nat :
                 /\ p < q /\ q <= Len(log') /\ Publish(p, q)
                 /\ \A i \in (p + 1)..q : log'[i] > 0
    <2>1. PICK p \in Nat, q \in Nat :
                 /\ p < q /\ q <= Len(log') /\ Publish(p, q)
                 /\ \A i \in (p + 1)..q : log'[i] > 0
      BY <1>6
    <2>2. \A i \in (p + 1)..q : log'[i] # Reset
      <3>1. \A i \in (p + 1)..q : log'[i] > 0
        BY <2>1
      <3> QED BY <3>1 DEF Reset
    <2>3. ChunkIn(log', p, q)
      BY <2>1, <2>2 DEF ChunkIn
    <2> QED BY <1>1, <1>4, <2>1, <2>3, ServerPublishes
  <1> QED BY <1>2, <1>5, <1>6

LEMMA ServerBeginWake ==
    ASSUME FeedInv, ServerInv, BeginWake
    PROVE  ServerInv' /\ TalkKept /\ Goes(log, agent, log', agent')
  <1>1. /\ agent = "asleep" /\ agent' = "starting"
        /\ log' = log \o <<Reset, Reset>> /\ Publish(Len(log), Len(log) + 2)
        /\ UNCHANGED <<tail, requests, wire, client, calls>>
    BY DEF BeginWake, Seq0
  <1>2. log \in Seq(Int) /\ Len(log) \in Nat
    BY DEF FeedInv
  <1>3. /\ log' \in Seq(Int) /\ Len(log') = Len(log) + 2
        /\ \A i \in 1..Len(log) : log'[i] = log[i]
        /\ log'[Len(log) + 1] = Reset /\ log'[Len(log) + 2] = Reset
    <2> DEFINE t == <<Reset, Reset>>
    <2>1. t \in Seq(Int) /\ Len(t) = 2 /\ t[1] = Reset /\ t[2] = Reset
      BY DEF Reset
    <2>2. log' = log \o t
      BY <1>1
    <2> HIDE DEF t
    <2>3. Joined(log', log, Len(log), t, Len(t))
      BY <1>2, <2>1, <2>2, IntConcat
    <2>4. 1 \in 1..2 /\ 2 \in 1..2
      OBVIOUS
    <2> QED BY <2>1, <2>3, <2>4 DEF Joined
  <1>4. Goes(log, agent, log', agent')
    BY <1>1, <1>2, <1>3 DEF Goes
  <1>5. PICK p \in Nat, q \in Nat : p = Len(log) /\ q = p + 2
    BY <1>2
  <1>6. ChunkIn(log', p, q)
    <2>1. \A i \in (p + 1)..q : i = Len(log) + 1 \/ i = Len(log) + 2
      BY <1>5
    <2>2. \A i \in (p + 1)..q : log'[i] = Reset
      BY <1>3, <2>1
    <2> QED BY <1>3, <1>5, <2>2 DEF ChunkIn
  <1>7. Publish(p, q)
    BY <1>1, <1>5
  <1> QED BY <1>1, <1>4, <1>6, <1>7, ServerPublishes

LEMMA NothingServed ==
    ASSUME NEW l \in Seq(Int), NEW a
    PROVE  /\ StreamIn(l, a, NoStream) /\ NoStream.on = FALSE
           /\ ServingIn(l, a, NotServing) /\ NotServing.phase = "idle"
           /\ WireIn(l, a, <<>>)
  <1>1. <<>> \in Seq(Chunks) /\ <<>> \in Seq(Messages) /\ Len(<<>>) = 0
    OBVIOUS
  <1>2. Backlog \in Nat /\ Outbox \in Nat /\ Len(l) \in Nat
    BY StreamAssumption
  <1>3. /\ NoStream \in Streams /\ NoStream.on = FALSE /\ NoStream.phase = "recv"
        /\ NoStream.rx = <<>> /\ NoStream.next = 0
    BY <1>1 DEF NoStream, Streams
  <1>4. /\ NotServing \in Servings /\ NotServing.phase = "idle"
        /\ NotServing.rx = <<>>
    BY <1>1 DEF NotServing, Servings, None
  <1>5. ChunksIn(l, <<>>)
    BY <1>1, <1>2 DEF ChunksIn
  <1>6. StreamIn(l, a, NoStream)
    BY <1>2, <1>3, <1>5 DEF StreamIn
  <1>7. ServingIn(l, a, NotServing)
    BY <1>4, <1>5 DEF ServingIn
  <1>8. WireIn(l, a, <<>>)
    BY <1>1, <1>2 DEF WireIn
  <1> QED BY <1>3, <1>4, <1>6, <1>7, <1>8

\* What the actor answers is right.
LEMMA SnapIn ==
    ASSUME log \in Seq(Int), tail \in Seq(Int)
    PROVE  /\ Snap \in Snaps /\ Snap.at = Len(log)
           /\ RightIn(log, agent, Snap.at, Snap.shows, Snap.slept)
  <1>1. Shown(log) \in Seq(Int) /\ Then(log, Len(log)) = Shown(log)
    BY ShownType, WholeFront
  <1>2. Len(log) \in Nat
    OBVIOUS
  <1>3. PICK u \in BOOLEAN : u <=> agent = "asleep"
    OBVIOUS
  <1>4. PICK v \in Seq(Int) : v = IF agent = "asleep" THEN tail ELSE Shown(log)
    BY <1>1
  <1>5. (agent = "asleep") = u
    BY <1>3
  <1>6. Snap = [at |-> Len(log), slept |-> u, shows |-> v]
    BY <1>4, <1>5 DEF Snap, Seq0
  <1>7. Snap \in Snaps /\ Snap.at = Len(log) /\ Snap.slept = u /\ Snap.shows = v
    BY <1>2, <1>6 DEF Snaps
  <1>8. u => SleptAt(log, agent, Len(log))
    BY <1>3 DEF SleptAt
  <1>9. ~u => v = Then(log, Len(log))
    BY <1>1, <1>3, <1>4
  <1> QED BY <1>2, <1>7, <1>8, <1>9 DEF RightIn

LEMMA ServerReadRequest ==
    ASSUME log \in Seq(Int), ServerInv, ReadRequest
    PROVE  ServerInv'
  <1>1. /\ requests # <<>> /\ serving.phase = "idle" /\ requests' = Tail(requests)
        /\ log' = log /\ agent' = agent /\ tail' = tail /\ wire' = wire
        /\ client' = client /\ calls' = calls
    BY DEF ReadRequest, actorVars
  <1>2. requests \in Seq(Nat) /\ requests' \in Seq(Nat) /\ Head(requests) \in Nat
    BY <1>1 DEF ServerInv
  <1>3. CASE Head(requests) = None
    <2>1. stream' = NoStream /\ serving' = serving
      BY <1>3 DEF ReadRequest
    <2> QED BY <1>1, <1>2, <2>1, NothingServed DEF ServerInv
  <1>4. CASE Head(requests) # None
    <2>1. /\ serving' = [NotServing EXCEPT !.phase = "answered", !.n = Head(requests),
                                           !.snap = Snap]
          /\ stream' = stream
      BY <1>4 DEF ReadRequest
    <2>2. /\ ServingIn(log, agent, NotServing)
          /\ Snap \in Snaps /\ RightIn(log, agent, Snap.at, Snap.shows, Snap.slept)
      BY NothingServed, SnapIn DEF ServerInv
    <2>3. NotServing \in Servings
      BY <2>2 DEF ServingIn
    <2>4. /\ serving' \in Servings /\ serving'.phase = "answered"
          /\ serving'.snap = Snap /\ serving'.rx = NotServing.rx
      BY <1>2, <2>1, <2>2, <2>3 DEF Servings
    <2>5. ServingIn(log, agent, serving')
      BY <2>2, <2>4 DEF ServingIn
    <2> QED BY <1>1, <1>2, <2>1, <2>4, <2>5 DEF ServerInv
  <1> QED BY <1>3, <1>4

LEMMA ServerAttached ==
    ASSUME log \in Seq(Int), ServerInv, Attached
    PROVE  ServerInv'
  <1>1. /\ serving.phase = "answered" /\ serving' = [serving EXCEPT !.phase = "replying"]
        /\ stream' = NoStream
        /\ log' = log /\ agent' = agent /\ tail' = tail /\ wire' = wire
        /\ requests' = requests /\ client' = client /\ calls' = calls
    BY DEF Attached, actorVars
  <1>2. ServingIn(log, agent, serving) /\ serving \in Servings
    BY DEF ServerInv, ServingIn
  <1>3. /\ serving' \in Servings /\ serving'.rx = serving.rx /\ serving'.snap = serving.snap
    BY <1>1, <1>2 DEF Servings
  <1>4. ServingIn(log, agent, serving')
    BY <1>1, <1>2, <1>3 DEF ServingIn
  <1> QED BY <1>1, <1>4, NothingServed DEF ServerInv

\* A message at the end of the outbox.
LEMMA WireGrows ==
    ASSUME NEW l, NEW a, NEW w, WireIn(l, a, w), Len(w) < Outbox,
           NEW m \in Messages, MessageIn(l, a, m),
           m.kind = "output" /\ w # <<>> => m.from <= w[Len(w)].to
    PROVE  /\ WireIn(l, a, Append(w, m)) /\ Append(w, m) # <<>>
           /\ Append(w, m)[Len(Append(w, m))] = m
  <1> DEFINE v == Append(w, m)
  <1>1. w \in Seq(Messages) /\ Len(w) \in Nat
    BY DEF WireIn
  <1>2. /\ v \in Seq(Messages) /\ Len(v) = Len(w) + 1 /\ v[Len(w) + 1] = m
        /\ \A i \in 1..Len(w) : v[i] = w[i]
    BY <1>1
  <1> HIDE DEF v
  <1>3. Len(v) <= Outbox
    BY <1>1, <1>2, StreamAssumption
  <1>4. ASSUME NEW i \in 1..Len(v)
        PROVE  /\ MessageIn(l, a, v[i])
               /\ i > 1 /\ v[i].kind = "output" => v[i].from <= v[i - 1].to
    <2>1. CASE i \in 1..Len(w)
      <3>1. i > 1 => i - 1 \in 1..Len(w)
        BY <1>1, <2>1
      <3> QED BY <1>2, <2>1, <3>1 DEF WireIn
    <2>2. CASE i = Len(w) + 1
      <3>1. i > 1 => w # <<>> /\ i - 1 \in 1..Len(w) /\ i - 1 = Len(w)
        BY <1>1, <2>2
      <3> QED BY <1>2, <2>2, <3>1
    <2> QED BY <1>1, <1>2, <2>1, <2>2
  <1>5. v # <<>>
    BY <1>1, <1>2
  <1> QED BY <1>2, <1>3, <1>4, <1>5 DEF WireIn, v

LEMMA ServerReply ==
    ASSUME log \in Seq(Int), ServerInv, Reply
    PROVE  ServerInv'
  <1> DEFINE s == serving.snap
             m == SnapMsg("response", serving.n, serving.snap)
  <1>1. /\ serving.phase = "replying" /\ Len(wire) < Outbox /\ wire' = Append(wire, m)
        /\ stream' = [NoStream EXCEPT !.on = TRUE, !.next = s.at, !.rx = serving.rx,
                                      !.lag = serving.lag]
        /\ serving' = NotServing
        /\ log' = log /\ agent' = agent /\ tail' = tail
        /\ requests' = requests /\ client' = client /\ calls' = calls
    BY DEF Reply, actorVars
  <1>2. /\ serving \in Servings /\ ChunksIn(log, serving.rx)
        /\ s \in Snaps /\ RightIn(log, agent, s.at, s.shows, s.slept)
    BY <1>1 DEF ServerInv, ServingIn
  <1>3. /\ m \in Messages /\ m.kind = "response" /\ m.to = s.at /\ m.shows = s.shows
        /\ m.slept = s.slept
    <2>1. serving.n \in Nat /\ s.at \in Nat /\ s.shows \in Seq(Int) /\ s.slept \in BOOLEAN
      BY <1>2 DEF Servings, Snaps
    <2> QED BY <2>1 DEF SnapMsg, Messages
  <1> HIDE DEF m
  <1>4. MessageIn(log, agent, m)
    BY <1>2, <1>3 DEF MessageIn
  <1>5. WireIn(log, agent, wire)
    BY DEF ServerInv
  <1>6. /\ WireIn(log, agent, wire') /\ wire' # <<>> /\ wire'[Len(wire')] = m
    BY <1>1, <1>3, <1>4, <1>5, WireGrows
  <1>7. StreamIn(log, agent, stream') /\ stream'.next = m.to
    <2>1. NoStream \in Streams /\ NoStream.phase = "recv"
      BY NothingServed DEF StreamIn, NoStream
    <2>2. s.at \in Nat /\ s.at <= Len(log) /\ serving.rx \in Seq(Chunks)
          /\ serving.lag \in BOOLEAN
      BY <1>2 DEF Snaps, RightIn, Servings
    <2>3. /\ stream' \in Streams /\ stream'.rx = serving.rx /\ stream'.phase = "recv"
          /\ stream'.next = s.at
      BY <1>1, <2>1, <2>2 DEF Streams
    <2> QED BY <1>2, <1>3, <2>2, <2>3 DEF StreamIn
  <1>8. ServingIn(log, agent, serving') /\ serving'.phase = "idle"
    BY <1>1, NothingServed
  <1> QED BY <1>1, <1>6, <1>7, <1>8 DEF ServerInv

\* What the stream task makes of a chunk.
LEMMA TakesIn ==
    ASSUME NEW l, NEW a, NEW s, StreamIn(l, a, s), s.rx # <<>>
    PROVE  /\ StreamIn(l, a, Takes(s)) /\ Takes(s).on = s.on /\ Takes(s).next = s.next
  <1> DEFINE c == Head(s.rx)
             y == Tail(s.rx)
             m == OutMsg(c)
             t == Takes(s)
  <1>1. /\ s \in Streams /\ s.rx \in Seq(Chunks) /\ Len(s.rx) \in Nat
        /\ Len(s.rx) <= Backlog /\ s.next <= Len(l) /\ s.next \in Nat
        /\ \A i \in 1..Len(s.rx) : ChunkIn(l, s.rx[i].from, s.rx[i].to)
    BY DEF StreamIn, Streams, ChunksIn
  <1>2. /\ c \in Chunks /\ c = s.rx[1] /\ 1 \in 1..Len(s.rx)
        /\ y \in Seq(Chunks) /\ Len(y) = Len(s.rx) - 1 /\ Len(y) \in Nat
        /\ \A i \in 1..Len(y) : y[i] = s.rx[i + 1]
    BY <1>1
  <1>3. ChunkIn(l, c.from, c.to)
    BY <1>1, <1>2
  <1> HIDE DEF c, y
  <1>4. ChunksIn(l, y)
    <2>1. \A i \in 1..Len(y) : i + 1 \in 1..Len(s.rx)
      BY <1>1, <1>2
    <2>2. Len(y) <= Backlog
      BY <1>1, <1>2, StreamAssumption
    <2> QED BY <1>1, <1>2, <2>1, <2>2 DEF ChunksIn
  <1>5. /\ m \in Messages /\ m.kind = "output" /\ m.from = c.from /\ m.to = c.to
    <2>1. c.from \in Nat /\ c.to \in Nat /\ <<>> \in Seq(Int)
      BY <1>2 DEF Chunks
    <2> QED BY <2>1 DEF OutMsg, Messages, None
  <1>6. MessageIn(l, a, m)
    BY <1>3, <1>5 DEF MessageIn
  <1> HIDE DEF m
  <1>7. \/ t = [s EXCEPT !.phase = "resync", !.lag = FALSE]
        \/ t = [s EXCEPT !.rx = y]
        \/ t = [s EXCEPT !.rx = y, !.phase = "resync"]
        \/ t = [s EXCEPT !.rx = y, !.phase = "send", !.msg = m] /\ c.from <= s.next
    BY <1>1 DEF Takes, c, y, m, Streams
  <1> HIDE DEF t
  <1>8. CASE t = [s EXCEPT !.phase = "resync", !.lag = FALSE]
    <2>1. /\ t \in Streams /\ t.rx = s.rx /\ t.phase = "resync" /\ t.on = s.on
          /\ t.next = s.next
      BY <1>1, <1>8 DEF Streams
    <2> QED BY <1>1, <2>1 DEF StreamIn, t
  <1>9. CASE t = [s EXCEPT !.rx = y]
    <2>1. /\ t \in Streams /\ t.rx = y /\ t.phase = s.phase /\ t.on = s.on
          /\ t.next = s.next /\ t.msg = s.msg
      BY <1>1, <1>2, <1>9 DEF Streams
    <2>2. StreamIn(l, a, t)
      BY <1>1, <1>4, <2>1 DEF StreamIn
    <2> QED BY <2>1, <2>2 DEF t
  <1>10. CASE t = [s EXCEPT !.rx = y, !.phase = "resync"]
    <2>1. /\ t \in Streams /\ t.rx = y /\ t.phase = "resync" /\ t.on = s.on
          /\ t.next = s.next
      BY <1>1, <1>2, <1>10 DEF Streams
    <2>2. StreamIn(l, a, t)
      BY <1>1, <1>4, <2>1 DEF StreamIn
    <2> QED BY <2>1, <2>2 DEF t
  <1>11. CASE t = [s EXCEPT !.rx = y, !.phase = "send", !.msg = m] /\ c.from <= s.next
    <2>1. /\ t \in Streams /\ t.rx = y /\ t.phase = "send" /\ t.on = s.on
          /\ t.next = s.next /\ t.msg = m
      BY <1>1, <1>2, <1>5, <1>11 DEF Streams
    <2>2. StreamIn(l, a, t)
      BY <1>1, <1>4, <1>5, <1>6, <1>11, <2>1 DEF StreamIn
    <2> QED BY <2>1, <2>2 DEF t
  <1> QED BY <1>7, <1>8, <1>9, <1>10, <1>11

LEMMA ServerStreamTakes ==
    ASSUME ServerInv, StreamTakes
    PROVE  ServerInv'
  <1>1. /\ stream.on /\ stream.rx # <<>> /\ stream' = Takes(stream)
        /\ log' = log /\ agent' = agent /\ tail' = tail /\ wire' = wire
        /\ requests' = requests /\ client' = client /\ calls' = calls
        /\ serving' = serving
    BY DEF StreamTakes, actorVars
  <1>2. /\ StreamIn(log, agent, stream') /\ stream'.on = stream.on
        /\ stream'.next = stream.next
    BY <1>1, TakesIn DEF ServerInv
  <1> QED BY <1>1, <1>2 DEF ServerInv

LEMMA ServerStreamResyncs ==
    ASSUME log \in Seq(Int), ServerInv, StreamResyncs
    PROVE  ServerInv'
  <1> DEFINE m == SnapMsg("snapshot", None, Snap)
  <1>1. /\ stream.on /\ stream' = [stream EXCEPT !.phase = "send", !.msg = m]
        /\ log' = log /\ agent' = agent /\ tail' = tail /\ wire' = wire
        /\ requests' = requests /\ client' = client /\ calls' = calls
        /\ serving' = serving
    BY DEF StreamResyncs, actorVars
  <1>2. /\ Snap \in Snaps /\ RightIn(log, agent, Snap.at, Snap.shows, Snap.slept)
    BY SnapIn DEF ServerInv
  <1>3. /\ m \in Messages /\ m.kind = "snapshot" /\ m.to = Snap.at
        /\ m.shows = Snap.shows /\ m.slept = Snap.slept
    <2>1. Snap.at \in Nat /\ Snap.shows \in Seq(Int) /\ Snap.slept \in BOOLEAN
      BY <1>2 DEF Snaps
    <2> QED BY <2>1 DEF SnapMsg, Messages, None
  <1> HIDE DEF m
  <1>4. MessageIn(log, agent, m)
    BY <1>2, <1>3 DEF MessageIn
  <1>5. stream \in Streams
    BY DEF ServerInv, StreamIn
  <1>6. /\ stream' \in Streams /\ stream'.on = stream.on /\ stream'.next = stream.next
        /\ stream'.rx = stream.rx /\ stream'.msg = m
    BY <1>1, <1>3, <1>5 DEF Streams
  <1>7. StreamIn(log, agent, stream')
    BY <1>3, <1>4, <1>6 DEF StreamIn, ServerInv
  <1> QED BY <1>1, <1>6, <1>7 DEF ServerInv

LEMMA ServerStreamSends ==
    ASSUME ServerInv, StreamSends
    PROVE  /\ ServerInv' /\ wire' # <<>> /\ wire'[Len(wire')] = stream.msg
           /\ stream'.on = stream.on
  <1> DEFINE m == stream.msg
  <1>1. /\ stream.on /\ stream.phase = "send" /\ Len(wire) < Outbox
        /\ wire' = Append(wire, m)
        /\ stream' = [stream EXCEPT !.phase = "recv", !.next = m.to, !.msg = None]
        /\ log' = log /\ agent' = agent /\ tail' = tail
        /\ requests' = requests /\ client' = client /\ calls' = calls
        /\ serving' = serving
    BY DEF StreamSends, actorVars
  <1>2. /\ m \in Messages /\ MessageIn(log, agent, m)
        /\ m.kind = "output" => m.from <= stream.next
        /\ WireIn(log, agent, wire)
        /\ wire # <<>> => stream.next = wire[Len(wire)].to
    BY <1>1 DEF ServerInv, StreamIn
  <1> HIDE DEF m
  <1>3. /\ WireIn(log, agent, wire') /\ wire' # <<>> /\ wire'[Len(wire')] = m
    BY <1>1, <1>2, WireGrows
  <1>4. m.to \in Nat /\ m.to <= Len(log)
    BY <1>2 DEF Messages, MessageIn, ChunkIn, RightIn
  <1>5. stream \in Streams
    BY DEF ServerInv, StreamIn
  <1>6. /\ stream' \in Streams /\ stream'.on = stream.on /\ stream'.next = m.to
        /\ stream'.rx = stream.rx /\ stream'.phase = "recv"
    BY <1>1, <1>4, <1>5 DEF Streams
  <1>7. StreamIn(log, agent, stream')
    BY <1>4, <1>6 DEF StreamIn, ServerInv
  <1>8. ServerInv'
    BY <1>1, <1>3, <1>6, <1>7 DEF ServerInv
  <1> QED BY <1>3, <1>6, <1>8 DEF m

\* The connection of the client is gone.
LEMMA ServerGone ==
    ASSUME log' \in Seq(Int), tail' \in Seq(Int), calls' \in Nat, NoConnection
    PROVE  ServerInv'
  <1>1. <<>> \in Seq(Nat)
    OBVIOUS
  <1>2. /\ requests' = <<>> /\ serving' = NotServing /\ stream' = NoStream
        /\ wire' = <<>> /\ client' = Off
    BY DEF NoConnection
  <1> QED BY <1>1, <1>2, NothingServed, OffIn DEF ServerInv

\* A snapshot is put in place.
LEMMA AppliedIn ==
    ASSUME NEW l, NEW a, NEW c, ClientIn(l, a, c), NEW m \in Messages,
           RightIn(l, a, m.to, m.shows, m.slept), NEW e, e = Applied(c, m)
    PROVE  /\ ClientIn(l, a, e) /\ e.next = m.to /\ e.shows = m.shows /\ e.n = c.n
           /\ e.queue = c.queue /\ e.resolved = c.resolved
           /\ (e.slept <=> m.slept) /\ ~e.syncing /\ (e.waiting <=> c.waiting)
           /\ (e.overtaken <=> c.overtaken)
  <1>1. c \in Clients /\ m.to \in Nat /\ m.shows \in Seq(Int) /\ m.slept \in BOOLEAN
    BY DEF ClientIn, Messages
  <1>2. e = [c EXCEPT !.next = m.to, !.shows = m.shows, !.slept = m.slept,
                      !.syncing = FALSE]
    BY DEF Applied
  <1>3. /\ e \in Clients /\ e.next = m.to /\ e.shows = m.shows
        /\ e.slept = m.slept /\ e.syncing = FALSE /\ e.n = c.n
        /\ e.waiting = c.waiting /\ e.queue = c.queue
        /\ e.resolved = c.resolved /\ e.overtaken = c.overtaken
    BY <1>1, <1>2 DEF Clients
  <1>4. ClientIn(l, a, e)
    BY <1>3 DEF ClientIn, RightIn
  <1> QED BY <1>3, <1>4

\* The queue of a client, one shorter or one longer.
LEMMA DequeuedIn ==
    ASSUME NEW l, NEW a, NEW c, ClientIn(l, a, c), c.queue # <<>>
    PROVE  ClientIn(l, a, [c EXCEPT !.queue = Tail(@)])
  <1> DEFINE q == c.queue
             y == Tail(q)
             e == [c EXCEPT !.queue = y]
  <1>1. c \in Clients /\ q \in Seq(Messages) /\ Len(q) \in Nat
        /\ \A i \in 1..Len(q) : ChunkIn(l, q[i].from, q[i].to)
    BY DEF ClientIn, Clients
  <1>2. /\ y \in Seq(Messages) /\ Len(y) = Len(q) - 1 /\ Len(y) \in Nat
        /\ \A i \in 1..Len(y) : y[i] = q[i + 1]
    BY <1>1
  <1>3. \A i \in 1..Len(y) : i + 1 \in 1..Len(q)
    BY <1>1, <1>2
  <1>4. \A i \in 1..Len(y) : ChunkIn(l, y[i].from, y[i].to)
    BY <1>1, <1>2, <1>3
  <1> HIDE DEF y, e
  <1>5. e \in Clients /\ e.queue = y /\ e.next = c.next /\ e.resolved = c.resolved
    BY <1>1, <1>2 DEF Clients, e
  <1>6. ClientIn(l, a, e)
    BY <1>4, <1>5 DEF ClientIn
  <1> QED BY <1>6 DEF e, y

LEMMA QueuedIn ==
    ASSUME NEW l, NEW a, NEW c, ClientIn(l, a, c), NEW m \in Messages,
           ChunkIn(l, m.from, m.to)
    PROVE  ClientIn(l, a, [c EXCEPT !.queue = Append(@, m)])
  <1> DEFINE q == c.queue
             y == Append(q, m)
             e == [c EXCEPT !.queue = y]
  <1>1. c \in Clients /\ q \in Seq(Messages) /\ Len(q) \in Nat
        /\ \A i \in 1..Len(q) : ChunkIn(l, q[i].from, q[i].to)
    BY DEF ClientIn, Clients
  <1>2. /\ y \in Seq(Messages) /\ Len(y) = Len(q) + 1 /\ y[Len(q) + 1] = m
        /\ \A i \in 1..Len(q) : y[i] = q[i]
    BY <1>1
  <1>3. \A i \in 1..Len(y) : i \in 1..Len(q) \/ i = Len(q) + 1
    BY <1>1, <1>2
  <1>4. \A i \in 1..Len(y) : ChunkIn(l, y[i].from, y[i].to)
    BY <1>1, <1>2, <1>3
  <1> HIDE DEF y, e
  <1>5. e \in Clients /\ e.queue = y /\ e.next = c.next /\ e.resolved = c.resolved
    BY <1>1, <1>2 DEF Clients, e
  <1>6. ClientIn(l, a, e)
    BY <1>4, <1>5 DEF ClientIn
  <1> QED BY <1>6 DEF e, y

\* The first message of the wire is read.
LEMMA WireRead ==
    ASSUME NEW l, NEW a, NEW w, WireIn(l, a, w), w # <<>>
    PROVE  /\ WireIn(l, a, Tail(w)) /\ Head(w) \in Messages /\ MessageIn(l, a, Head(w))
           /\ Head(w) = w[1] /\ Len(w) \in Nat /\ Len(w) > 0
           /\ Tail(w) \in Seq(Messages) /\ Len(Tail(w)) = Len(w) - 1
           /\ \A i \in 1..Len(Tail(w)) : i + 1 \in 1..Len(w) /\ Tail(w)[i] = w[i + 1]
           /\ Tail(w) # <<>> => Tail(w)[Len(Tail(w))] = w[Len(w)]
  <1> DEFINE v == Tail(w)
  <1>1. w \in Seq(Messages) /\ Len(w) \in Nat /\ Len(w) <= Outbox
    BY DEF WireIn
  <1>2. Head(w) \in Messages /\ Head(w) = w[1] /\ 1 \in 1..Len(w)
    BY <1>1
  <1>3. MessageIn(l, a, Head(w))
    BY <1>2 DEF WireIn
  <1>4. /\ v \in Seq(Messages) /\ Len(v) = Len(w) - 1 /\ Len(v) \in Nat
        /\ \A i \in 1..Len(v) : v[i] = w[i + 1]
    BY <1>1
  <1> HIDE DEF v
  <1>5. \A i \in 1..Len(v) : i + 1 \in 1..Len(w)
    BY <1>1, <1>4
  <1>6. v # <<>> => v[Len(v)] = w[Len(w)]
    <2> SUFFICES ASSUME v # <<>> PROVE v[Len(v)] = w[Len(w)]
      OBVIOUS
    <2>1. Len(v) \in 1..Len(v) /\ Len(v) + 1 = Len(w)
      BY <1>1, <1>4
    <2> QED BY <1>4, <2>1
  <1>7. ASSUME NEW i \in 1..Len(v), i > 1, v[i].kind = "output"
        PROVE  v[i].from <= v[i - 1].to
    <2>1. i - 1 \in 1..Len(v) /\ i + 1 \in 1..Len(w) /\ i + 1 > 1 /\ (i + 1) - 1 = i
          /\ (i - 1) + 1 = i
      BY <1>4, <1>5, <1>7
    <2>2. v[i] = w[i + 1] /\ v[i - 1] = w[i]
      BY <1>4, <2>1
    <2>3. w[i + 1].from <= w[(i + 1) - 1].to
      BY <1>7, <2>1, <2>2 DEF WireIn
    <2> QED BY <2>1, <2>2, <2>3
  <1>8. \A i \in 1..Len(v) : MessageIn(l, a, v[i])
    BY <1>4, <1>5 DEF WireIn
  <1>9. Len(v) <= Outbox
    BY <1>1, <1>4, StreamAssumption
  <1>10. WireIn(l, a, v)
    BY <1>4, <1>7, <1>8, <1>9 DEF WireIn
  <1>11. Len(w) > 0
    BY <1>1
  <1> QED BY <1>1, <1>2, <1>3, <1>4, <1>5, <1>6, <1>10, <1>11 DEF v

LEMMA ClientAttaches ==
    ASSUME log \in Seq(Int), ServerInv, NEW n \in 1..NAttach, Attach(n)
    PROVE  ServerInv' /\ n \in Nat \ {0}
           /\ client'.n = n /\ client'.waiting = TRUE /\ client'.syncing = TRUE
           /\ client'.queue = <<>> /\ client'.resolved = <<>> /\ client'.next = 0
  <1>1. /\ n = calls + 1 /\ calls' = n /\ requests' = Append(requests, n)
        /\ client' = [Off EXCEPT !.n = n, !.waiting = TRUE, !.syncing = TRUE]
        /\ log' = log /\ agent' = agent /\ tail' = tail /\ wire' = wire
        /\ serving' = serving /\ stream' = stream
    BY DEF Attach, actorVars
  <1>1a. requests' = Append(requests, n)
    BY DEF Attach
  <1>2. n \in Nat \ {0}
    BY StreamAssumption
  <1>3. ClientIn(log, agent, Off)
    BY OffIn
  <1>4. /\ client' \in Clients /\ client'.n = n /\ client'.waiting = TRUE
        /\ client'.syncing = TRUE
        /\ client'.queue = Off.queue /\ client'.next = Off.next
        /\ client'.resolved = Off.resolved
    BY <1>1, <1>2, <1>3 DEF ClientIn, Clients
  <1>5. ClientIn(log, agent, client')
    BY <1>3, <1>4 DEF ClientIn
  <1>6. requests' \in Seq(Nat)
    <2>1. requests \in Seq(Nat)
      BY DEF ServerInv
    <2>2. n \in Nat
      BY <1>2
    <2>3. Append(requests, n) \in Seq(Nat)
      BY <2>1, <2>2
    <2> QED BY <1>1a, <2>3
  <1>7. ServerInv'
    BY <1>1, <1>2, <1>5, <1>6 DEF ServerInv
  <1> QED BY <1>2, <1>4, <1>7 DEF Off

LEMMA ClientStops ==
    ASSUME log \in Seq(Int), ServerInv, TimeOut \/ Detach
    PROVE  ServerInv'
  <1>1. /\ client' = Off
        /\ log' = log /\ agent' = agent /\ tail' = tail /\ wire' = wire
        /\ serving' = serving /\ stream' = stream /\ calls' = calls
    BY DEF TimeOut, Detach, actorVars, serverVars
  <1>2. requests' = requests \/ requests' = Append(requests, None)
    BY DEF TimeOut, Detach, serverVars
  <1>3. requests' \in Seq(Nat)
    <2>1. requests \in Seq(Nat) /\ None \in Nat
      BY DEF ServerInv, None
    <2>2. Append(requests, None) \in Seq(Nat)
      BY <2>1
    <2> QED BY <1>2, <2>1, <2>2
  <1>4. ClientIn(log, agent, Off)
    BY OffIn
  <1> QED BY <1>1, <1>3, <1>4 DEF ServerInv

LEMMA ClientDelivers ==
    ASSUME log \in Seq(Int), ServerInv, DeliverQueued
    PROVE  ServerInv'
  <1> DEFINE m == Head(client.queue)
             e == Delivered(client, m)
  <1>1. /\ client.queue # <<>> /\ client' = [e EXCEPT !.queue = Tail(@)]
        /\ log' = log /\ agent' = agent /\ tail' = tail /\ wire' = wire
        /\ serving' = serving /\ stream' = stream /\ calls' = calls
        /\ requests' = requests
    BY DEF DeliverQueued, Draining, actorVars, serverVars
  <1>2. ClientIn(log, agent, client) /\ client.queue \in Seq(Messages)
    BY DEF ServerInv, ClientIn, Clients
  <1>3. m \in Messages /\ ChunkIn(log, m.from, m.to)
    <2>1. m \in Messages /\ m = client.queue[1] /\ 1 \in 1..Len(client.queue)
      BY <1>1, <1>2
    <2> QED BY <1>2, <2>1 DEF ClientIn
  <1> HIDE DEF m
  <1>4. ClientIn(log, agent, e) /\ e.queue = client.queue
    BY <1>2, <1>3, DeliveredIn
  <1> HIDE DEF e
  <1>5. ClientIn(log, agent, client')
    BY <1>1, <1>4, DequeuedIn
  <1> QED BY <1>1, <1>5 DEF ServerInv

LEMMA ClientResolves ==
    ASSUME ServerInv, AttachResolves
    PROVE  LET m == client.resolved[1]
           IN  /\ ServerInv'
               /\ RightIn(log, agent, m.to, m.shows, m.slept)
               /\ client'.n = client.n /\ client'.waiting = FALSE
               /\ client'.syncing = FALSE /\ client'.next = m.to
               /\ client'.shows = m.shows /\ (client'.slept <=> m.slept)
               /\ client'.resolved = <<>> /\ client'.queue = client.queue
               /\ client'.overtaken <=> ~client.syncing /\ client.next > m.to
  <1> DEFINE m == client.resolved[1]
             e == Applied(client, m)
  <1>0. PICK o \in BOOLEAN : o <=> ~client.syncing /\ client.next > m.to
    OBVIOUS
  <1>0a. o = (~client.syncing /\ client.next > m.to)
    BY <1>0
  <1>1. /\ client.resolved # <<>>
        /\ client' = [e EXCEPT !.waiting = FALSE, !.resolved = <<>>, !.overtaken = o]
        /\ log' = log /\ agent' = agent /\ tail' = tail /\ wire' = wire
        /\ serving' = serving /\ stream' = stream /\ calls' = calls
        /\ requests' = requests
    BY <1>0a DEF AttachResolves, actorVars, serverVars
  <1>2. /\ ClientIn(log, agent, client) /\ client.resolved \in Seq(Messages)
        /\ RightIn(log, agent, m.to, m.shows, m.slept)
    BY <1>1 DEF ServerInv, ClientIn, Clients
  <1>3. m \in Messages
    BY <1>1, <1>2
  <1> HIDE DEF m
  <1>4. /\ ClientIn(log, agent, e) /\ e.next = m.to /\ e.shows = m.shows
        /\ (e.slept <=> m.slept) /\ ~e.syncing /\ e.n = client.n
        /\ e.queue = client.queue
    BY <1>2, <1>3, AppliedIn
  <1> HIDE DEF e
  <1>5. <<>> \in Seq(Messages)
    OBVIOUS
  <1>6. /\ client' \in Clients /\ client'.n = e.n /\ client'.waiting = FALSE
        /\ client'.syncing = e.syncing /\ client'.next = e.next
        /\ client'.shows = e.shows /\ client'.slept = e.slept
        /\ client'.resolved = <<>> /\ client'.queue = e.queue /\ client'.overtaken = o
    BY <1>1, <1>4, <1>5 DEF ClientIn, Clients
  <1>7. ClientIn(log, agent, client')
    BY <1>4, <1>6 DEF ClientIn
  <1>8. ServerInv'
    BY <1>1, <1>7 DEF ServerInv
  <1> QED BY <1>0, <1>2, <1>4, <1>6, <1>8 DEF m

\* What the client makes of a message.
LEMMA OnFrameIn ==
    ASSUME ClientIn(log, agent, client), log \in Seq(Int),
           NEW m \in Messages, MessageIn(log, agent, m), OnFrame(m)
    PROVE  ClientIn(log, agent, client')
  <1>1. CASE client.n = None
    <2>1. client' = client
      BY <1>1 DEF OnFrame
    <2> QED BY <2>1
  <1>2. CASE client.n # None /\ m.kind = "response"
    <2>1. client' = client \/ client' = [client EXCEPT !.resolved = <<m>>]
      BY <1>2 DEF OnFrame
    <2>2. CASE client' = [client EXCEPT !.resolved = <<m>>]
      <3>1. <<m>> \in Seq(Messages) /\ <<m>>[1] = m
        OBVIOUS
      <3>2. /\ client' \in Clients /\ client'.resolved = <<m>>
            /\ client'.queue = client.queue /\ client'.next = client.next
        BY <2>2, <3>1 DEF ClientIn, Clients
      <3>3. RightIn(log, agent, m.to, m.shows, m.slept)
        BY <1>2 DEF MessageIn
      <3> QED BY <3>1, <3>2, <3>3 DEF ClientIn
    <2> QED BY <2>1, <2>2
  <1>3. CASE client.n # None /\ m.kind = "snapshot"
    <2> DEFINE e == Applied(client, m)
    <2>0. PICK o \in BOOLEAN : o <=> e.overtaken \/ client.waiting
      OBVIOUS
    <2>0a. o = (e.overtaken \/ client.waiting)
      BY <2>0
    <2>1. client' = [e EXCEPT !.overtaken = o]
      BY <1>3, <2>0a DEF OnFrame
    <2>2. RightIn(log, agent, m.to, m.shows, m.slept)
      BY <1>3 DEF MessageIn
    <2>3. ClientIn(log, agent, e)
      BY <2>2, AppliedIn
    <2> HIDE DEF e
    <2>4. /\ client' \in Clients /\ client'.resolved = e.resolved
          /\ client'.queue = e.queue /\ client'.next = e.next
      BY <2>1, <2>3 DEF ClientIn, Clients
    <2> QED BY <2>3, <2>4 DEF ClientIn
  <1>4. CASE client.n # None /\ m.kind = "output"
    <2>1. \/ client' = [client EXCEPT !.queue = Append(@, m)]
          \/ client' = Delivered(client, m)
      BY <1>4 DEF OnFrame
    <2>2. ChunkIn(log, m.from, m.to)
      BY <1>4 DEF MessageIn
    <2> QED BY <2>1, <2>2, QueuedIn, DeliveredIn
  <1>5. m.kind \in {"response", "snapshot", "output"}
    BY DEF Messages
  <1> QED BY <1>1, <1>2, <1>3, <1>4, <1>5

LEMMA ServerClientReads ==
    ASSUME log \in Seq(Int), ServerInv, ClientReads
    PROVE  ServerInv'
  <1>1. /\ wire # <<>> /\ wire' = Tail(wire) /\ OnFrame(Head(wire))
        /\ log' = log /\ agent' = agent /\ tail' = tail
        /\ serving' = serving /\ stream' = stream /\ calls' = calls
        /\ requests' = requests
    BY DEF ClientReads, actorVars
  <1>2. /\ WireIn(log, agent, wire') /\ Head(wire) \in Messages
        /\ MessageIn(log, agent, Head(wire))
        /\ wire' # <<>> => wire'[Len(wire')] = wire[Len(wire)]
    BY <1>1, WireRead DEF ServerInv
  <1>3. ClientIn(log, agent, client')
    BY <1>1, <1>2, OnFrameIn DEF ServerInv
  <1> QED BY <1>1, <1>2, <1>3 DEF ServerInv

LEMMA ServerInit ==
    ASSUME Init
    PROVE  ServerInv
  <1>1. <<>> \in Seq(Int) /\ <<>> \in Seq(Nat)
    OBVIOUS
  <1>2. /\ log = <<>> /\ tail = <<>> /\ requests = <<>> /\ calls = 0
        /\ serving = NotServing /\ stream = NoStream /\ wire = <<>> /\ client = Off
    BY DEF Init
  <1> QED BY <1>1, <1>2, NothingServed, OffIn DEF ServerInv

LEMMA ServerNext ==
    ASSUME FeedInv, LinkInv, FeedInv', ServerInv, [Next]_vars
    PROVE  ServerInv'
  <1>1. log \in Seq(Int) /\ log' \in Seq(Int) /\ tail \in Seq(Int) /\ calls \in Nat
    BY DEF FeedInv, ServerInv
  <1>2. CASE \/ \E n \in 1..MaxWrite : Write(n)
             \/ End \/ HoldAttach \/ ReadExit \/ ReadEof \/ Reconnect
             \/ Spawned \/ WakeFailed \/ GoToSleep
    <2>1. UNCHANGED <<log, serverVars, client, calls>>
      BY <1>2 DEF Write, End, HoldAttach, ReadExit, ReadEof, Reconnect, Spawned,
         WakeFailed, GoToSleep, actorVars
    <2>2. agent = "asleep" => agent' = "asleep"
      BY <1>2 DEF Write, End, HoldAttach, ReadExit, ReadEof, Reconnect, Spawned,
         WakeFailed, GoToSleep, actorVars
    <2>3. Goes(log, agent, log', agent')
      BY <1>1, <2>1, <2>2, GoesSame
    <2>4. tail' = tail \/ tail' = Shown(log)
      BY <1>2 DEF Write, End, HoldAttach, ReadExit, ReadEof, Reconnect, Spawned,
         WakeFailed, GoToSleep, actorVars
    <2>5. tail' \in Seq(Int)
      BY <1>1, <2>4, ShownType
    <2> QED BY <2>1, <2>3, <2>5, ServerWorld
  <1>3. CASE ReadOutput \/ BeginWake
    BY <1>3, ServerReadOutput, ServerBeginWake
  <1>4. CASE Server
    BY <1>1, <1>4, ServerReadRequest, ServerAttached, ServerReply, ServerStreamTakes,
       ServerStreamResyncs, ServerStreamSends DEF Server
  <1>5. CASE Client
    BY <1>1, <1>5, ServerClientReads, ClientResolves, ClientDelivers DEF Client
  <1>6. CASE TimeOut \/ Detach \/ \E n \in 1..NAttach : Attach(n)
    BY <1>1, <1>6, ClientStops, ClientAttaches
  <1>7. CASE ConnectionLost \/ \E k \in 0..MaxWrite : Restart(k)
    <2>1. NoConnection /\ tail' = tail /\ calls' = calls
      BY <1>7 DEF ConnectionLost, Restart, actorVars
    <2> QED BY <1>1, <2>1, ServerGone
  <1>8. CASE UNCHANGED vars
    <2>1. UNCHANGED <<log, agent, tail, serverVars, client, calls>>
      BY <1>8 DEF vars, actorVars
    <2>2. Goes(log, agent, log', agent')
      BY <1>1, <2>1, GoesSame
    <2> QED BY <1>1, <2>1, <2>2, ServerWorld
  <1> QED
    BY <1>2, <1>3, <1>4, <1>5, <1>6, <1>7, <1>8 DEF Next, Actor

LEMMA ServerAlways == Spec => [](FeedInv /\ LinkInv /\ ServerInv)
  <1>1. Init => ServerInv
    BY ServerInit
  <1>2. FeedInv /\ LinkInv /\ FeedInv' /\ ServerInv /\ [Next]_vars => ServerInv'
    BY ServerNext
  <1> QED BY <1>1, <1>2, FeedAlways, PTL DEF Spec

\* Every variable has its type, the queues of the holder, of the actor and of
\* the server never hold more than they may (enqueue, broadcast, the outbox),
\* and no offset is beyond what was written and cleared.
THEOREM TypeCorrect == Spec => []TypeOK
  <1>1. FeedInv /\ LinkInv /\ ServerInv => TypeOK
    <2> SUFFICES ASSUME FeedInv, LinkInv, ServerInv PROVE TypeOK
      OBVIOUS
    <2>1. /\ first \in Nat /\ written \in Nat /\ first + written <= MaxWrite
          /\ base \in Nat /\ Read \in Nat /\ Read <= written /\ Len(log) = base + Read
          /\ base <= first + 2 * (life - 1) /\ life \in 1..Lives
          /\ ended \in BOOLEAN /\ sleeping \in BOOLEAN
          /\ agent \in {"on", "asleep", "starting"}
      BY DEF FeedInv, FeedIn
    <2>2. MaxWrite \in Nat /\ Lives \in Nat
      BY StreamAssumption
    <2>3. written \in 0..MaxWrite /\ Read \in 0..MaxWrite
      BY <2>1, <2>2
    <2>4. PICK n \in Nat : n = Len(log) /\ n <= MaxWrite + 2 * Lives
      BY <2>1, <2>2
    <2>5. base \in 0..Len(log)
      BY <2>1
    <2>6. ASSUME NEW p \in Nat, p <= Len(log) PROVE p \in Offsets
      BY <2>2, <2>4, <2>6 DEF Offsets
    <2>7. Len(log) \in Offsets
      BY <2>4, <2>6
    <2>8. /\ link.asked \in {Nowhere} \union 0..MaxWrite
          /\ Len(link.frames) <= HoldQueue
      BY <2>3 DEF LinkInv, LinkIn
    <2>9. ASSUME NEW rx, ChunksIn(log, rx)
          PROVE  Len(rx) <= Backlog /\ \A i \in 1..Len(rx) : rx[i] \in Intervals
      <3>1. Len(rx) <= Backlog /\ rx \in Seq(Chunks)
        BY <2>9 DEF ChunksIn
      <3>2. ASSUME NEW i \in 1..Len(rx) PROVE rx[i] \in Intervals
        <4>1. rx[i] \in Chunks /\ ChunkIn(log, rx[i].from, rx[i].to)
          BY <2>9, <3>1 DEF ChunksIn
        <4>2. /\ rx[i].from \in Nat /\ rx[i].to \in Nat /\ rx[i].to <= Len(log)
              /\ rx[i].from < rx[i].to
          BY <4>1 DEF Chunks, ChunkIn
        <4>3. rx[i].from <= Len(log)
          BY <2>4, <4>2
        <4>4. rx[i].from \in Offsets /\ rx[i].to \in Offsets
          BY <2>6, <4>2, <4>3
        <4> QED BY <4>1, <4>4 DEF Chunks, Intervals
      <3> QED BY <3>1, <3>2
    <2>10. \A r \in {stream, serving} :
              Len(r.rx) <= Backlog /\ \A i \in 1..Len(r.rx) : r.rx[i] \in Intervals
      <3>1. ChunksIn(log, stream.rx) /\ ChunksIn(log, serving.rx)
        BY DEF ServerInv, StreamIn, ServingIn
      <3> QED BY <2>9, <3>1
    <2>11. Len(wire) <= Outbox
      BY DEF ServerInv, WireIn
    <2>12. stream.next \in Offsets /\ client.next \in Offsets
      <3>1. /\ stream.next \in Nat /\ stream.next <= Len(log)
            /\ client.next \in Nat /\ client.next <= Len(log)
        BY DEF ServerInv, StreamIn, ClientIn, Streams, Clients
      <3> QED BY <2>6, <3>1
    <2> HIDE DEF FeedInv, LinkInv, ServerInv
    <2> QED BY <2>1, <2>3, <2>5, <2>7, <2>8, <2>10, <2>11, <2>12 DEF TypeOK
  <1> QED BY <1>1, ServerAlways, PTL

-----------------------------------------------------------------------------
(* The attaches of the client are answered in their order.                 *)

\* The responses in w are of attaches before the attach n, and showed no later
\* offset than p.
Earlier(w, n, p) ==
    \A k \in 1..Len(w) : w[k].kind = "response" => w[k].n < n /\ w[k].to <= p

RequestsIn(rq, sv, w, n) ==
    \A i \in 1..Len(rq) : rq[i] # None =>
        /\ rq[i] <= n
        /\ \A j \in 1..Len(rq) : j < i => rq[j] < rq[i]
        /\ sv.phase # "idle" => sv.n < rq[i]
        /\ \A k \in 1..Len(w) : w[k].kind = "response" => w[k].n < rq[i]
ServedIn(sv, w, n) ==
    sv.phase # "idle" => sv.n <= n /\ Earlier(w, sv.n, sv.snap.at)
AnswersIn(w, n) ==
    \A k \in 1..Len(w) : w[k].kind = "response" =>
        /\ w[k].n <= n
        /\ \A i \in 1..Len(w) : i < k /\ w[i].kind = "response" =>
              w[i].n < w[k].n /\ w[i].to <= w[k].to

OrderInv ==
    /\ RequestsIn(requests, serving, wire, calls)
    /\ ServedIn(serving, wire, calls)
    /\ AnswersIn(wire, calls)

\* Steps that leave the requests and the answers alone.
LEMMA OrderSame ==
    ASSUME OrderInv, UNCHANGED <<requests, wire, calls>>,
           serving'.phase = "idle" <=> serving.phase = "idle", serving'.n = serving.n,
           serving'.snap = serving.snap
    PROVE  OrderInv'
  BY DEF OrderInv, RequestsIn, ServedIn, AnswersIn, Earlier

LEMMA OrderReadRequest ==
    ASSUME log \in Seq(Int), ServerInv, OrderInv, ReadRequest
    PROVE  OrderInv'
  <1>1. /\ requests # <<>> /\ serving.phase = "idle" /\ requests' = Tail(requests)
        /\ wire' = wire /\ calls' = calls
    BY DEF ReadRequest
  <1> DEFINE rq == requests
             r == Tail(requests)
  <1>2. /\ rq \in Seq(Nat) /\ Len(rq) \in Nat /\ Len(rq) > 0 /\ rq[1] = Head(rq)
        /\ rq[1] \in Nat
        /\ r \in Seq(Nat) /\ Len(r) = Len(rq) - 1 /\ Len(r) \in Nat
        /\ \A i \in 1..Len(r) : r[i] = rq[i + 1]
    <2>1. rq \in Seq(Nat) /\ rq # <<>>
      BY <1>1 DEF ServerInv
    <2> QED BY <2>1
  <1> HIDE DEF r, rq
  <1>3. \A i \in 1..Len(r) : i + 1 \in 1..Len(rq) /\ 1 < i + 1 /\ 1 \in 1..Len(rq)
    BY <1>2
  <1>4. RequestsIn(rq, serving, wire, calls)
    BY DEF OrderInv, rq
  <1>5. RequestsIn(r, serving, wire, calls)
    <2> SUFFICES ASSUME NEW i \in 1..Len(r), r[i] # None
                 PROVE  /\ r[i] <= calls
                        /\ \A j \in 1..Len(r) : j < i => r[j] < r[i]
                        /\ \A k \in 1..Len(wire) :
                              wire[k].kind = "response" => wire[k].n < r[i]
      BY <1>1 DEF RequestsIn
    <2>1. i + 1 \in 1..Len(rq) /\ r[i] = rq[i + 1]
      BY <1>2, <1>3
    <2>2. ASSUME NEW j \in 1..Len(r), j < i PROVE r[j] < r[i]
      <3>1. j + 1 \in 1..Len(rq) /\ r[j] = rq[j + 1] /\ j + 1 < i + 1
        BY <1>2, <1>3, <2>2
      <3> QED BY <1>4, <2>1, <3>1 DEF RequestsIn
    <2> QED BY <1>4, <2>1, <2>2 DEF RequestsIn
  <1>6. CASE Head(requests) = None
    <2>1. serving' = serving
      BY <1>6 DEF ReadRequest
    <2> QED BY <1>1, <1>5, <2>1 DEF OrderInv, r
  <1>7. CASE Head(requests) # None
    <2>1. /\ serving' = [NotServing EXCEPT !.phase = "answered", !.n = rq[1],
                                           !.snap = Snap]
      BY <1>2, <1>7 DEF ReadRequest, rq
    <2>2. /\ Snap.at = Len(log) /\ ServingIn(log, agent, NotServing)
      BY SnapIn, NothingServed DEF ServerInv
    <2>3. serving'.phase = "answered" /\ serving'.n = rq[1] /\ serving'.snap = Snap
      BY <2>1, <2>2 DEF NotServing
    <2>4. /\ rq[1] # None /\ 1 \in 1..Len(rq)
      BY <1>2, <1>7 DEF rq
    <2>5. /\ rq[1] <= calls
          /\ \A k \in 1..Len(wire) : wire[k].kind = "response" => wire[k].n < rq[1]
      BY <1>4, <2>4 DEF RequestsIn
    <2>6. \A k \in 1..Len(wire) : wire[k].kind = "response" => wire[k].to <= Len(log)
      BY DEF ServerInv, WireIn, MessageIn, RightIn
    <2>7. ServedIn(serving', wire, calls)
      BY <2>2, <2>3, <2>5, <2>6 DEF ServedIn, Earlier
    <2>8. RequestsIn(r, serving', wire, calls)
      <3>1. ASSUME NEW i \in 1..Len(r), r[i] # None PROVE rq[1] < r[i]
        <4>1. i + 1 \in 1..Len(rq) /\ r[i] = rq[i + 1] /\ 1 < i + 1
          BY <1>2, <1>3
        <4> QED BY <1>4, <2>4, <3>1, <4>1 DEF RequestsIn
      <3> QED BY <1>5, <2>3, <3>1 DEF RequestsIn
    <2> QED BY <1>1, <2>7, <2>8 DEF OrderInv, r
  <1> QED BY <1>6, <1>7

LEMMA OrderReply ==
    ASSUME ServerInv, OrderInv, Reply
    PROVE  OrderInv'
  <1> DEFINE s == serving.snap
             m == SnapMsg("response", serving.n, serving.snap)
             w == wire
             v == Append(wire, m)
  <1>1. /\ serving.phase = "replying" /\ wire' = v /\ serving' = NotServing
        /\ requests' = requests /\ calls' = calls
    BY DEF Reply
  <1>2. /\ m.kind = "response" /\ m.n = serving.n /\ m.to = s.at
    BY DEF SnapMsg
  <1> HIDE DEF m
  <1>3. /\ w \in Seq(Messages) /\ Len(w) \in Nat
        /\ Len(v) = Len(w) + 1 /\ v[Len(w) + 1] = m
        /\ \A i \in 1..Len(w) : v[i] = w[i]
    <2>1. w \in Seq(Messages)
      BY DEF ServerInv, WireIn
    <2> QED BY <2>1
  <1> HIDE DEF v, w
  <1>4. \A i \in 1..Len(v) : i \in 1..Len(w) \/ i = Len(w) + 1
    BY <1>3
  <1>5. /\ RequestsIn(requests, serving, w, calls) /\ AnswersIn(w, calls)
        /\ serving.n <= calls /\ Earlier(w, serving.n, s.at)
    BY <1>1 DEF OrderInv, ServedIn, w
  <1>6. NotServing.phase = "idle"
    BY DEF NotServing
  <1>7. RequestsIn(requests, NotServing, v, calls)
    BY <1>1, <1>2, <1>3, <1>4, <1>5, <1>6 DEF RequestsIn
  <1>8. ASSUME NEW k \in 1..Len(v), v[k].kind = "response"
        PROVE  /\ v[k].n <= calls
               /\ \A i \in 1..Len(v) : i < k /\ v[i].kind = "response" =>
                     v[i].n < v[k].n /\ v[i].to <= v[k].to
    <2>1. CASE k \in 1..Len(w)
      <3>1. \A i \in 1..Len(v) : i < k => i \in 1..Len(w)
        BY <1>3, <1>4, <2>1
      <3> QED BY <1>3, <1>5, <1>8, <2>1, <3>1 DEF AnswersIn
    <2>2. CASE k = Len(w) + 1
      <3>1. \A i \in 1..Len(v) : i < k => i \in 1..Len(w)
        BY <1>3, <1>4, <2>2
      <3>2. v[k].n = serving.n /\ v[k].to = s.at
        BY <1>2, <1>3, <2>2
      <3> QED BY <1>3, <1>5, <3>1, <3>2 DEF Earlier
    <2> QED BY <1>4, <2>1, <2>2
  <1>9. AnswersIn(v, calls)
    BY <1>8 DEF AnswersIn
  <1> QED BY <1>1, <1>6, <1>7, <1>9 DEF OrderInv, ServedIn

\* A message that is no response.
LEMMA OrderStreamSends ==
    ASSUME ServerInv, OrderInv, StreamSends
    PROVE  OrderInv'
  <1> DEFINE m == stream.msg
             w == wire
             v == Append(wire, m)
  <1>1. /\ stream.phase = "send" /\ wire' = v /\ serving' = serving
        /\ requests' = requests /\ calls' = calls
    BY DEF StreamSends
  <1>2. /\ m.kind # "response" /\ m \in Messages
    BY <1>1 DEF ServerInv, StreamIn
  <1> HIDE DEF m
  <1>3. /\ w \in Seq(Messages) /\ Len(w) \in Nat
        /\ Len(v) = Len(w) + 1 /\ v[Len(w) + 1] = m
        /\ \A i \in 1..Len(w) : v[i] = w[i]
    <2>1. w \in Seq(Messages)
      BY DEF ServerInv, WireIn
    <2> QED BY <2>1
  <1> HIDE DEF v, w
  <1>4. \A i \in 1..Len(v) : i \in 1..Len(w) \/ i = Len(w) + 1
    BY <1>3
  <1>5. \A i \in 1..Len(v) : v[i].kind = "response" => i \in 1..Len(w) /\ v[i] = w[i]
    BY <1>2, <1>3, <1>4
  <1>6. /\ RequestsIn(requests, serving, w, calls) /\ AnswersIn(w, calls)
        /\ ServedIn(serving, w, calls)
    BY DEF OrderInv, w
  <1>7. RequestsIn(requests, serving, v, calls)
    BY <1>5, <1>6 DEF RequestsIn
  <1>8. AnswersIn(v, calls)
    BY <1>5, <1>6 DEF AnswersIn
  <1>9. ServedIn(serving, v, calls)
    BY <1>5, <1>6 DEF ServedIn, Earlier
  <1> QED BY <1>1, <1>7, <1>8, <1>9 DEF OrderInv

LEMMA OrderClientReads ==
    ASSUME ServerInv, OrderInv, ClientReads
    PROVE  OrderInv'
  <1> DEFINE w == wire
             v == Tail(wire)
  <1>1. /\ wire # <<>> /\ wire' = v /\ serving' = serving
        /\ requests' = requests /\ calls' = calls
    BY DEF ClientReads
  <1>2. \A i \in 1..Len(v) : i + 1 \in 1..Len(w) /\ v[i] = w[i + 1]
    BY <1>1, WireRead DEF ServerInv
  <1> HIDE DEF v, w
  <1>3. /\ RequestsIn(requests, serving, w, calls) /\ AnswersIn(w, calls)
        /\ ServedIn(serving, w, calls)
    BY DEF OrderInv, w
  <1>4. RequestsIn(requests, serving, v, calls)
    BY <1>2, <1>3 DEF RequestsIn
  <1>5. AnswersIn(v, calls)
    <2>1. \A i, k \in 1..Len(v) : i < k => i + 1 < k + 1
      OBVIOUS
    <2> QED BY <1>2, <1>3, <2>1 DEF AnswersIn
  <1>6. ServedIn(serving, v, calls)
    BY <1>2, <1>3 DEF ServedIn, Earlier
  <1> QED BY <1>1, <1>4, <1>5, <1>6 DEF OrderInv

\* The client asks for more.
LEMMA OrderAsks ==
    ASSUME ServerInv, OrderInv, UNCHANGED <<serving, wire>>,
           NEW n \in Nat, requests' = Append(requests, n), calls' \in Nat,
           \/ n = None /\ calls' = calls
           \/ n = calls + 1 /\ calls' = n
    PROVE  OrderInv'
  <1> DEFINE rq == requests
             r == Append(requests, n)
  <1>1. /\ rq \in Seq(Nat) /\ Len(rq) \in Nat
        /\ Len(r) = Len(rq) + 1 /\ r[Len(rq) + 1] = n
        /\ \A i \in 1..Len(rq) : r[i] = rq[i] /\ rq[i] \in Nat
    <2>1. rq \in Seq(Nat)
      BY DEF ServerInv
    <2> QED BY <2>1
  <1>1a. requests' = r
    OBVIOUS
  <1> HIDE DEF r, rq
  <1>2. \A i \in 1..Len(r) : i \in 1..Len(rq) \/ i = Len(rq) + 1
    BY <1>1
  <1>3. /\ RequestsIn(rq, serving, wire, calls) /\ AnswersIn(wire, calls)
        /\ ServedIn(serving, wire, calls)
    BY DEF OrderInv, rq
  <1>4. calls \in Nat /\ calls <= calls' /\ (n # None => calls < n /\ n <= calls')
    BY DEF ServerInv
  <1>5. /\ serving.n \in Nat
        /\ \A k \in 1..Len(wire) : wire[k].n \in Nat
    <2>1. serving \in Servings /\ wire \in Seq(Messages)
      BY DEF ServerInv, ServingIn, WireIn
    <2>2. \A k \in 1..Len(wire) : wire[k] \in Messages
      BY <2>1
    <2> QED BY <2>1, <2>2 DEF Servings, Messages
  <1>6. ASSUME NEW i \in 1..Len(r), r[i] # None
        PROVE  /\ r[i] <= calls'
               /\ \A j \in 1..Len(r) : j < i => r[j] < r[i]
               /\ serving.phase # "idle" => serving.n < r[i]
               /\ \A k \in 1..Len(wire) : wire[k].kind = "response" => wire[k].n < r[i]
    <2>1. CASE i \in 1..Len(rq)
      <3>1. \A j \in 1..Len(r) : j < i => j \in 1..Len(rq)
        BY <1>1, <1>2, <2>1
      <3>2. r[i] = rq[i] /\ rq[i] \in Nat
        BY <1>1, <2>1
      <3>3. rq[i] <= calls
        BY <1>3, <1>6, <2>1, <3>2 DEF RequestsIn
      <3> QED BY <1>1, <1>3, <1>4, <1>6, <2>1, <3>1, <3>2, <3>3 DEF RequestsIn
    <2>2. CASE i = Len(rq) + 1
      <3>1. r[i] = n /\ calls < n /\ n <= calls'
        BY <1>1, <1>4, <1>6, <2>2
      <3>2. ASSUME NEW j \in 1..Len(r), j < i PROVE r[j] < r[i]
        <4>1. j \in 1..Len(rq) /\ r[j] = rq[j] /\ rq[j] \in Nat
          BY <1>1, <1>2, <2>2, <3>2
        <4>2. rq[j] = None \/ rq[j] <= calls
          BY <1>3, <4>1 DEF RequestsIn
        <4> QED BY <1>4, <3>1, <4>1, <4>2 DEF None
      <3>3. serving.phase # "idle" => serving.n < n
        BY <1>3, <1>4, <1>5, <3>1 DEF ServedIn
      <3>4. \A k \in 1..Len(wire) : wire[k].kind = "response" => wire[k].n < n
        BY <1>3, <1>4, <1>5, <3>1 DEF AnswersIn
      <3> QED BY <3>1, <3>2, <3>3, <3>4
    <2> QED BY <1>2, <2>1, <2>2
  <1>7. RequestsIn(r, serving, wire, calls')
    BY <1>6 DEF RequestsIn
  <1>8. AnswersIn(wire, calls')
    BY <1>3, <1>4, <1>5 DEF AnswersIn
  <1>9. ServedIn(serving, wire, calls')
    BY <1>3, <1>4, <1>5 DEF ServedIn
  <1> QED BY <1>1a, <1>7, <1>8, <1>9 DEF OrderInv

LEMMA OrderNothing ==
    ASSUME requests' = <<>>, serving' = NotServing, wire' = <<>>
    PROVE  OrderInv'
  <1>1. Len(<<>>) = 0 /\ NotServing.phase = "idle"
    BY DEF NotServing
  <1> QED BY <1>1 DEF OrderInv, RequestsIn, ServedIn, AnswersIn

-----------------------------------------------------------------------------
(* What the client has is continued by what is on its way.                 *)

\* The output to come first, from the wire w or the stream task s, begins at p.
Coming(w, s, p) ==
    \/ w # <<>> /\ w[1].kind = "output" /\ p = w[1].from
    \/ w = <<>> /\ s.on /\ p = s.next

\* p is no later than where one is who starts at a and takes what is in q.
Linked(q, a, p) == p <= a \/ (q # <<>> /\ p <= q[Len(q)].to)

\* Who starts at a and takes what is in q, and then what comes, misses nothing.
QueueJoins(q, a) ==
    \A i \in 1..Len(q) : q[i].from <= a \/ (i > 1 /\ q[i].from <= q[i - 1].to)
Joins(q, w, s, a) ==
    QueueJoins(q, a) /\ \A p \in Nat : Coming(w, s, p) => Linked(q, a, p)

\* The same of a client that waits for a snapshot of offset a, unless it has
\* one that is newer.
Waits(c, w, s, a) == (~c.syncing /\ c.next > a) \/ Joins(c.queue, w, s, a)

\* What comes first from v and t begins no later than what did from w and s.
Follows(v, t, w, s) ==
    \A p \in Nat : Coming(v, t, p) => \E r \in Nat : Coming(w, s, r) /\ p <= r

\* No attach of the client is still to be answered.
NothingAsked(rq, sv, w) ==
    /\ \A i \in 1..Len(rq) : rq[i] = None
    /\ sv.phase = "idle"
    /\ \A k \in 1..Len(w) : w[k].kind # "response"
Answered(c) == c.n # None /\ (~c.waiting \/ c.resolved # <<>>)

ClientInv ==
    /\ client.n = None => client = Off
    /\ client.n # None => client.n = calls
    /\ Answered(client) => NothingAsked(requests, serving, wire)
    /\ client.resolved # <<>> =>
          client.waiting /\ Waits(client, wire, stream, client.resolved[1].to)
    /\ client.waiting =>
          /\ ~client.syncing => client.overtaken
          /\ serving.phase # "idle" /\ serving.n = client.n =>
                Waits(client, wire, stream, serving.snap.at)
          /\ \A k \in 1..Len(wire) : wire[k].kind = "response" /\ wire[k].n = client.n =>
                Waits(client, wire, stream, wire[k].to)
    /\ client.n # None /\ ~client.waiting =>
          /\ ~client.syncing
          /\ ~client.overtaken =>
                /\ Joins(client.queue, wire, stream, client.next)
                /\ RightIn(log, agent, client.next, client.shows, client.slept)

LEMMA JoinsFollows ==
    ASSUME NEW q \in Seq(Messages), NEW a \in Nat, NEW w, NEW s, NEW v, NEW t,
           Joins(q, w, s, a), Follows(v, t, w, s)
    PROVE  Joins(q, v, t, a)
  <1> SUFFICES ASSUME NEW p \in Nat, Coming(v, t, p) PROVE Linked(q, a, p)
    BY DEF Joins
  <1>1. PICK r \in Nat : Coming(w, s, r) /\ p <= r
    BY DEF Follows
  <1>2. Linked(q, a, r)
    BY <1>1 DEF Joins
  <1>3. q # <<>> => q[Len(q)].to \in Nat
    <2>1. q # <<>> => q[Len(q)] \in Messages
      OBVIOUS
    <2> QED BY <2>1 DEF Messages
  <1> QED BY <1>1, <1>2, <1>3 DEF Linked

LEMMA WaitsFollows ==
    ASSUME NEW c \in Clients, NEW a \in Nat, NEW w, NEW s, NEW v, NEW t,
           Waits(c, w, s, a), Follows(v, t, w, s)
    PROVE  Waits(c, v, t, a)
  <1>1. c.queue \in Seq(Messages)
    BY DEF Clients
  <1> QED BY <1>1, JoinsFollows DEF Waits

LEMMA FollowsStream ==
    ASSUME NEW w, NEW s, NEW t, t.on => s.on /\ t.next = s.next
    PROVE  Follows(w, t, w, s)
  <1> SUFFICES ASSUME NEW p \in Nat, Coming(w, t, p) PROVE Coming(w, s, p)
    BY DEF Follows
  <1> QED BY DEF Coming

\* A message at the end of the outbox.
LEMMA FollowsSend ==
    ASSUME NEW w \in Seq(Messages), NEW m \in Messages, NEW s \in Streams, NEW t,
           m.kind = "output" => s.on /\ m.from <= s.next
    PROVE  Follows(Append(w, m), t, w, s)
  <1> DEFINE v == Append(w, m)
  <1>1. v # <<>> /\ (w = <<>> => v[1] = m) /\ (w # <<>> => v[1] = w[1])
    <2>1. /\ Len(w) \in Nat /\ Len(v) = Len(w) + 1 /\ v[Len(w) + 1] = m
          /\ \A i \in 1..Len(w) : v[i] = w[i]
      OBVIOUS
    <2>2. w = <<>> => Len(w) = 0
      OBVIOUS
    <2>3. w # <<>> => 1 \in 1..Len(w)
      OBVIOUS
    <2>4. v # <<>>
      <3>1. v \in Seq(Messages) /\ Len(v) > 0
        BY <2>1
      <3> HIDE DEF v
      <3> QED BY <3>1
    <2> HIDE DEF v
    <2> QED BY <2>1, <2>2, <2>3, <2>4
  <1> HIDE DEF v
  <1> SUFFICES ASSUME NEW p \in Nat, Coming(v, t, p)
               PROVE  \E r \in Nat : Coming(w, s, r) /\ p <= r
    BY DEF Follows, v
  <1>2. v[1].kind = "output" /\ p = v[1].from
    BY <1>1 DEF Coming
  <1>3. CASE w = <<>>
    <2>1. s.on /\ m.from <= s.next /\ s.next \in Nat /\ p = m.from
      BY <1>1, <1>2, <1>3 DEF Streams
    <2>2. Coming(w, s, s.next)
      BY <1>3, <2>1 DEF Coming
    <2> QED BY <2>1, <2>2
  <1>4. CASE w # <<>>
    <2>1. Coming(w, s, p)
      BY <1>1, <1>2, <1>4 DEF Coming
    <2> QED BY <2>1
  <1> QED BY <1>3, <1>4

\* Steps that are not the client's.
LEMMA ClientKeeps ==
    ASSUME ServerInv, ClientInv, client' = client, calls' = calls,
           Goes(log, agent, log', agent'), Follows(wire', stream', wire, stream),
           NothingAsked(requests, serving, wire) =>
                NothingAsked(requests', serving', wire'),
           client.waiting /\ serving'.phase # "idle" /\ serving'.n = client.n =>
                Waits(client, wire', stream', serving'.snap.at),
           client.waiting => \A k \in 1..Len(wire') :
                wire'[k].kind = "response" /\ wire'[k].n = client.n =>
                    Waits(client, wire', stream', wire'[k].to)
    PROVE  ClientInv'
  <1>1. /\ client \in Clients /\ client.queue \in Seq(Messages) /\ client.next \in Nat
        /\ client.slept \in BOOLEAN /\ client.resolved \in Seq(Messages)
    BY DEF ServerInv, ClientIn, Clients
  <1>2. ASSUME client.resolved # <<>>
        PROVE  client.waiting /\ Waits(client, wire', stream', client.resolved[1].to)
    <2>1. client.resolved[1] \in Messages
      BY <1>1, <1>2
    <2>2. PICK a \in Nat : a = client.resolved[1].to
      BY <2>1 DEF Messages
    <2>3. client.waiting /\ Waits(client, wire, stream, a)
      BY <1>2, <2>2 DEF ClientInv
    <2>4. Waits(client, wire', stream', a)
      BY <1>1, <2>3, WaitsFollows
    <2> QED BY <2>2, <2>3, <2>4
  <1>3. ASSUME client.n # None, ~client.waiting, ~client.overtaken
        PROVE  /\ Joins(client.queue, wire', stream', client.next)
               /\ RightIn(log', agent', client.next, client.shows, client.slept)
    <2>1. /\ Joins(client.queue, wire, stream, client.next)
          /\ RightIn(log, agent, client.next, client.shows, client.slept)
      BY <1>3 DEF ClientInv
    <2>2. Joins(client.queue, wire', stream', client.next)
      BY <1>1, <2>1, JoinsFollows
    <2>3. RightIn(log', agent', client.next, client.shows, client.slept)
      BY <1>1, <2>1, RightStays
    <2> QED BY <2>2, <2>3
  <1>4. Answered(client) => NothingAsked(requests', serving', wire')
    BY DEF ClientInv
  <1> QED BY <1>2, <1>3, <1>4 DEF ClientInv

\* Steps that leave the requests, the answers and the client alone.
LEMMA ClientWorld ==
    ASSUME ServerInv, ClientInv, UNCHANGED <<client, calls, requests, wire>>,
           Goes(log, agent, log', agent'),
           stream'.on => stream.on /\ stream'.next = stream.next,
           serving'.phase = "idle" <=> serving.phase = "idle", serving'.n = serving.n,
           serving'.snap = serving.snap
    PROVE  ClientInv'
  <1>1. Follows(wire, stream', wire, stream)
    BY FollowsStream
  <1>2. client \in Clients /\ wire \in Seq(Messages) /\ serving \in Servings
    BY DEF ServerInv, ClientIn, WireIn, ServingIn
  <1>3. ASSUME client.waiting, serving.phase # "idle", serving.n = client.n
        PROVE  Waits(client, wire, stream', serving.snap.at)
    <2>1. PICK a \in Nat : a = serving.snap.at
      BY <1>3 DEF ServerInv, ServingIn, Snaps
    <2>2. Waits(client, wire, stream, a)
      BY <1>3, <2>1 DEF ClientInv
    <2>3. Waits(client, wire, stream', a)
      BY <1>1, <1>2, <2>2, WaitsFollows
    <2> QED BY <2>1, <2>3
  <1>4. ASSUME client.waiting, NEW k \in 1..Len(wire),
               wire[k].kind = "response", wire[k].n = client.n
        PROVE  Waits(client, wire, stream', wire[k].to)
    <2>0. wire[k] \in Messages
      BY <1>2
    <2>1. PICK a \in Nat : a = wire[k].to
      BY <2>0 DEF Messages
    <2>2. Waits(client, wire, stream, a)
      BY <1>4, <2>1 DEF ClientInv
    <2>3. Waits(client, wire, stream', a)
      BY <1>1, <1>2, <2>2, WaitsFollows
    <2> QED BY <2>1, <2>3
  <1>5. NothingAsked(requests, serving, wire) => NothingAsked(requests, serving', wire)
    BY DEF NothingAsked
  <1>6. /\ Follows(wire', stream', wire, stream)
        /\ NothingAsked(requests, serving, wire) =>
                NothingAsked(requests', serving', wire')
        /\ client.waiting /\ serving'.phase # "idle" /\ serving'.n = client.n =>
                Waits(client, wire', stream', serving'.snap.at)
        /\ client.waiting => \A k \in 1..Len(wire') :
                wire'[k].kind = "response" /\ wire'[k].n = client.n =>
                    Waits(client, wire', stream', wire'[k].to)
    BY <1>1, <1>3, <1>4, <1>5
  <1>7. client' = client /\ calls' = calls
    OBVIOUS
  <1> QED BY <1>6, <1>7, ClientKeeps

LEMMA ClientReadRequest ==
    ASSUME log \in Seq(Int), ServerInv, OrderInv, ClientInv, ReadRequest
    PROVE  ClientInv'
  <1>1. /\ requests # <<>> /\ serving.phase = "idle" /\ requests' = Tail(requests)
        /\ wire' = wire /\ calls' = calls /\ client' = client /\ log' = log
        /\ agent' = agent
    BY DEF ReadRequest, actorVars
  <1>2. /\ client \in Clients /\ wire \in Seq(Messages) /\ requests \in Seq(Nat)
        /\ client.queue \in Seq(Messages) /\ Len(client.queue) \in Nat
        /\ stream \in Streams /\ Len(log) \in Nat
    BY DEF ServerInv, ClientIn, WireIn, Clients, StreamIn
  <1>3. Goes(log, agent, log, agent)
    BY GoesSame
  <1>4. /\ Len(requests) > 0 /\ Head(requests) = requests[1]
        /\ \A i \in 1..Len(Tail(requests)) :
              i + 1 \in 1..Len(requests) /\ Tail(requests)[i] = requests[i + 1]
    BY <1>1, <1>2
  <1>5. CASE Head(requests) = None
    <2>1. stream' = NoStream /\ serving' = serving /\ NoStream.on = FALSE
      BY <1>5 DEF ReadRequest, NoStream
    <2>2. Follows(wire, stream', wire, stream)
      BY <2>1, FollowsStream
    <2>3. NothingAsked(requests, serving, wire)
             => NothingAsked(requests', serving', wire')
      BY <1>1, <1>4, <2>1 DEF NothingAsked
    <2>4. ASSUME client.waiting, NEW k \in 1..Len(wire),
                 wire[k].kind = "response", wire[k].n = client.n
          PROVE  Waits(client, wire, stream', wire[k].to)
      <3>0. wire[k] \in Messages
        BY <1>2
      <3>1. PICK a \in Nat : a = wire[k].to
        BY <3>0 DEF Messages
      <3>2. Waits(client, wire, stream, a)
        BY <2>4, <3>1 DEF ClientInv
      <3>3. Waits(client, wire, stream', a)
        BY <1>2, <2>2, <3>2, WaitsFollows
      <3> QED BY <3>1, <3>3
    <2>5. /\ Follows(wire', stream', wire, stream)
          /\ client.waiting /\ serving'.phase # "idle" /\ serving'.n = client.n =>
                Waits(client, wire', stream', serving'.snap.at)
          /\ client.waiting => \A k \in 1..Len(wire') :
                wire'[k].kind = "response" /\ wire'[k].n = client.n =>
                    Waits(client, wire', stream', wire'[k].to)
      BY <1>1, <2>1, <2>2, <2>4
    <2> QED BY <1>1, <1>3, <2>3, <2>5, ClientKeeps
  <1>6. CASE Head(requests) # None
    <2>1. /\ serving' = [NotServing EXCEPT !.phase = "answered", !.n = Head(requests),
                                           !.snap = Snap]
          /\ stream' = stream
      BY <1>6 DEF ReadRequest
    <2>2. serving'.snap = Snap /\ Snap.at = Len(log)
      BY <2>1, SnapIn DEF NotServing, ServerInv
    <2>3. ~NothingAsked(requests, serving, wire)
      BY <1>4, <1>6 DEF NothingAsked
    <2>4. PICK a \in Nat : a = Len(log)
      BY <1>2
    <2>5. Joins(client.queue, wire, stream, a)
      <3>1. QueueJoins(client.queue, a)
        <4> SUFFICES ASSUME NEW i \in 1..Len(client.queue)
                     PROVE  client.queue[i].from <= a
          BY DEF QueueJoins
        <4>1. client.queue[i] \in Messages
          BY <1>2
        <4>2. ChunkIn(log, client.queue[i].from, client.queue[i].to)
          BY DEF ServerInv, ClientIn
        <4>3. client.queue[i].from \in Nat /\ client.queue[i].to \in Nat
          BY <4>1 DEF Messages
        <4> QED BY <2>4, <4>2, <4>3 DEF ChunkIn
      <3>2. ASSUME NEW p \in Nat, Coming(wire, stream, p) PROVE p <= a
        <4>1. CASE wire # <<>> /\ wire[1].kind = "output" /\ p = wire[1].from
          <5>1. wire[1] \in Messages /\ MessageIn(log, agent, wire[1])
            BY <1>2, <4>1, WireRead DEF ServerInv
          <5>2. ChunkIn(log, wire[1].from, wire[1].to)
            BY <4>1, <5>1 DEF MessageIn
          <5>3. wire[1].from \in Nat /\ wire[1].to \in Nat
            BY <5>1 DEF Messages
          <5> QED BY <2>4, <4>1, <5>2, <5>3 DEF ChunkIn
        <4>2. CASE wire = <<>> /\ stream.on /\ p = stream.next
          BY <2>4, <4>2 DEF ServerInv, StreamIn
        <4> QED BY <3>2, <4>1, <4>2 DEF Coming
      <3> QED BY <3>1, <3>2 DEF Joins, Linked
    <2>6. Waits(client, wire, stream, serving'.snap.at)
      BY <2>2, <2>4, <2>5 DEF Waits
    <2>7. Follows(wire, stream, wire, stream)
      BY FollowsStream
    <2>8. client.waiting => \A k \in 1..Len(wire) :
                wire[k].kind = "response" /\ wire[k].n = client.n =>
                    Waits(client, wire, stream, wire[k].to)
      BY DEF ClientInv
    <2>9. /\ Follows(wire', stream', wire, stream)
          /\ client.waiting /\ serving'.phase # "idle" /\ serving'.n = client.n =>
                Waits(client, wire', stream', serving'.snap.at)
          /\ client.waiting => \A k \in 1..Len(wire') :
                wire'[k].kind = "response" /\ wire'[k].n = client.n =>
                    Waits(client, wire', stream', wire'[k].to)
      BY <1>1, <2>1, <2>6, <2>7, <2>8
    <2> QED BY <1>1, <1>3, <2>3, <2>9, ClientKeeps
  <1> QED BY <1>5, <1>6

\* m is put in the outbox.
LEMMA ClientAwaits ==
    ASSUME ServerInv, ClientInv, UNCHANGED <<log, agent, client, calls, requests>>,
           NEW m \in Messages, wire' = Append(wire, m),
           m.kind = "output" => stream.on /\ m.from <= stream.next,
           NothingAsked(requests, serving, wire) =>
                serving'.phase = "idle" /\ m.kind # "response",
           serving'.phase # "idle" => /\ serving.phase # "idle" /\ serving'.n = serving.n
                                      /\ serving'.snap = serving.snap,
           m.kind = "response" =>
                serving.phase # "idle" /\ m.n = serving.n /\ m.to = serving.snap.at,
           log \in Seq(Int)
    PROVE  ClientInv'
  <1> DEFINE w == wire
             v == Append(wire, m)
  <1>1. /\ client \in Clients /\ wire \in Seq(Messages) /\ stream \in Streams
        /\ serving \in Servings
    BY DEF ServerInv, ClientIn, WireIn, StreamIn, ServingIn
  <1>2. Goes(log, agent, log, agent)
    BY GoesSame
  <1>3. Follows(v, stream', wire, stream)
    BY <1>1, FollowsSend
  <1>4. /\ Len(w) \in Nat /\ Len(v) = Len(w) + 1 /\ v[Len(w) + 1] = m
        /\ \A i \in 1..Len(w) : v[i] = w[i] /\ w[i] \in Messages
    BY <1>1
  <1>4a. wire' = v
    OBVIOUS
  <1> HIDE DEF v
  <1>5. \A i \in 1..Len(v) : i \in 1..Len(w) \/ i = Len(w) + 1
    BY <1>4
  <1>6. ASSUME client.waiting, serving.phase # "idle", serving.n = client.n
        PROVE  Waits(client, v, stream', serving.snap.at)
    <2>1. PICK a \in Nat : a = serving.snap.at
      BY <1>6 DEF ServerInv, ServingIn, Snaps
    <2>2. Waits(client, wire, stream, a)
      BY <1>6, <2>1 DEF ClientInv
    <2>3. Waits(client, v, stream', a)
      BY <1>1, <1>3, <2>2, WaitsFollows
    <2> QED BY <2>1, <2>3
  <1>7. ASSUME client.waiting, NEW k \in 1..Len(v),
               v[k].kind = "response", v[k].n = client.n
        PROVE  Waits(client, v, stream', v[k].to)
    <2>1. CASE k \in 1..Len(w)
      <3>0. v[k] = w[k] /\ w[k] \in Messages
        BY <1>4, <2>1
      <3>1. PICK a \in Nat : a = w[k].to
        BY <3>0 DEF Messages
      <3>2. Waits(client, wire, stream, a)
        BY <1>7, <2>1, <3>0, <3>1 DEF ClientInv
      <3>3. Waits(client, v, stream', a)
        BY <1>1, <1>3, <3>2, WaitsFollows
      <3> QED BY <3>0, <3>1, <3>3
    <2>2. CASE k = Len(w) + 1
      <3>1. v[k] = m
        BY <1>4, <2>2
      <3> QED BY <1>6, <1>7, <3>1
    <2> QED BY <1>5, <2>1, <2>2
  <1>8. ASSUME NothingAsked(requests, serving, wire)
        PROVE  NothingAsked(requests, serving', v)
    BY <1>4, <1>5, <1>8 DEF NothingAsked
  <1>9. /\ Follows(wire', stream', wire, stream)
        /\ Goes(log, agent, log', agent')
        /\ NothingAsked(requests, serving, wire) =>
                NothingAsked(requests', serving', wire')
        /\ client.waiting /\ serving'.phase # "idle" /\ serving'.n = client.n =>
                Waits(client, wire', stream', serving'.snap.at)
        /\ client.waiting => \A k \in 1..Len(wire') :
                wire'[k].kind = "response" /\ wire'[k].n = client.n =>
                    Waits(client, wire', stream', wire'[k].to)
    BY <1>2, <1>3, <1>4a, <1>6, <1>7, <1>8
  <1>10. client' = client /\ calls' = calls
    OBVIOUS
  <1> HIDE DEF w
  <1> QED BY <1>9, <1>10, ClientKeeps

LEMMA ClientStreamSends ==
    ASSUME log \in Seq(Int), ServerInv, ClientInv, StreamSends
    PROVE  ClientInv'
  <1>1. /\ stream.on /\ stream.phase = "send" /\ wire' = Append(wire, stream.msg)
        /\ serving' = serving /\ UNCHANGED <<log, agent, client, calls, requests>>
    BY DEF StreamSends, actorVars
  <1>2. PICK m \in Messages : m = stream.msg
    BY <1>1 DEF ServerInv, StreamIn
  <1>3. /\ m.kind = "output" => m.from <= stream.next
        /\ m.kind # "response"
    BY <1>1, <1>2 DEF ServerInv, StreamIn
  <1>4. NothingAsked(requests, serving, wire) => serving.phase = "idle"
    BY DEF NothingAsked
  <1> QED BY <1>1, <1>2, <1>3, <1>4, ClientAwaits

LEMMA ClientReply ==
    ASSUME log \in Seq(Int), ServerInv, ClientInv, Reply
    PROVE  ClientInv'
  <1>1. /\ serving.phase = "replying" /\ serving' = NotServing
        /\ wire' = Append(wire, SnapMsg("response", serving.n, serving.snap))
        /\ UNCHANGED <<log, agent, client, calls, requests>>
    BY DEF Reply, actorVars
  <1>2. serving \in Servings /\ serving.snap \in Snaps
    BY <1>1 DEF ServerInv, ServingIn
  <1>3. PICK m \in Messages : /\ m = SnapMsg("response", serving.n, serving.snap)
                              /\ m.kind = "response" /\ m.n = serving.n
                              /\ m.to = serving.snap.at
    <2>1. serving.n \in Nat /\ serving.snap.at \in Nat /\ serving.snap.shows \in Seq(Int)
          /\ serving.snap.slept \in BOOLEAN
      BY <1>2 DEF Servings, Snaps
    <2> DEFINE x == SnapMsg("response", serving.n, serving.snap)
    <2>2. /\ x \in Messages /\ x.kind = "response" /\ x.n = serving.n
          /\ x.to = serving.snap.at
      BY <2>1 DEF SnapMsg, Messages
    <2> HIDE DEF x
    <2>3. \E m \in Messages : /\ m = x /\ m.kind = "response" /\ m.n = serving.n
                             /\ m.to = serving.snap.at
      BY <2>2
    <2> QED BY <2>3 DEF x
  <1>4. ~NothingAsked(requests, serving, wire)
    BY <1>1 DEF NothingAsked
  <1>5. NotServing.phase = "idle"
    BY DEF NotServing
  <1> QED BY <1>1, <1>3, <1>4, <1>5, ClientAwaits

LEMMA ClientOff ==
    ASSUME client' = Off
    PROVE  ClientInv'
  <1>1. Off.n = None /\ Off.waiting = FALSE /\ Off.resolved = <<>>
    BY DEF Off
  <1> QED BY <1>1 DEF ClientInv, Answered

\* Steps of a client whose attach goes on as it did.
LEMMA ClientMoves ==
    ASSUME ServerInv, ClientInv, UNCHANGED <<requests, serving, calls>>,
           client.n # None, client'.n = client.n, client'.waiting <=> client.waiting,
           client'.resolved = client.resolved,
           \A k \in 1..Len(wire') : \E j \in 1..Len(wire) : wire'[k] = wire[j],
           client.waiting =>
                /\ ~client'.syncing => client'.overtaken
                /\ \A a \in Nat : Waits(client, wire, stream, a)
                                    => Waits(client', wire', stream', a),
           ~client.waiting =>
                /\ ~client'.syncing
                /\ ~client'.overtaken =>
                      /\ Joins(client'.queue, wire', stream', client'.next)
                      /\ RightIn(log', agent', client'.next, client'.shows, client'.slept)
    PROVE  ClientInv'
  <1>1. client \in Clients /\ wire \in Seq(Messages) /\ client.resolved \in Seq(Messages)
    BY DEF ServerInv, ClientIn, WireIn, Clients
  <1>2. Answered(client') => NothingAsked(requests', serving', wire')
    <2> SUFFICES ASSUME Answered(client') PROVE NothingAsked(requests', serving', wire')
      OBVIOUS
    <2>1. NothingAsked(requests, serving, wire)
      BY DEF Answered, ClientInv
    <2> QED BY <2>1 DEF NothingAsked
  <1>3. ASSUME client'.resolved # <<>>
        PROVE  client'.waiting /\ Waits(client', wire', stream', client'.resolved[1].to)
    <2>1. client.resolved[1] \in Messages /\ client.resolved # <<>>
      BY <1>1, <1>3
    <2>2. PICK a \in Nat : a = client.resolved[1].to
      BY <2>1 DEF Messages
    <2>3. client.waiting /\ Waits(client, wire, stream, a)
      BY <2>1, <2>2 DEF ClientInv
    <2> QED BY <2>2, <2>3
  <1>4. ASSUME client'.waiting, serving'.phase # "idle", serving'.n = client'.n
        PROVE  Waits(client', wire', stream', serving'.snap.at)
    <2>1. PICK a \in Nat : a = serving.snap.at
      BY <1>4 DEF ServerInv, ServingIn, Snaps
    <2>2. Waits(client, wire, stream, a)
      BY <1>4, <2>1 DEF ClientInv
    <2> QED BY <1>4, <2>1, <2>2
  <1>5. ASSUME client'.waiting, NEW k \in 1..Len(wire'),
               wire'[k].kind = "response", wire'[k].n = client'.n
        PROVE  Waits(client', wire', stream', wire'[k].to)
    <2>1. PICK j \in 1..Len(wire) : wire'[k] = wire[j]
      OBVIOUS
    <2>2. wire[j] \in Messages
      BY <1>1
    <2>3. PICK a \in Nat : a = wire[j].to
      BY <2>2 DEF Messages
    <2>4. Waits(client, wire, stream, a)
      BY <1>5, <2>1, <2>3 DEF ClientInv
    <2> QED BY <1>5, <2>1, <2>3, <2>4
  <1> QED BY <1>2, <1>3, <1>4, <1>5 DEF ClientInv

\* What comes after the first message begins no later than that ends.
LEMMA NextComes ==
    ASSUME ServerInv, wire # <<>>, NEW p \in Nat, Coming(Tail(wire), stream, p)
    PROVE  p <= wire[1].to
  <1> DEFINE v == Tail(wire)
  <1>1. /\ Len(wire) \in Nat /\ Len(wire) > 0 /\ v \in Seq(Messages)
        /\ Len(v) = Len(wire) - 1
        /\ \A i \in 1..Len(v) : i + 1 \in 1..Len(wire) /\ v[i] = wire[i + 1]
    <2>1. WireIn(log, agent, wire)
      BY DEF ServerInv
    <2>2. /\ Len(wire) \in Nat /\ Len(wire) > 0 /\ v \in Seq(Messages)
          /\ Len(v) = Len(wire) - 1
      BY <2>1, WireRead
    <2>3. \A i \in 1..Len(v) : i + 1 \in 1..Len(wire) /\ v[i] = wire[i + 1]
      BY <2>1, WireRead
    <2> QED BY <2>2, <2>3
  <1>1a. Coming(v, stream, p)
    OBVIOUS
  <1> HIDE DEF v
  <1>2. CASE v # <<>>
    <2>1. 1 \in 1..Len(v)
      BY <1>1, <1>2
    <2>2. 2 \in 1..Len(wire) /\ v[1] = wire[2]
      BY <1>1, <2>1
    <2>3. v[1].kind = "output" /\ p = v[1].from
      BY <1>1a, <1>2 DEF Coming
    <2>4. wire[2].from <= wire[2 - 1].to
      BY <2>2, <2>3 DEF ServerInv, WireIn
    <2> QED BY <2>2, <2>3, <2>4
  <1>3. CASE v = <<>>
    <2>1. Len(wire) = 1
      BY <1>1, <1>3
    <2>2. stream.on /\ p = stream.next
      BY <1>1a, <1>3 DEF Coming
    <2>3. stream.next = wire[Len(wire)].to /\ stream.next \in Nat
      BY <2>2 DEF ServerInv, StreamIn, Streams
    <2> QED BY <2>1, <2>2, <2>3
  <1> QED BY <1>2, <1>3

LEMMA NextJoins ==
    ASSUME ServerInv, wire # <<>>, NEW q, NEW a \in Nat, QueueJoins(q, a),
           wire[1].to <= a
    PROVE  Joins(q, Tail(wire), stream, a)
  <1>1. wire[1] \in Messages
    BY WireRead DEF ServerInv
  <1>2. wire[1].to \in Nat
    BY <1>1 DEF Messages
  <1> SUFFICES ASSUME NEW p \in Nat, Coming(Tail(wire), stream, p) PROVE p <= a
    BY DEF Joins, Linked
  <1>3. p <= wire[1].to
    BY NextComes
  <1> QED BY <1>2, <1>3

LEMMA EmptyJoins ==
    ASSUME NEW a PROVE QueueJoins(<<>>, a)
  <1>1. Len(<<>>) = 0
    OBVIOUS
  <1> QED BY <1>1 DEF QueueJoins

\* An answer to another attach, or to one that has timed out.
LEMMA ClientSkips ==
    ASSUME ServerInv, OrderInv, ClientInv, client.n # None, client' = client,
           wire # <<>>, wire[1].kind = "response",
           ~(wire[1].n = client.n /\ client.waiting),
           wire' = Tail(wire), UNCHANGED <<requests, serving, stream, calls>>
    PROVE  ClientInv'
  <1>1. /\ Len(wire) \in Nat /\ Len(wire) > 0 /\ wire[1] \in Messages
        /\ wire \in Seq(Messages)
        /\ \A i \in 1..Len(wire') : i + 1 \in 1..Len(wire) /\ wire'[i] = wire[i + 1]
    <2>1. wire \in Seq(Messages)
      BY DEF ServerInv, WireIn
    <2> QED BY <2>1, WireRead DEF ServerInv
  <1>2. 1 \in 1..Len(wire) /\ wire[1].to \in Nat
    BY <1>1 DEF Messages
  <1>3. ~Answered(client)
    BY <1>2 DEF ClientInv, NothingAsked
  <1>4. client.waiting /\ client.resolved = <<>>
    BY <1>3 DEF Answered
  <1>5. ASSUME NEW a \in Nat, wire[1].to <= a, Waits(client, wire, stream, a)
        PROVE  Waits(client, wire', stream, a)
    <2>1. CASE Joins(client.queue, wire, stream, a)
      <3>1. QueueJoins(client.queue, a)
        BY <2>1 DEF Joins
      <3> QED BY <1>5, <3>1, NextJoins DEF Waits
    <2> QED BY <1>5, <2>1 DEF Waits
  <1>6. ASSUME serving.phase # "idle", serving.n = client.n
        PROVE  Waits(client, wire', stream, serving.snap.at)
    <2>1. PICK a \in Nat : a = serving.snap.at
      BY <1>6 DEF ServerInv, ServingIn, Snaps
    <2>2. Waits(client, wire, stream, a)
      BY <1>4, <1>6, <2>1 DEF ClientInv
    <2>3. wire[1].to <= a
      BY <1>2, <1>6, <2>1 DEF OrderInv, ServedIn, Earlier
    <2> QED BY <1>5, <2>1, <2>2, <2>3
  <1>7. ASSUME NEW k \in 1..Len(wire'), wire'[k].kind = "response", wire'[k].n = client.n
        PROVE  Waits(client, wire', stream, wire'[k].to)
    <2>1. k + 1 \in 1..Len(wire) /\ wire'[k] = wire[k + 1]
      BY <1>1
    <2>2. PICK j \in 1..Len(wire) : j = k + 1
      BY <2>1
    <2>3. wire[j] \in Messages
      BY <1>1
    <2>4. PICK a \in Nat : a = wire[j].to
      BY <2>3 DEF Messages
    <2>5. Waits(client, wire, stream, a)
      BY <1>4, <1>7, <2>1, <2>2, <2>4 DEF ClientInv
    <2>6. wire[1].to <= a
      <3>1. 1 < j
        BY <2>2
      <3> QED BY <1>2, <1>7, <2>1, <2>2, <2>4, <3>1 DEF OrderInv, AnswersIn
    <2> QED BY <1>5, <2>1, <2>2, <2>4, <2>5, <2>6
  <1>8. client.n = calls /\ (~client.syncing => client.overtaken)
    BY <1>4 DEF ClientInv
  <1> QED BY <1>3, <1>4, <1>6, <1>7, <1>8 DEF ClientInv

\* The answer to its attach.
LEMMA ClientIsAnswered ==
    ASSUME ServerInv, OrderInv, ClientInv, client.n # None, client.waiting,
           wire # <<>>, wire[1].kind = "response", wire[1].n = client.n,
           client' = [client EXCEPT !.resolved = <<wire[1]>>],
           wire' = Tail(wire), UNCHANGED <<requests, serving, stream, calls>>
    PROVE  ClientInv'
  <1>1. /\ Len(wire) \in Nat /\ Len(wire) > 0 /\ wire[1] \in Messages
        /\ wire \in Seq(Messages)
        /\ \A i \in 1..Len(wire') : i + 1 \in 1..Len(wire) /\ wire'[i] = wire[i + 1]
    <2>1. wire \in Seq(Messages)
      BY DEF ServerInv, WireIn
    <2> QED BY <2>1, WireRead DEF ServerInv
  <1>2. 1 \in 1..Len(wire)
    BY <1>1
  <1>3. PICK a \in Nat : a = wire[1].to
    BY <1>1 DEF Messages
  <1>4. client.n = calls /\ calls \in Nat
    BY DEF ClientInv, ServerInv
  <1>5. NothingAsked(requests, serving, wire')
    <2>1. ASSUME NEW i \in 1..Len(requests) PROVE requests[i] = None
      <3>1. requests[i] \in Nat
        BY DEF ServerInv
      <3> QED BY <1>2, <1>4, <3>1 DEF OrderInv, RequestsIn
    <2>2. serving.phase = "idle"
      <3>1. serving.n \in Nat
        BY DEF ServerInv, ServingIn, Servings
      <3> QED BY <1>2, <1>4, <3>1 DEF OrderInv, ServedIn, Earlier
    <2>3. ASSUME NEW k \in 1..Len(wire'), wire'[k].kind = "response" PROVE FALSE
      <3>1. PICK j \in 1..Len(wire) : j = k + 1 /\ wire'[k] = wire[j]
        BY <1>1
      <3>2. wire[j] \in Messages /\ 1 < j
        BY <1>1, <3>1
      <3>3. wire[j].n \in Nat
        BY <3>2 DEF Messages
      <3>4. wire[j].n <= calls /\ wire[1].n < wire[j].n
        BY <1>2, <2>3, <3>1, <3>2 DEF OrderInv, AnswersIn
      <3> QED BY <1>4, <3>3, <3>4
    <2> QED BY <2>1, <2>2, <2>3 DEF NothingAsked
  <1>6. Waits(client, wire, stream, a)
    BY <1>2, <1>3 DEF ClientInv
  <1>7. Waits(client, wire', stream, a)
    <2>1. CASE Joins(client.queue, wire, stream, a)
      <3>1. QueueJoins(client.queue, a)
        BY <2>1 DEF Joins
      <3> QED BY <1>3, <3>1, NextJoins DEF Waits
    <2> QED BY <1>6, <2>1 DEF Waits
  <1>8. client \in Clients /\ <<wire[1]>> \in Seq(Messages) /\ <<wire[1]>>[1] = wire[1]
        /\ <<wire[1]>> # <<>>
    BY <1>1 DEF ServerInv, ClientIn
  <1>9. /\ client'.n = client.n /\ (client'.waiting <=> client.waiting)
        /\ (client'.syncing <=> client.syncing) /\ client'.next = client.next
        /\ client'.queue = client.queue /\ client'.resolved = <<wire[1]>>
        /\ (client'.overtaken <=> client.overtaken)
    BY <1>8 DEF Clients
  <1>10. Waits(client', wire', stream, a)
    BY <1>7, <1>9 DEF Waits
  <1>11. ~client.syncing => client.overtaken
    BY DEF ClientInv
  <1> QED BY <1>3, <1>4, <1>5, <1>8, <1>9, <1>10, <1>11 DEF ClientInv, NothingAsked

LEMMA FirstRead ==
    ASSUME ServerInv, wire # <<>>, wire' = Tail(wire)
    PROVE  /\ wire[1] \in Messages /\ MessageIn(log, agent, wire[1])
           /\ \A k \in 1..Len(wire') : \E j \in 1..Len(wire) : wire'[k] = wire[j]
  <1>1. WireIn(log, agent, wire)
    BY DEF ServerInv
  <1>2. wire[1] \in Messages /\ MessageIn(log, agent, wire[1])
    BY <1>1, WireRead
  <1>3. \A i \in 1..Len(wire') : i + 1 \in 1..Len(wire) /\ wire'[i] = wire[i + 1]
    BY <1>1, WireRead
  <1> QED BY <1>2, <1>3

LEMMA DeliveredKeeps ==
    ASSUME NEW c \in Clients, NEW m \in Messages
    PROVE  /\ Delivered(c, m).n = c.n /\ Delivered(c, m).resolved = c.resolved
           /\ Delivered(c, m).queue = c.queue
           /\ (Delivered(c, m).waiting <=> c.waiting)
           /\ (Delivered(c, m).syncing <=> c.syncing)
           /\ (Delivered(c, m).overtaken <=> c.overtaken)
  BY DEF Delivered, Clients

\* The client reads a snapshot that it did not ask for.
LEMMA ClientTakesSnapshot ==
    ASSUME ServerInv, ClientInv, ~Draining, client.n # None,
           wire # <<>>, wire[1].kind = "snapshot",
           client' = [Applied(client, wire[1]) EXCEPT !.overtaken = @ \/ client.waiting],
           wire' = Tail(wire),
           UNCHANGED <<log, agent, requests, serving, stream, calls>>
    PROVE  ClientInv'
  <1> DEFINE m == wire[1]
             e == Applied(client, m)
  <1>1. WireIn(log, agent, wire) /\ ClientIn(log, agent, client)
    BY DEF ServerInv
  <1>2. /\ m \in Messages /\ MessageIn(log, agent, m)
        /\ \A k \in 1..Len(wire') : \E j \in 1..Len(wire) : wire'[k] = wire[j]
    BY FirstRead
  <1>3. RightIn(log, agent, m.to, m.shows, m.slept)
    BY <1>2 DEF MessageIn
  <1>4. PICK o \in BOOLEAN : o <=> e.overtaken \/ client.waiting
    OBVIOUS
  <1>5. o = (e.overtaken \/ client.waiting)
    BY <1>4
  <1>6. client' = [e EXCEPT !.overtaken = o]
    BY <1>5
  <1>7. PICK a \in Nat : a = m.to
    BY <1>2 DEF Messages
  <1>7a. wire[1].to = a
    BY <1>7
  <1> HIDE DEF m
  <1>8. /\ ClientIn(log, agent, e) /\ e.next = m.to /\ e.shows = m.shows
        /\ e.n = client.n
        /\ e.queue = client.queue /\ e.resolved = client.resolved
        /\ (e.slept <=> m.slept) /\ ~e.syncing /\ (e.waiting <=> client.waiting)
        /\ (e.overtaken <=> client.overtaken)
    BY <1>1, <1>2, <1>3, AppliedIn
  <1> HIDE DEF e
  <1>9. e \in Clients /\ client \in Clients /\ m.slept \in BOOLEAN
    BY <1>1, <1>2, <1>8 DEF ClientIn, Messages
  <1>10. /\ client'.n = e.n /\ (client'.waiting <=> e.waiting) /\ client'.next = e.next
         /\ client'.shows = e.shows /\ client'.slept = e.slept
         /\ (client'.syncing <=> e.syncing) /\ client'.queue = e.queue
         /\ client'.resolved = e.resolved /\ (client'.overtaken <=> o)
    BY <1>6, <1>9 DEF Clients
  <1>11. ~client.syncing => client.queue = <<>>
    BY DEF Draining
  <1>12. ASSUME NEW b \in Nat, Waits(client, wire, stream, b)
         PROVE  Waits(client', wire', stream', b)
    <2>1. CASE a > b
      BY <1>7, <1>8, <1>10, <2>1 DEF Waits
    <2>2. CASE a <= b
      <3>1. QueueJoins(client.queue, b)
        BY <1>11, <1>12, EmptyJoins DEF Waits, Joins
      <3>2. Joins(client.queue, Tail(wire), stream, b)
        BY <1>7a, <2>2, <3>1, NextJoins
      <3> QED BY <1>8, <1>10, <3>2 DEF Waits
    <2> QED BY <2>1, <2>2
  <1>13. ASSUME ~client.waiting
         PROVE  /\ Joins(client'.queue, wire', stream', client'.next)
                /\ RightIn(log', agent', client'.next, client'.shows, client'.slept)
    <2>1. QueueJoins(client.queue, a)
      BY <1>11, <1>13, EmptyJoins DEF ClientInv
    <2>1a. a <= a
      BY <1>7
    <2>2. Joins(client.queue, Tail(wire), stream, a)
      BY <1>7a, <2>1, <2>1a, NextJoins
    <2>3. e.slept = m.slept
      BY <1>8, <1>9 DEF Clients
    <2> QED BY <1>3, <1>7, <1>8, <1>10, <2>2, <2>3
  <1>14. \A k \in 1..Len(wire') : \E j \in 1..Len(wire) : wire'[k] = wire[j]
    BY <1>2
  <1>15. /\ client'.n = client.n /\ (client'.waiting <=> client.waiting)
         /\ client'.resolved = client.resolved /\ ~client'.syncing
         /\ client.waiting => client'.overtaken
    BY <1>4, <1>8, <1>10
  <1> QED BY <1>12, <1>13, <1>14, <1>15, ClientMoves

\* It reads output while it waits for its snapshot.
LEMMA ClientQueues ==
    ASSUME ServerInv, ClientInv, client.n # None, client.syncing,
           wire # <<>>, wire[1].kind = "output",
           client' = [client EXCEPT !.queue = Append(@, wire[1])],
           wire' = Tail(wire),
           UNCHANGED <<log, agent, requests, serving, stream, calls>>
    PROVE  ClientInv'
  <1> DEFINE m == wire[1]
             q == client.queue
             y == Append(q, m)
  <1>1. WireIn(log, agent, wire) /\ client \in Clients
    BY DEF ServerInv, ClientIn
  <1>2. /\ m \in Messages
        /\ \A k \in 1..Len(wire') : \E j \in 1..Len(wire) : wire'[k] = wire[j]
    BY FirstRead
  <1>3. m.to \in Nat /\ m.from \in Nat
    BY <1>2 DEF Messages
  <1>4. /\ q \in Seq(Messages) /\ Len(q) \in Nat /\ y \in Seq(Messages)
        /\ Len(y) = Len(q) + 1 /\ y[Len(q) + 1] = m
        /\ \A i \in 1..Len(q) : y[i] = q[i]
    <2>1. q \in Seq(Messages)
      BY <1>1 DEF Clients
    <2> QED BY <1>2, <2>1
  <1>4a. client' = [client EXCEPT !.queue = y]
    OBVIOUS
  <1> HIDE DEF y
  <1>5. /\ client'.n = client.n /\ (client'.waiting <=> client.waiting)
        /\ client'.next = client.next /\ (client'.syncing <=> client.syncing)
        /\ client'.queue = y /\ client'.resolved = client.resolved
        /\ (client'.overtaken <=> client.overtaken)
    BY <1>1, <1>4, <1>4a DEF Clients
  <1>6. ASSUME NEW b \in Nat, Waits(client, wire, stream, b)
        PROVE  Waits(client', wire', stream', b)
    <2>1. Joins(q, wire, stream, b)
      BY <1>6 DEF Waits
    <2>2. Linked(q, b, m.from)
      <3>1. Coming(wire, stream, m.from)
        BY DEF Coming
      <3> QED BY <1>3, <2>1, <3>1 DEF Joins
    <2>3. QueueJoins(y, b)
      <3> SUFFICES ASSUME NEW i \in 1..Len(y)
                   PROVE  y[i].from <= b \/ (i > 1 /\ y[i].from <= y[i - 1].to)
        BY DEF QueueJoins
      <3>1. CASE i \in 1..Len(q)
        <4>1. i > 1 => i - 1 \in 1..Len(q)
          BY <1>4, <3>1
        <4>2. q[i].from <= b \/ (i > 1 /\ q[i].from <= q[i - 1].to)
          BY <2>1, <3>1 DEF Joins, QueueJoins
        <4> QED BY <1>4, <3>1, <4>1, <4>2
      <3>2. CASE i = Len(q) + 1
        <4>1. CASE q # <<>> /\ m.from <= q[Len(q)].to
          <5>1. i > 1 /\ i - 1 = Len(q) /\ Len(q) \in 1..Len(q)
            BY <1>4, <3>2, <4>1
          <5> QED BY <1>4, <3>2, <4>1, <5>1
        <4> QED BY <1>4, <2>2, <3>2, <4>1 DEF Linked
      <3> QED BY <1>4, <3>1, <3>2
    <2>4. ASSUME NEW p \in Nat, Coming(Tail(wire), stream, p) PROVE Linked(y, b, p)
      <3>1. p <= m.to
        BY <2>4, NextComes
      <3>2. y # <<>> /\ y[Len(y)] = m
        BY <1>4
      <3> QED BY <3>1, <3>2 DEF Linked
    <2> HIDE DEF q, m
    <2> QED BY <1>5, <2>3, <2>4 DEF Waits, Joins
  <1>7. client.waiting
    BY DEF ClientInv
  <1>8. \A k \in 1..Len(wire') : \E j \in 1..Len(wire) : wire'[k] = wire[j]
    BY <1>2
  <1>9. /\ client'.n = client.n /\ (client'.waiting <=> client.waiting)
        /\ client'.resolved = client.resolved /\ client'.syncing
    BY <1>5
  <1> HIDE DEF m, q
  <1> QED BY <1>6, <1>7, <1>8, <1>9, ClientMoves

\* It reads output that it shows at once.
LEMMA ClientShows ==
    ASSUME log \in Seq(Int), ServerInv, ClientInv, ~Draining, client.n # None,
           ~client.syncing, wire # <<>>, wire[1].kind = "output",
           client' = Delivered(client, wire[1]), wire' = Tail(wire),
           UNCHANGED <<log, agent, requests, serving, stream, calls>>
    PROVE  ClientInv'
  <1> DEFINE m == wire[1]
  <1>1. WireIn(log, agent, wire) /\ ClientIn(log, agent, client) /\ client \in Clients
    BY DEF ServerInv, ClientIn
  <1>2. /\ m \in Messages /\ MessageIn(log, agent, m)
        /\ \A k \in 1..Len(wire') : \E j \in 1..Len(wire) : wire'[k] = wire[j]
    BY FirstRead
  <1>3. m.to \in Nat /\ m.from \in Nat /\ ChunkIn(log, m.from, m.to)
    BY <1>2 DEF Messages, MessageIn
  <1>3a. wire[1] = m /\ wire[1].kind = "output" /\ client' = Delivered(client, m)
    OBVIOUS
  <1> HIDE DEF m
  <1>4. /\ client'.n = client.n /\ (client'.waiting <=> client.waiting)
        /\ (client'.syncing <=> client.syncing)
        /\ client'.queue = client.queue /\ client'.resolved = client.resolved
        /\ (client'.overtaken <=> client.overtaken)
    BY <1>1, <1>2, <1>3a, DeliveredKeeps
  <1>5. /\ client.next <= client'.next /\ m.to <= client'.next
        /\ ClientIn(log, agent, client')
        /\ m.from <= client.next /\ RightIn(log, agent, client.next, client.shows, client.slept)
             => RightIn(log, agent, client'.next, client'.shows, client'.slept)
    BY <1>1, <1>2, <1>3, <1>3a, DeliveredIn
  <1>6. PICK x \in Nat, y \in Nat : x = client.next /\ y = client'.next /\ x <= y
    BY <1>1, <1>5 DEF ClientIn, Clients
  <1>7. client.queue = <<>>
    BY DEF Draining
  <1>8. ASSUME NEW b \in Nat, y <= b PROVE Joins(client'.queue, wire', stream', b)
    <2>1. wire[1].to <= b
      BY <1>3, <1>3a, <1>5, <1>6, <1>8
    <2>2. QueueJoins(client'.queue, b)
      BY <1>4, <1>7, EmptyJoins
    <2> QED BY <2>1, <2>2, NextJoins
  <1>9. ASSUME NEW b \in Nat, Waits(client, wire, stream, b)
        PROVE  Waits(client', wire', stream', b)
    <2>1. CASE y > b
      BY <1>4, <1>6, <2>1 DEF Waits
    <2>2. CASE y <= b
      BY <1>8, <2>2 DEF Waits
    <2> QED BY <2>1, <2>2
  <1>10. ASSUME ~client.waiting, ~client.overtaken
         PROVE  /\ Joins(client'.queue, wire', stream', client'.next)
                /\ RightIn(log', agent', client'.next, client'.shows, client'.slept)
    <2>1. /\ Joins(client.queue, wire, stream, client.next)
          /\ RightIn(log, agent, client.next, client.shows, client.slept)
      BY <1>10 DEF ClientInv
    <2>2. Coming(wire, stream, m.from)
      BY <1>3a DEF Coming
    <2>3. m.from <= client.next
      BY <1>3, <1>7, <2>1, <2>2 DEF Joins, Linked
    <2>4. y <= y
      BY <1>6
    <2> QED BY <1>5, <1>6, <1>8, <2>1, <2>3, <2>4
  <1>11. \A k \in 1..Len(wire') : \E j \in 1..Len(wire) : wire'[k] = wire[j]
    BY <1>2
  <1>12. /\ client.waiting => client'.overtaken
         /\ ~client'.syncing
    BY <1>4 DEF ClientInv
  <1> QED BY <1>4, <1>9, <1>10, <1>11, <1>12, ClientMoves

LEMMA ClientReadsNext ==
    ASSUME log \in Seq(Int), ServerInv, OrderInv, ClientInv, ClientReads
    PROVE  ClientInv'
  <1>1. /\ wire # <<>> /\ wire' = Tail(wire) /\ ~Draining /\ OnFrame(Head(wire))
        /\ UNCHANGED <<log, agent, requests, serving, stream, calls>>
    BY DEF ClientReads, actorVars
  <1>2. /\ wire[1] \in Messages /\ Head(wire) = wire[1]
    <2>1. WireIn(log, agent, wire)
      BY DEF ServerInv
    <2> QED BY <1>1, <2>1, WireRead
  <1>3. OnFrame(wire[1])
    BY <1>1, <1>2
  <1>4. wire[1].kind \in {"response", "snapshot", "output"}
    BY <1>2 DEF Messages
  <1>5. CASE client.n = None
    <2>1. client' = client
      BY <1>3, <1>5 DEF OnFrame
    <2>2. client = Off
      BY <1>5 DEF ClientInv
    <2> QED BY <2>1, <2>2, ClientOff
  <1>6. CASE client.n # None /\ wire[1].kind = "response"
    <2>1. CASE wire[1].n = client.n /\ client.waiting
      <3>1. client' = [client EXCEPT !.resolved = <<wire[1]>>]
        BY <1>3, <1>6, <2>1 DEF OnFrame
      <3> QED BY <1>1, <1>6, <2>1, <3>1, ClientIsAnswered
    <2>2. CASE ~(wire[1].n = client.n /\ client.waiting)
      <3>1. client' = client
        BY <1>3, <1>6, <2>2 DEF OnFrame
      <3> QED BY <1>1, <1>6, <2>2, <3>1, ClientSkips
    <2> QED BY <2>1, <2>2
  <1>7. CASE client.n # None /\ wire[1].kind = "snapshot"
    <2>1. client' = [Applied(client, wire[1]) EXCEPT !.overtaken = @ \/ client.waiting]
      BY <1>3, <1>7 DEF OnFrame
    <2> QED BY <1>1, <1>7, <2>1, ClientTakesSnapshot
  <1>8. CASE client.n # None /\ wire[1].kind = "output" /\ client.syncing
    <2>1. client' = [client EXCEPT !.queue = Append(@, wire[1])]
      BY <1>3, <1>8 DEF OnFrame
    <2> QED BY <1>1, <1>8, <2>1, ClientQueues
  <1>9. CASE client.n # None /\ wire[1].kind = "output" /\ ~client.syncing
    <2>1. client' = Delivered(client, wire[1])
      BY <1>3, <1>9 DEF OnFrame
    <2> QED BY <1>1, <1>9, <2>1, ClientShows
  <1> QED BY <1>4, <1>5, <1>6, <1>7, <1>8, <1>9

\* The first of what waited for the snapshot is delivered.
LEMMA TailJoins ==
    ASSUME NEW q \in Seq(Messages), q # <<>>, NEW w, NEW s, NEW a \in Nat, NEW b \in Nat,
           Joins(q, w, s, a), a <= b, q[1].to <= b
    PROVE  Joins(Tail(q), w, s, b)
  <1> DEFINE y == Tail(q)
  <1>1. /\ Len(q) \in Nat /\ Len(q) > 0 /\ q[1] \in Messages
        /\ y \in Seq(Messages) /\ Len(y) = Len(q) - 1 /\ Len(y) \in Nat
        /\ \A i \in 1..Len(y) : y[i] = q[i + 1]
    OBVIOUS
  <1> HIDE DEF y
  <1>2. \A i \in 1..Len(y) : i + 1 \in 1..Len(q) /\ i + 1 > 1 /\ (i + 1) - 1 = i
    BY <1>1
  <1>2a. \A i \in 1..Len(q) : q[i].from \in Nat /\ q[i].to \in Nat
    <2>1. \A i \in 1..Len(q) : q[i] \in Messages
      OBVIOUS
    <2> QED BY <2>1 DEF Messages
  <1>3. ASSUME NEW i \in 1..Len(y)
        PROVE  y[i].from <= b \/ (i > 1 /\ y[i].from <= y[i - 1].to)
    <2>1. i + 1 \in 1..Len(q) /\ y[i] = q[i + 1] /\ (i + 1) - 1 = i
      BY <1>1, <1>2
    <2>2. q[i + 1].from <= a \/ q[i + 1].from <= q[i].to
      BY <2>1 DEF Joins, QueueJoins
    <2>3. CASE q[i + 1].from <= a
      BY <1>2a, <2>1, <2>3
    <2>4. CASE q[i + 1].from <= q[i].to /\ i = 1
      <3>1. q[1].to \in Nat /\ q[i + 1].from \in Nat
        BY <1>2a, <2>1, <2>4
      <3> QED BY <2>1, <2>4, <3>1
    <2>5. CASE q[i + 1].from <= q[i].to /\ i # 1
      <3>1. i > 1 /\ i - 1 \in 1..Len(y) /\ (i - 1) + 1 = i
        BY <1>1, <2>5
      <3>2. y[i - 1] = q[i]
        BY <1>1, <3>1
      <3> QED BY <2>1, <2>5, <3>1, <3>2
    <2> QED BY <2>2, <2>3, <2>4, <2>5
  <1>4. ASSUME NEW p \in Nat, Coming(w, s, p) PROVE Linked(y, b, p)
    <2>1. p <= a \/ p <= q[Len(q)].to
      BY <1>4 DEF Joins, Linked
    <2>2. CASE p <= a
      BY <2>2 DEF Linked
    <2>3. CASE p <= q[Len(q)].to /\ Len(q) = 1
      <3>1. q[1].to \in Nat
        BY <1>1, <1>2a
      <3> QED BY <2>3, <3>1 DEF Linked
    <2>4. CASE p <= q[Len(q)].to /\ Len(q) # 1
      <3>1. Len(y) \in 1..Len(y) /\ Len(y) + 1 = Len(q)
        BY <1>1, <2>4
      <3>2. y[Len(y)] = q[Len(q)] /\ y # <<>>
        BY <1>1, <3>1
      <3> QED BY <2>4, <3>2 DEF Linked
    <2> QED BY <2>1, <2>2, <2>3, <2>4
  <1> QED BY <1>3, <1>4 DEF Joins, QueueJoins, y

LEMMA ClientDrains ==
    ASSUME log \in Seq(Int), ServerInv, ClientInv, DeliverQueued
    PROVE  ClientInv'
  <1> DEFINE q == client.queue
             m == q[1]
             e == Delivered(client, m)
  <1>1. /\ ~client.syncing /\ q # <<>>
        /\ client' = [Delivered(client, Head(q)) EXCEPT !.queue = Tail(@)]
        /\ UNCHANGED <<log, agent, requests, serving, stream, wire, calls>>
    BY DEF DeliverQueued, Draining, actorVars, serverVars
  <1>2. ClientIn(log, agent, client) /\ client \in Clients /\ q \in Seq(Messages)
        /\ wire \in Seq(Messages)
    BY DEF ServerInv, ClientIn, Clients, WireIn
  <1>3. m \in Messages /\ Head(q) = m /\ 1 \in 1..Len(q)
    BY <1>1, <1>2
  <1>4. m.to \in Nat /\ m.from \in Nat /\ ChunkIn(log, m.from, m.to)
    BY <1>2, <1>3 DEF Messages, ClientIn
  <1>4a. client' = [e EXCEPT !.queue = Tail(@)] /\ m = q[1]
    BY <1>1, <1>3
  <1> HIDE DEF m
  <1>5. /\ e.n = client.n /\ (e.waiting <=> client.waiting)
        /\ (e.syncing <=> client.syncing)
        /\ e.queue = q /\ e.resolved = client.resolved
        /\ (e.overtaken <=> client.overtaken)
    BY <1>2, <1>3, DeliveredKeeps
  <1>6. /\ client.next <= e.next /\ m.to <= e.next
        /\ ClientIn(log, agent, e)
        /\ m.from <= client.next /\ RightIn(log, agent, client.next, client.shows, client.slept)
             => RightIn(log, agent, e.next, e.shows, e.slept)
    BY <1>2, <1>3, <1>4, DeliveredIn
  <1> HIDE DEF e
  <1>7. e \in Clients /\ e.next \in Nat
    BY <1>6 DEF ClientIn, Clients
  <1>8. Tail(q) \in Seq(Messages)
    BY <1>1, <1>2
  <1>9. /\ client'.n = e.n /\ (client'.waiting <=> e.waiting) /\ client'.next = e.next
        /\ client'.shows = e.shows /\ client'.slept = e.slept
        /\ (client'.syncing <=> e.syncing) /\ client'.queue = Tail(q)
        /\ client'.resolved = e.resolved /\ (client'.overtaken <=> e.overtaken)
    BY <1>4a, <1>5, <1>7, <1>8 DEF Clients
  <1>10. PICK x \in Nat, y \in Nat :
            x = client.next /\ y = client'.next /\ x <= y /\ m.to <= y
    BY <1>2, <1>6, <1>7, <1>9 DEF ClientIn, Clients
  <1>11. ASSUME NEW a \in Nat, NEW b \in Nat, Joins(q, wire, stream, a), a <= b, y <= b
         PROVE  Joins(client'.queue, wire', stream', b)
    <2>1. q[1].to <= b
      BY <1>4, <1>4a, <1>10, <1>11
    <2>2. Joins(Tail(q), wire, stream, b)
      <3> HIDE DEF q
      <3> QED BY <1>1, <1>2, <1>11, <2>1, TailJoins
    <2> QED BY <1>1, <1>9, <2>2
  <1>12. ASSUME NEW a \in Nat, Waits(client, wire, stream, a)
         PROVE  Waits(client', wire', stream', a)
    <2>1. CASE y > a
      BY <1>1, <1>5, <1>9, <1>10, <2>1 DEF Waits
    <2>2. CASE y <= a
      <3>1. Joins(q, wire, stream, a) /\ a <= a
        BY <1>10, <1>12, <2>2 DEF Waits
      <3>2. Joins(client'.queue, wire', stream', a)
        BY <1>11, <2>2, <3>1
      <3> QED BY <3>2 DEF Waits
    <2> QED BY <2>1, <2>2
  <1>13. client.n # None
    <2>1. Off.queue = <<>>
      BY DEF Off
    <2> QED BY <1>1, <2>1 DEF ClientInv
  <1>14. ASSUME ~client.waiting, ~client.overtaken
         PROVE  /\ Joins(client'.queue, wire', stream', client'.next)
                /\ RightIn(log', agent', client'.next, client'.shows, client'.slept)
    <2>1. /\ Joins(q, wire, stream, client.next)
          /\ RightIn(log, agent, client.next, client.shows, client.slept)
      BY <1>13, <1>14 DEF ClientInv
    <2>2. m.from <= client.next
      BY <1>3, <1>4a, <2>1 DEF Joins, QueueJoins
    <2>3. y <= y
      BY <1>10
    <2>4. Joins(client'.queue, wire', stream', y)
      BY <1>10, <1>11, <2>1, <2>3
    <2>5. RightIn(log, agent, e.next, e.shows, e.slept)
      BY <1>6, <2>1, <2>2
    <2> QED BY <1>1, <1>9, <1>10, <2>4, <2>5
  <1>15. \A k \in 1..Len(wire') : \E j \in 1..Len(wire) : wire'[k] = wire[j]
    BY <1>1
  <1>16. /\ client'.n = client.n /\ (client'.waiting <=> client.waiting)
         /\ client'.resolved = client.resolved /\ ~client'.syncing
         /\ client.waiting => client'.overtaken
         /\ client'.overtaken <=> client.overtaken
    BY <1>1, <1>5, <1>9, <1>13 DEF ClientInv
  <1> QED BY <1>1, <1>12, <1>13, <1>14, <1>15, <1>16, ClientMoves

LEMMA ClientHasItsSnapshot ==
    ASSUME ServerInv, ClientInv, AttachResolves
    PROVE  ClientInv'
  <1> DEFINE m == client.resolved[1]
  <1>1. /\ client.resolved # <<>>
        /\ UNCHANGED <<log, agent, requests, serving, stream, wire, calls>>
    BY DEF AttachResolves, actorVars, serverVars
  <1>2. /\ RightIn(log, agent, m.to, m.shows, m.slept)
        /\ client'.n = client.n /\ client'.waiting = FALSE
        /\ client'.syncing = FALSE /\ client'.next = m.to
        /\ client'.shows = m.shows /\ (client'.slept <=> m.slept)
        /\ client'.resolved = <<>> /\ client'.queue = client.queue
        /\ client'.overtaken <=> ~client.syncing /\ client.next > m.to
    BY ClientResolves
  <1>3. client.waiting /\ Waits(client, wire, stream, m.to)
    BY <1>1 DEF ClientInv
  <1>4. client.n # None
    BY <1>3 DEF ClientInv, Off
  <1>5. NothingAsked(requests, serving, wire) /\ client.n = calls
    BY <1>1, <1>4 DEF ClientInv, Answered
  <1>6. m.slept \in BOOLEAN /\ client'.slept \in BOOLEAN
    <2>1. m \in Messages
      BY <1>1 DEF ServerInv, ClientIn, Clients
    <2>2. client' \in Clients
      BY ClientResolves DEF ServerInv, ClientIn
    <2> QED BY <2>1, <2>2 DEF Messages, Clients
  <1>7. client'.slept = m.slept
    BY <1>2, <1>6
  <1> HIDE DEF m
  <1>8. ~client'.overtaken => Joins(client.queue, wire, stream, m.to)
    BY <1>2, <1>3 DEF Waits
  <1>9. NothingAsked(requests', serving', wire')
    BY <1>1, <1>5 DEF NothingAsked
  <1>10. RightIn(log', agent', client'.next, client'.shows, client'.slept)
    BY <1>1, <1>2, <1>7
  <1>11. ~client'.overtaken => Joins(client'.queue, wire', stream', client'.next)
    BY <1>1, <1>2, <1>8
  <1>12. /\ client'.n = calls' /\ client'.n # None
         /\ ~client'.waiting /\ ~client'.syncing /\ client'.resolved = <<>>
    BY <1>1, <1>2, <1>4, <1>5
  <1> QED BY <1>9, <1>10, <1>11, <1>12 DEF ClientInv

LEMMA ClientAsks ==
    ASSUME log \in Seq(Int), ServerInv, OrderInv, NEW n \in 1..NAttach, Attach(n)
    PROVE  ClientInv'
  <1>1. /\ n = calls + 1 /\ calls' = n
        /\ UNCHANGED <<serving, wire>>
    BY DEF Attach
  <1>2. /\ n \in Nat \ {0} /\ client'.n = n /\ client'.waiting = TRUE
        /\ client'.syncing = TRUE /\ client'.resolved = <<>>
    BY ClientAttaches
  <1>3. calls \in Nat /\ serving.n \in Nat /\ wire \in Seq(Messages)
    BY DEF ServerInv, ServingIn, Servings, WireIn
  <1>4. ~(serving.phase # "idle" /\ serving.n = n)
    BY <1>1, <1>3 DEF OrderInv, ServedIn
  <1>5. ASSUME NEW k \in 1..Len(wire), wire[k].kind = "response", wire[k].n = n
        PROVE  FALSE
    <2>1. wire[k] \in Messages
      BY <1>3
    <2>2. wire[k].n \in Nat /\ wire[k].n <= calls
      BY <1>5, <2>1 DEF Messages, OrderInv, AnswersIn
    <2> QED BY <1>1, <1>3, <1>5, <2>2
  <1>6. client'.n # None
    BY <1>2 DEF None
  <1> QED BY <1>1, <1>2, <1>4, <1>5, <1>6 DEF ClientInv, Answered

\* A step after which the requests, the answers and who is served are as before.
LEMMA TalkGoesOn ==
    ASSUME ServerInv, OrderInv, ClientInv,
           UNCHANGED <<client, calls, requests, wire>>,
           Goes(log, agent, log', agent'),
           stream'.on => stream.on /\ stream'.next = stream.next,
           serving'.phase = "idle" <=> serving.phase = "idle", serving'.n = serving.n,
           serving'.snap = serving.snap
    PROVE  OrderInv' /\ ClientInv'
  <1>1. UNCHANGED <<requests, wire, calls>>
    OBVIOUS
  <1>2. OrderInv'
    BY <1>1, OrderSame
  <1>3. ClientInv'
    BY ClientWorld
  <1> QED BY <1>2, <1>3

\* A step of the client that changes neither what it asked nor its answers.
LEMMA OrderStays ==
    ASSUME OrderInv, UNCHANGED <<requests, wire, calls, serving>>
    PROVE  OrderInv'
  BY OrderSame

LEMMA ScreenInit ==
    ASSUME Init
    PROVE  OrderInv /\ ClientInv
  <1>1. Len(<<>>) = 0 /\ NotServing.phase = "idle"
    BY DEF NotServing
  <1>2. requests = <<>> /\ serving = NotServing /\ wire = <<>> /\ client = Off
    BY DEF Init
  <1>3. OrderInv
    BY <1>1, <1>2 DEF OrderInv, RequestsIn, ServedIn, AnswersIn
  <1>4. Off.n = None /\ Off.waiting = FALSE /\ Off.resolved = <<>>
    BY DEF Off
  <1>5. ClientInv
    BY <1>2, <1>4 DEF ClientInv, Answered
  <1> QED BY <1>3, <1>5

LEMMA ScreenNext ==
    ASSUME FeedInv, LinkInv, FeedInv', ServerInv, OrderInv, ClientInv, [Next]_vars
    PROVE  OrderInv' /\ ClientInv'
  <1>1. log \in Seq(Int) /\ log' \in Seq(Int) /\ calls \in Nat
    BY DEF FeedInv, ServerInv
  <1>2. CASE \/ \E n \in 1..MaxWrite : Write(n)
             \/ End \/ HoldAttach \/ ReadExit \/ ReadEof \/ Reconnect
             \/ Spawned \/ WakeFailed \/ GoToSleep \/ UNCHANGED vars
    <2>1. UNCHANGED <<log, serverVars, client, calls>>
      BY <1>2 DEF Write, End, HoldAttach, ReadExit, ReadEof, Reconnect, Spawned,
         WakeFailed, GoToSleep, actorVars, vars
    <2>2. agent = "asleep" => agent' = "asleep"
      BY <1>2 DEF Write, End, HoldAttach, ReadExit, ReadEof, Reconnect, Spawned,
         WakeFailed, GoToSleep, actorVars, vars
    <2>3. Goes(log, agent, log', agent')
      BY <1>1, <2>1, <2>2, GoesSame
    <2>4. /\ client' = client /\ calls' = calls /\ requests' = requests /\ wire' = wire
          /\ serving' = serving /\ stream' = stream
      BY <2>1 DEF serverVars
    <2> QED BY <2>3, <2>4, TalkGoesOn
  <1>3. CASE ReadOutput \/ BeginWake
    <2>1. TalkKept /\ Goes(log, agent, log', agent')
      BY <1>3, ServerReadOutput, ServerBeginWake
    <2>2. /\ client' = client /\ calls' = calls /\ requests' = requests /\ wire' = wire
      BY <1>3 DEF ReadOutput, BeginWake
    <2>3. /\ stream'.on => stream.on /\ stream'.next = stream.next
          /\ serving'.phase = "idle" <=> serving.phase = "idle"
          /\ serving'.n = serving.n /\ serving'.snap = serving.snap
      BY <2>1 DEF TalkKept
    <2> QED BY <2>1, <2>2, <2>3, TalkGoesOn
  <1>4. CASE ReadRequest
    BY <1>1, <1>4, OrderReadRequest, ClientReadRequest
  <1>5. CASE Reply
    BY <1>1, <1>5, OrderReply, ClientReply
  <1>6. CASE StreamSends
    BY <1>1, <1>6, OrderStreamSends, ClientStreamSends
  <1>7. CASE Attached
    <2>1. /\ serving.phase = "answered" /\ serving' = [serving EXCEPT !.phase = "replying"]
          /\ stream' = NoStream /\ log' = log /\ agent' = agent
          /\ client' = client /\ calls' = calls /\ requests' = requests /\ wire' = wire
      BY <1>7 DEF Attached, actorVars
    <2>2. serving \in Servings
      BY DEF ServerInv, ServingIn
    <2>3. /\ serving'.phase = "replying" /\ serving'.n = serving.n
          /\ serving'.snap = serving.snap
      BY <2>1, <2>2 DEF Servings
    <2>4. stream'.on = FALSE
      BY <2>1 DEF NoStream
    <2>5. Goes(log, agent, log', agent')
      BY <1>1, <2>1, GoesSame
    <2> QED BY <2>1, <2>3, <2>4, <2>5, TalkGoesOn
  <1>8. CASE StreamTakes \/ StreamResyncs
    <2>1. /\ stream.on /\ log' = log /\ agent' = agent /\ serving' = serving
          /\ client' = client /\ calls' = calls /\ requests' = requests /\ wire' = wire
      BY <1>8 DEF StreamTakes, StreamResyncs, actorVars
    <2>2. stream'.next = stream.next
      <3>1. CASE StreamTakes
        BY <3>1, TakesIn DEF StreamTakes, ServerInv
      <3>2. CASE StreamResyncs
        <4>1. stream \in Streams
          BY DEF ServerInv, StreamIn
        <4> QED BY <3>2, <4>1 DEF StreamResyncs, Streams
      <3> QED BY <1>8, <3>1, <3>2
    <2>3. Goes(log, agent, log', agent')
      BY <1>1, <2>1, GoesSame
    <2> QED BY <2>1, <2>2, <2>3, TalkGoesOn
  <1>9. CASE ClientReads
    BY <1>1, <1>9, OrderClientReads, ClientReadsNext
  <1>10. CASE AttachResolves
    <2>1. UNCHANGED <<requests, wire, calls, serving>>
      BY <1>10 DEF AttachResolves, serverVars
    <2> QED BY <1>10, <2>1, OrderStays, ClientHasItsSnapshot
  <1>11. CASE DeliverQueued
    <2>1. UNCHANGED <<requests, wire, calls, serving>>
      BY <1>11 DEF DeliverQueued, serverVars
    <2> QED BY <1>1, <1>11, <2>1, OrderStays, ClientDrains
  <1>12. ASSUME NEW n \in 1..NAttach, Attach(n)
         PROVE  OrderInv' /\ ClientInv'
    <2>1. /\ n = calls + 1 /\ calls' = n /\ requests' = Append(requests, n)
          /\ UNCHANGED <<serving, wire>>
      BY <1>12 DEF Attach
    <2>2. n \in Nat
      OBVIOUS
    <2>3. OrderInv'
      BY <2>1, <2>2, OrderAsks
    <2>4. ClientInv'
      BY <1>1, <1>12, ClientAsks
    <2> QED BY <2>3, <2>4
  <1>13. CASE TimeOut
    <2>1. UNCHANGED <<requests, wire, calls, serving>> /\ client' = Off
      BY <1>13 DEF TimeOut, serverVars
    <2> QED BY <2>1, OrderStays, ClientOff
  <1>14. CASE Detach
    <2>1. /\ calls' = calls /\ requests' = Append(requests, None) /\ client' = Off
          /\ UNCHANGED <<serving, wire>>
      BY <1>14 DEF Detach
    <2>2. None \in Nat /\ calls' \in Nat
      BY <1>1, <2>1 DEF None
    <2>3. OrderInv'
      BY <2>1, <2>2, OrderAsks
    <2> QED BY <2>1, <2>3, ClientOff
  <1>15. CASE ConnectionLost \/ \E k \in 0..MaxWrite : Restart(k)
    <2>1. NoConnection
      BY <1>15 DEF ConnectionLost, Restart
    <2>2. requests' = <<>> /\ serving' = NotServing /\ wire' = <<>> /\ client' = Off
      BY <2>1 DEF NoConnection
    <2> QED BY <2>2, OrderNothing, ClientOff
  <1> HIDE DEF FeedInv, LinkInv, ServerInv, OrderInv, ClientInv
  <1> QED
    BY <1>2, <1>3, <1>4, <1>5, <1>6, <1>7, <1>8, <1>9, <1>10, <1>11, <1>12, <1>13,
       <1>14, <1>15 DEF Next, Actor, Server, Client

LEMMA ScreenAlways == Spec => []ClientInv
  <1>1. Init => OrderInv /\ ClientInv
    BY ScreenInit
  <1>2. /\ FeedInv /\ LinkInv /\ FeedInv' /\ ServerInv /\ OrderInv /\ ClientInv
        /\ [Next]_vars
        => OrderInv' /\ ClientInv'
    BY ScreenNext
  <1> QED BY <1>1, <1>2, ServerAlways, PTL DEF Spec

\* A client that has its snapshot shows exactly what the actor's screen showed
\* at the client's offset, or the tail of a session that slept then: no byte
\* twice and none missing, whatever lags, overlaps or is attached again
\* (stream_output, deliver, applySnapshot).
THEOREM ScreenFollowsTheFeed == Spec => []ScreenIsRight
  <1>1. ClientInv => ScreenIsRight
    <2> SUFFICES ASSUME ClientInv, client.n # None, ~client.syncing, ~client.overtaken
                 PROVE  client.slept \/ client.shows = Shown(SubSeq(log, 1, client.next))
      BY DEF ScreenIsRight
    <2>1. ~client.waiting
      BY DEF ClientInv
    <2>2. RightIn(log, agent, client.next, client.shows, client.slept)
      BY <2>1 DEF ClientInv
    <2> QED BY <2>2 DEF RightIn, Then
  <1> QED BY <1>1, ScreenAlways, PTL

\* A client that shows the tail of a sleep: the session still sleeps and has
\* nothing more for it, or what comes next clears its screen.
TailUntilTheWake ==
    client.n # None /\ ~client.syncing /\ ~client.overtaken /\ client.slept =>
        \/ agent = "asleep" /\ client.next = Len(log)
        \/ client.next < Len(log) /\ log[client.next + 1] = Reset

\* No output of a new process is ever added to the tail of the last sleep: a
\* client that ScreenIsRight lets show a tail shows it only until the wake, whose
\* first bytes clear its screen (begin_wake, snap, applySnapshot).
THEOREM TailEndsWithTheWake == Spec => []TailUntilTheWake
  <1>1. ClientInv => TailUntilTheWake
    <2> SUFFICES ASSUME ClientInv, client.n # None, ~client.syncing,
                        ~client.overtaken, client.slept
                 PROVE  \/ agent = "asleep" /\ client.next = Len(log)
                        \/ client.next < Len(log) /\ log[client.next + 1] = Reset
      BY DEF TailUntilTheWake
    <2>1. ~client.waiting
      BY DEF ClientInv
    <2>2. RightIn(log, agent, client.next, client.shows, client.slept)
      BY <2>1 DEF ClientInv
    <2> QED BY <2>2 DEF RightIn, SleptAt
  <1> QED BY <1>1, ScreenAlways, PTL

=============================================================================
