--------------------------- MODULE TimelineProofs ---------------------------
(***************************************************************************)
(* For any number of guests, any interval of the hashes, any history and   *)
(* all bounds: every variable of Timeline has its type, the packets that a *)
(* guest has yet to read are the next ones of the host, only a guest that  *)
(* strayed is held to differ, and the run implements SharedTimeline.       *)
(*                                                                         *)
(* Most of the inductive invariant is about one guest.  After it come the  *)
(* lemmas on what one event, packet, answer or checkpoint does to that part*)
(* of it, on what the coordinator does, on the actions of the guests and of*)
(* the host, the theorems, and last the refinement.                        *)
(***************************************************************************)
EXTENDS Timeline, FiniteSetTheorems, TLAPS

-----------------------------------------------------------------------------
(* Queues                                                                  *)

\* What is appended comes last, and nothing else moves.
LEMMA AppendAt ==
  ASSUME NEW T, NEW s \in Seq(T), NEW x \in T
  PROVE  /\ Append(s, x) \in Seq(T) /\ Append(s, x) # <<>>
         /\ Len(s) \in Nat /\ DOMAIN s = 1..Len(s) /\ Len(Append(s, x)) = Len(s) + 1
         /\ \A i \in DOMAIN s : i \in Nat /\ 1 <= i /\ i <= Len(s) /\ s[i] \in T
         /\ DOMAIN Append(s, x) = DOMAIN s \cup {Len(s) + 1}
         /\ \A i \in DOMAIN s : Append(s, x)[i] = s[i]
         /\ Append(s, x)[Len(s) + 1] = x
  OBVIOUS

\* Reading the first element shifts the others.
LEMMA TailAt ==
  ASSUME NEW T, NEW s \in Seq(T), s # <<>>
  PROVE  /\ Tail(s) \in Seq(T) /\ Head(s) \in T /\ Head(s) = s[1] /\ 1 \in DOMAIN s
         /\ Len(s) \in Nat /\ DOMAIN s = 1..Len(s) /\ Len(Tail(s)) = Len(s) - 1
         /\ \A i \in DOMAIN s : i \in Nat /\ 1 <= i /\ s[i] \in T
         /\ \A i \in DOMAIN Tail(s) : i + 1 \in DOMAIN s /\ Tail(s)[i] = s[i + 1]
         /\ \A i \in DOMAIN s : i = 1 \/ (i - 1 \in DOMAIN Tail(s) /\ Tail(s)[i - 1] = s[i])
  OBVIOUS

-----------------------------------------------------------------------------
(* The frames of a stream in a queue of packets                            *)

IsFrame(q, stream, i) == q[i].stream = stream /\ q[i].p.kind = "frame"

\* The positions that FramesOf counts are finitely many.
LEMMA FramesFinite ==
  ASSUME NEW stream, NEW q, NEW n \in Nat
  PROVE  /\ IsFiniteSet({i \in 1..n : IsFrame(q, stream, i)})
         /\ FramesOf(stream, q, n) \in Nat
  <1>1. IsFiniteSet(1..n) BY FS_Interval
  <1>2. IsFiniteSet({i \in 1..n : IsFrame(q, stream, i)}) BY <1>1, FS_Subset
  <1> QED BY <1>2, FS_CardinalityType DEF FramesOf, IsFrame

\* A position counts when it holds a frame of the stream.
LEMMA FramesStep ==
  ASSUME NEW stream, NEW q, NEW n \in Nat
  PROVE  /\ FramesOf(stream, q, 0) = 0
         /\ FramesOf(stream, q, n + 1)
              = FramesOf(stream, q, n) + (IF IsFrame(q, stream, n + 1) THEN 1 ELSE 0)
  <1> DEFINE S(m) == {i \in 1..m : IsFrame(q, stream, i)}
  <1>1. S(0) = {} OBVIOUS
  <1>2. Cardinality(S(0)) = 0 BY <1>1, FS_EmptySet
  <1>3. IsFiniteSet(S(n)) /\ Cardinality(S(n)) \in Nat BY FramesFinite, FS_CardinalityType
  <1>4. CASE IsFrame(q, stream, n + 1)
    <2>1. S(n + 1) = S(n) \cup {n + 1} /\ n + 1 \notin S(n) BY <1>4
    <2>2. Cardinality(S(n) \cup {n + 1}) = Cardinality(S(n)) + 1 BY <1>3, <2>1, FS_AddElement
    <2> QED BY <1>2, <1>4, <2>1, <2>2 DEF FramesOf, IsFrame
  <1>5. CASE ~IsFrame(q, stream, n + 1)
    <2>1. S(n + 1) = S(n) BY <1>5
    <2>2. FramesOf(stream, q, n + 1) = FramesOf(stream, q, n) BY <2>1 DEF FramesOf, IsFrame
    <2>3. FramesOf(stream, q, n) \in Nat BY FramesFinite
    <2> QED BY <1>2, <1>5, <2>2, <2>3 DEF FramesOf, IsFrame
  <1> QED BY <1>4, <1>5

\* Only what lies before a position counts.
LEMMA FramesSame ==
  ASSUME NEW stream, NEW q, NEW r, NEW n \in Nat, \A i \in 1..n : q[i] = r[i]
  PROVE  FramesOf(stream, q, n) = FramesOf(stream, r, n)
BY DEF FramesOf

\* A stream without packets has no frames in the queue.
LEMMA FramesNone ==
  ASSUME NEW stream, NEW q, NEW n \in Nat, \A i \in 1..n : q[i].stream # stream
  PROVE  FramesOf(stream, q, n) = 0
BY FS_EmptySet DEF FramesOf

\* The first packet read, the others lie one position earlier.
LEMMA FramesTail ==
  ASSUME NEW T, NEW q \in Seq(T), q # <<>>, NEW stream, NEW n \in 0..(Len(q) - 1)
  PROVE  FramesOf(stream, q, n + 1)
           = FramesOf(stream, Tail(q), n) + (IF IsFrame(q, stream, 1) THEN 1 ELSE 0)
  <1> DEFINE S == {i \in 1..n : IsFrame(Tail(q), stream, i)}
             R == {i \in 2..(n + 1) : IsFrame(q, stream, i)}
             F == {i \in 1..(n + 1) : IsFrame(q, stream, i)}
             move == [i \in S |-> i + 1]
  <1>1. n \in Nat /\ n + 1 \in Nat OBVIOUS
  <1>2. \A i \in 1..n : Tail(q)[i] = q[i + 1] BY TailAt
  <1>3. IsFiniteSet(S) BY <1>1, FramesFinite
  <1>4. IsFiniteSet(F) BY <1>1, FramesFinite
  <1>5. \A i \in S : i + 1 \in R BY <1>1, <1>2 DEF IsFrame
  <1>6. \A j \in R : j - 1 \in S /\ (j - 1) + 1 = j
    <2> TAKE j \in R
    <2>1. j \in Nat /\ j - 1 \in 1..n /\ (j - 1) + 1 = j BY <1>1
    <2> QED BY <2>1, <1>2 DEF IsFrame
  <1>7. move \in Bijection(S, R)
    BY <1>5, <1>1, <1>6 DEF Bijection, Injection, Surjection, IsInjective
  <1>8. Cardinality(R) = Cardinality(S) BY <1>3, <1>7, FS_Bijection DEF ExistsBijection
  <1>9. R \subseteq F BY <1>1
  <1>10. IsFiniteSet(R) /\ Cardinality(R) \in Nat BY <1>4, <1>9, FS_Subset, FS_CardinalityType
  <1>11. CASE IsFrame(q, stream, 1)
    <2>1. F = R \cup {1} /\ 1 \notin R BY <1>1, <1>11
    <2>2. Cardinality(R \cup {1}) = Cardinality(R) + 1 BY <1>10, <2>1, FS_AddElement
    <2> QED BY <1>8, <1>11, <2>1, <2>2 DEF FramesOf, IsFrame
  <1>12. CASE ~IsFrame(q, stream, 1)
    <2>1. F = R BY <1>1, <1>12
    <2>2. FramesOf(stream, q, n + 1) = FramesOf(stream, Tail(q), n) BY <1>8, <2>1 DEF FramesOf, IsFrame
    <2>3. FramesOf(stream, Tail(q), n) \in Nat BY <1>1, FramesFinite
    <2> QED BY <1>12, <2>2, <2>3
  <1> QED BY <1>11, <1>12

-----------------------------------------------------------------------------
(* The inductive invariant                                                 *)
(*                                                                         *)
(* Most of it is about one guest and the pieces of the state that concern  *)
(* it: f is the frame of the host, q the events on their way to the host,  *)
(* t the transfer of the guest, c the events on their way to it, o what    *)
(* the host sends it, l the host's side of its channel, d and u the packets*)
(* on their way to it and from it, k the checkpoints on their way, e its   *)
(* scheduler and n the state of its emulator.                              *)

Of(ev, type, g) == ev.type = type /\ ev.guest = g

\* A running guest has run the frames its scheduler committed, and those it
\* received are frames of the host; one frame runs at a time, and none is left
\* to run when a checkpoint is installed.
Replays(f, e, n) ==
  /\ e.run => n.at = e.frame /\ e.frame <= e.head /\ e.head <= f
  /\ \A i, j \in DOMAIN e.work : e.work[i].kind = "frame" /\ e.work[j].kind = "frame" => i = j
  /\ \A i \in DOMAIN e.work :
       e.run /\ e.work[i].kind = "frame" => e.work[i].id = e.frame /\ e.frame < e.head
  /\ \A i, j \in DOMAIN e.work :
       e.work[i].kind = "import" /\ Takes(e, e.work[i].id) /\ e.work[j].kind = "frame" => j < i

\* A check of the boundary belongs to a checkpoint that was installed.
Checks(e) ==
  /\ e.catchingUp => e.incoming # None /\ e.incoming.id = e.stream
  /\ \A i \in DOMAIN e.work : e.work[i].kind = "check" =>
       e.work[i].id <= e.stream /\ (e.run /\ Takes(e, e.work[i].id) => e.target # None)

\* Nothing on its way to a guest is ahead of the host.
Past(f, t, c, o, e, d) ==
  /\ t # None => t.frame = None \/ t.frame <= f
  /\ o # None => o.frame <= f /\ (o.boundary = None \/ o.boundary <= f)
  /\ e.incoming # None => e.incoming.frame <= f
  /\ \A i \in DOMAIN c : c[i].type = "checkpoint" => c[i].frame <= f
  /\ \A i \in DOMAIN d : d[i].p.kind = "frame" => d[i].p.frame < f

\* The checkpoint of a transfer is on its way: to be sent, sent, or to be
\* imported.
Late(g, id, q, k, w) ==
  \/ \E i \in DOMAIN q : Of(q[i], "send", g) /\ q[i].id = id
  \/ \E i \in DOMAIN k : k[i].id = id
  \/ \E i \in DOMAIN w : w[i].kind = "import" /\ w[i].id = id

\* It is on its way once.
Once(g, q, k, w) ==
  /\ \A i, j \in DOMAIN q :
       Of(q[i], "send", g) /\ Of(q[j], "send", g) /\ q[i].id = q[j].id => i = j
  /\ \A i, j \in DOMAIN k : k[i].id = k[j].id => i = j
  /\ \A i, j \in DOMAIN w :
       w[i].kind = "import" /\ w[j].kind = "import" /\ w[i].id = w[j].id => i = j
  /\ \A i \in DOMAIN q, j \in DOMAIN k : Of(q[i], "send", g) => q[i].id # k[j].id
  /\ \A i \in DOMAIN q, j \in DOMAIN w :
       Of(q[i], "send", g) /\ w[j].kind = "import" => q[i].id # w[j].id
  /\ \A i \in DOMAIN k, j \in DOMAIN w : w[j].kind = "import" => k[i].id # w[j].id

\* A transfer passes through its stages in order: until the guest holds, no
\* checkpoint of it is on its way, and a guest that runs again awaits none.
Fresh(g, issued, q, t, c, e, k) ==
  /\ t # None =>
       /\ t.id <= issued /\ e.stream <= t.id
       /\ e.incoming # None => e.incoming.id <= t.id
       /\ \A i \in DOMAIN c : c[i].type = "checkpoint" => c[i].id <= t.id
  /\ t # None /\ t.frame = None =>
       /\ ~t.sending
       /\ e.incoming # None => e.incoming.id < t.id
       /\ \A i \in DOMAIN c : c[i].type = "checkpoint" => c[i].id < t.id
  /\ t # None /\ ~t.sending => e.stream < t.id /\ ~Late(g, t.id, q, k, e.work)
  /\ e.incoming # None => e.incoming.id <= issued /\ e.stream <= e.incoming.id
  /\ e.incoming # None /\ (e.run \/ e.stream = e.incoming.id) =>
       ~Late(g, e.incoming.id, q, k, e.work)
  /\ \A i \in DOMAIN c : c[i].type = "checkpoint" =>
       /\ c[i].id <= issued /\ e.stream < c[i].id
       /\ e.incoming # None => e.incoming.id < c[i].id
       /\ ~Late(g, c[i].id, q, k, e.work)
       /\ \A j \in DOMAIN c : c[j].type = "checkpoint" /\ i < j => c[i].id < c[j].id
  /\ \A id \in Nat : Late(g, id, q, k, e.work) => id <= issued

\* The host numbers its streams by the transfers it was asked for, in order,
\* and the guest follows it.
Streams(g, issued, q, c, o, l, e) ==
  /\ e.stream <= l.stream /\ l.stream <= issued
  /\ o # None => o.id = l.stream
  /\ e.incoming # None => e.incoming.id <= l.stream
  /\ \A i \in DOMAIN c : c[i].type = "checkpoint" => c[i].id <= l.stream
  /\ \A i \in DOMAIN q : Of(q[i], "capture", g) =>
       /\ l.stream < q[i].id /\ q[i].id <= issued
       /\ \A j \in DOMAIN q : Of(q[j], "capture", g) /\ i < j => q[i].id < q[j].id

\* Hashes that differ come from the stream of an emulator that strayed.
Blames(u, l, e, n) ==
  /\ \A i \in DOMAIN u :
       /\ u[i].stream <= e.stream
       /\ e.run /\ u[i].stream = e.stream /\ ~u[i].p.agrees => n.state # "agrees"
  /\ l.theirs # {} => l.stream = e.stream
  /\ e.run /\ (\E claim \in l.theirs : ~claim.agrees) => n.state # "agrees"

\* What the host still sends is the coordinator's open transfer, or an event
\* that ends it reaches the host before the next capture does; and so for a
\* capture that the host has yet to read.
Stops(ev, g, id) == (Of(ev, "syncStop", g) /\ ev.id = id) \/ ev.type = "stop"
Ends(ev, g, o) ==
  \/ Stops(ev, g, o.id)
  \/ Of(ev, "live", g) /\ ev.id = o.id /\ ev.frame = o.boundary
Before(q, g, i, j) == \A m \in DOMAIN q : Of(q[m], "capture", g) /\ i < m => j < m
Closing(g, q, t, o, l) ==
  /\ t # None => \A i \in DOMAIN q : Of(q[i], "capture", g) => q[i].id <= t.id
  /\ \A i \in DOMAIN q : Of(q[i], "capture", g) /\ (t = None \/ t.id # q[i].id) =>
       \E j \in DOMAIN q : i < j /\ Stops(q[j], g, q[i].id) /\ Before(q, g, i, j)
  /\ o # None /\ (t = None \/ t.id # o.id) =>
       \E j \in DOMAIN q : Ends(q[j], g, o) /\ Before(q, g, 0, j)
  /\ t # None /\ t.boundary # None => t.id <= l.stream
  /\ t # None /\ o # None /\ t.id = o.id /\ t.boundary # None => o.boundary = t.boundary

\* A served guest is served where the packets on their way to it end.
End(e, d) == e.head + FramesOf(e.stream, d, Len(d))
Served(g, f, q, o, l, e, d) ==
  /\ l.live => l.stream = e.stream /\ (o # None => o.marked)
  /\ \A i \in DOMAIN d : d[i].stream <= e.stream
  /\ o # None /\ o.cursor # None => o.id = e.stream /\ o.cursor <= f
  /\ o # None /\ o.boundary # None => o.cursor # None /\ o.cursor <= o.boundary
  /\ o # None /\ o.pending => o.cursor # None
  /\ o # None /\ o.marked => o.boundary # None
  /\ e.run /\ l.live => l.cursor = End(e, d)
  /\ e.run /\ o # None /\ o.cursor # None /\ ~o.marked => o.cursor = End(e, d)
  /\ \A i \in DOMAIN q : Of(q[i], "catchup", g) =>
       /\ q[i].id <= e.stream /\ q[i].frame <= f
       /\ o # None /\ o.id = q[i].id => o.cursor = None
       /\ q[i].id = e.stream => ~l.live /\ \A j \in DOMAIN d : d[j].stream # e.stream
       /\ q[i].id = e.stream /\ e.run => q[i].frame = e.head
       /\ \A j \in DOMAIN q : Of(q[j], "catchup", g) /\ q[i].id = q[j].id => i = j

\* The packets of its stream are the next ones.
InOrder(e, d) ==
  e.run => \A i \in DOMAIN d : d[i].stream = e.stream =>
    LET ahead == e.head + FramesOf(e.stream, d, i - 1)
    IN IF d[i].p.kind = "frame" THEN d[i].p.frame = ahead ELSE d[i].p.frame <= ahead

\* All of it, for one guest.
Fits(g, f, issued, q, t, c, o, l, e, n, d, u, k) ==
  /\ Replays(f, e, n) /\ Checks(e) /\ Past(f, t, c, o, e, d)
  /\ Once(g, q, k, e.work) /\ Fresh(g, issued, q, t, c, e, k)
  /\ Streams(g, issued, q, c, o, l, e) /\ Blames(u, l, e, n)
  /\ Closing(g, q, t, o, l) /\ Served(g, f, q, o, l, e, d) /\ InOrder(e, d)

\* The host freezes once for a pause, and has no frame left to run when it
\* reads where the pause is, nor when it settled.
Has(q, type) == \E i \in DOMAIN q : q[i].type = type
Stopping(status, q, h) ==
  /\ \A i, j \in DOMAIN h.work : h.work[i].kind = "frame" /\ h.work[j].kind = "frame" => i = j
  /\ h.pausedSent => ~Awaits(h.work, "frame")
  /\ status = "playing" => ~Has(q, "freeze") /\ ~Awaits(h.work, "hold") /\ ~Has(q, "pauseAt")
  /\ Has(q, "freeze") \/ Awaits(h.work, "hold") => ~Has(q, "pauseAt")
  /\ Has(q, "freeze") => ~Awaits(h.work, "hold")
  /\ \A i, j \in DOMAIN q : q[i].type = "freeze" /\ q[j].type = "freeze" => i = j
  /\ \A i, j \in DOMAIN q : q[i].type = "pauseAt" /\ q[j].type = "pauseAt" => i = j
  /\ \A i, j \in DOMAIN h.work : h.work[i].kind = "hold" /\ h.work[j].kind = "hold" => i = j
  /\ \A i, j \in DOMAIN h.work : h.work[i].kind = "hold" /\ h.work[j].kind = "frame" => j < i
  /\ Awaits(h.work, "hold") \/ Has(q, "pauseAt") => h.frozen
  /\ Has(q, "pauseAt") => ~Awaits(h.work, "frame")

\* A transfer belongs to one guest, and its boundary is asked for once.
Asks(job, id) == job.kind = "boundary" /\ job.id = id
Owned(q, w, issued, out) ==
  /\ \A g, h \in Guest :
       out[g] # None /\ out[h] # None /\ out[g].id = out[h].id => g = h
  /\ \A i, j \in DOMAIN q :
       q[i].type = "capture" /\ q[j].type = "capture" /\ q[i].id = q[j].id => i = j
  /\ \A i \in DOMAIN q : q[i].type = "capture" =>
       /\ q[i].id <= issued
       /\ \A g \in Guest : out[g] # None => out[g].id # q[i].id
       /\ \A j \in DOMAIN w : ~Asks(w[j], q[i].id)
  /\ \A g \in Guest : out[g] # None => out[g].id <= issued
  /\ \A i \in DOMAIN w : w[i].kind = "boundary" =>
       /\ w[i].id <= issued
       /\ \A j \in DOMAIN w : Asks(w[j], w[i].id) => i = j
       /\ \A g \in Guest : out[g] # None /\ out[g].id = w[i].id =>
            out[g].boundary = None /\ out[g].pending

\* Transfers are asked for within the bound.
Bounded(r) == r \in Room /\ r.issued <= MaxTransfer

FitsNow(g) ==
  Fits(g, host.frame, room.issued, room.toHost, room.transfer[g], room.toGuest[g], outgoing[g],
       link[g], guest[g], native[g], down[g], up[g], chunks[g])

Inv ==
  /\ TypeOK
  /\ \A g \in Guest : FitsNow(g)
  /\ ~host.over => Stopping(room.status, room.toHost, host)
  /\ Owned(room.toHost, host.work, room.issued, outgoing)
  /\ Bounded(room)

\* What a queue gains at its end, and what of that concerns a guest.
Extends(q, r) ==
  /\ \A i \in DOMAIN q : i \in DOMAIN r /\ r[i] = q[i]
  /\ \A i \in DOMAIN r, j \in DOMAIN q : i \notin DOMAIN q => j < i
Harmless(ev, g) == ~Of(ev, "capture", g) /\ ~Of(ev, "send", g) /\ ~Of(ev, "catchup", g)

\* Two states of a scheduler that do the same with the run.
Alike(e, e2) ==
  /\ e2.run = e.run /\ e2.frame = e.frame /\ e2.head = e.head /\ e2.stream = e.stream
  /\ e2.incoming = e.incoming /\ e2.catchingUp = e.catchingUp /\ e2.target = e.target

\* Of what the host is told, only the m-th event concerns the transfer of a guest,
\* and asks for its capture.
Asking(q, q2, g, m, id) ==
  \A i \in DOMAIN q2 : i \notin DOMAIN q =>
    Harmless(q2[i], g) \/ (i = m /\ Of(q2[i], "capture", g) /\ q2[i].id = id)

-----------------------------------------------------------------------------
(* What the types say of the pieces                                        *)

\* The fields of a transfer.
LEMMA TransferType ==
  \A t \in Maybe(Transfers) : t # None =>
    /\ t \in Transfers /\ t.id \in Nat /\ t.sending \in BOOLEAN
    /\ t.frame # None => t.frame \in Nat
    /\ t.boundary # None => t.boundary \in Nat
  BY DEF Maybe, Transfers

\* The fields of what the host sends.
LEMMA OutgoingType ==
  \A o \in Maybe(Outgoing) : o # None =>
    /\ o \in Outgoing /\ o.id \in Nat /\ o.frame \in Nat
    /\ o.pending \in BOOLEAN /\ o.marked \in BOOLEAN
    /\ o.cursor # None => o.cursor \in Nat
    /\ o.boundary # None => o.boundary \in Nat
  BY DEF Maybe, Outgoing

\* The events of a queue.
LEMMA EventType ==
  \A q \in Seq(Event) : \A i \in DOMAIN q :
    /\ i \in Nat /\ q[i] \in Event /\ q[i].id \in Nat /\ q[i].frame \in Nat
  <1> SUFFICES ASSUME NEW q \in Seq(Event), NEW i \in DOMAIN q
               PROVE  i \in Nat /\ q[i] \in Event /\ q[i].id \in Nat /\ q[i].frame \in Nat
    OBVIOUS
  <1>1. i \in Nat /\ q[i] \in Event OBVIOUS
  <1> QED BY <1>1 DEF Event

\* The fields of a guest's scheduler.
LEMMA ReplicaType ==
  \A e \in Replica :
    /\ e.frame \in Nat /\ e.head \in Nat /\ e.stream \in Nat
    /\ e.run \in BOOLEAN /\ e.catchingUp \in BOOLEAN
    /\ e.work \in Seq(Job) /\ e.incoming \in Maybe(Chunk)
    /\ e.incoming # None => e.incoming.id \in Nat /\ e.incoming.frame \in Nat
    /\ e.target # None => e.target \in Nat
    /\ \A i \in DOMAIN e.work : i \in Nat /\ e.work[i] \in Job /\ e.work[i].id \in Nat
  <1> SUFFICES ASSUME NEW e \in Replica
               PROVE  /\ e.frame \in Nat /\ e.head \in Nat /\ e.stream \in Nat
                      /\ e.run \in BOOLEAN /\ e.catchingUp \in BOOLEAN
                      /\ e.work \in Seq(Job) /\ e.incoming \in Maybe(Chunk)
                      /\ e.incoming # None => e.incoming.id \in Nat /\ e.incoming.frame \in Nat
                      /\ e.target # None => e.target \in Nat
                      /\ \A i \in DOMAIN e.work :
                           i \in Nat /\ e.work[i] \in Job /\ e.work[i].id \in Nat
    OBVIOUS
  <1>1. /\ e.frame \in Nat /\ e.head \in Nat /\ e.stream \in Nat
        /\ e.run \in BOOLEAN /\ e.catchingUp \in BOOLEAN
        /\ e.work \in Seq(Job) /\ e.incoming \in Maybe(Chunk) /\ e.target \in Maybe(Nat)
    BY DEF Replica
  <1>3. e.target # None => e.target \in Nat BY <1>1 DEF Maybe
  <1>4. \A i \in DOMAIN e.work : i \in Nat /\ e.work[i] \in Job BY <1>1
  <1>5. \A j \in Job : j.id \in Nat BY DEF Job
  <1> QED BY <1>1, <1>3, <1>4, <1>5 DEF Maybe, Chunk

\* The packets on their way to a guest.
LEMMA PacketType ==
  \A d \in Packets(HostPacket) :
    /\ Len(d) \in Nat /\ DOMAIN d = 1..Len(d)
    /\ \A i \in DOMAIN d : i \in Nat /\ d[i].stream \in Nat /\ d[i].p.frame \in Nat
  <1> DEFINE Whole == [stream : Nat, p : HostPacket]
  <1>1. \A x \in Whole : x.stream \in Nat /\ x.p \in HostPacket OBVIOUS
  <1>2. \A p \in HostPacket : p.frame \in Nat BY DEF HostPacket, HashPacket
  <1> HIDE DEF Whole
  <1>4. Packets(HostPacket) = Seq(Whole) BY DEF Packets, Whole
  <1> QED BY <1>1, <1>2, <1>4

\* The fields of the host's side of a channel.
LEMMA LinkType ==
  \A l \in Link : l.stream \in Nat /\ l.cursor \in Nat /\ l.live \in BOOLEAN
  BY DEF Link

\* The packets on their way from a guest.
LEMMA HashType ==
  \A u \in Packets(HashPacket) :
    /\ Len(u) \in Nat /\ DOMAIN u = 1..Len(u)
    /\ \A i \in DOMAIN u : i \in Nat /\ u[i].stream \in Nat
  <1> DEFINE Whole == [stream : Nat, p : HashPacket]
  <1>1. \A x \in Whole : x.stream \in Nat OBVIOUS
  <1> HIDE DEF Whole
  <1>3. Packets(HashPacket) = Seq(Whole) BY DEF Packets, Whole
  <1> QED BY <1>1, <1>3

\* The end of a transfer stays on its way when the host is sent more, and when
\* it reads what does not end it.
LEMMA ClosingExtends ==
  ASSUME NEW g \in Guest, NEW q, NEW t, NEW o, NEW l, NEW q2,
         Closing(g, q, t, o, l), Extends(q, q2),
         \A i \in DOMAIN q2 : i \notin DOMAIN q => ~Of(q2[i], "capture", g)
  PROVE  Closing(g, q2, t, o, l)
  <1>1. \A i \in DOMAIN q : i \in DOMAIN q2 /\ q2[i] = q[i] BY DEF Extends
  <1>2. \A i \in DOMAIN q2 : i \notin DOMAIN q => ~Of(q2[i], "capture", g) OBVIOUS
  <1>4. \A i, j : Before(q, g, i, j) => Before(q2, g, i, j) BY <1>1, <1>2 DEF Before
  <1>5. ASSUME NEW i \in DOMAIN q2, Of(q2[i], "capture", g), t = None \/ t.id # q2[i].id
        PROVE  \E j \in DOMAIN q2 : i < j /\ Stops(q2[j], g, q2[i].id) /\ Before(q2, g, i, j)
    <2>1. i \in DOMAIN q /\ q[i] = q2[i] BY <1>1, <1>2, <1>5
    <2>2. PICK j \in DOMAIN q : i < j /\ Stops(q[j], g, q[i].id) /\ Before(q, g, i, j)
      BY <1>5, <2>1 DEF Closing
    <2> QED BY <1>1, <1>4, <2>1, <2>2
  <1>6. ASSUME o # None, t = None \/ t.id # o.id
        PROVE  \E j \in DOMAIN q2 : Ends(q2[j], g, o) /\ Before(q2, g, 0, j)
    <2>1. PICK j \in DOMAIN q : Ends(q[j], g, o) /\ Before(q, g, 0, j) BY <1>6 DEF Closing
    <2> QED BY <1>1, <1>4, <2>1
  <1>7. /\ t # None /\ t.boundary # None => t.id <= l.stream
        /\ t # None /\ o # None /\ t.id = o.id /\ t.boundary # None => o.boundary = t.boundary
    BY DEF Closing
  <1> QED BY <1>1, <1>2, <1>5, <1>6, <1>7 DEF Closing

\* An event that does not end the host's transfer may be read.
LEMMA ClosingTail ==
  ASSUME NEW g \in Guest, NEW q \in Seq(Event), q # <<>>, NEW t, NEW o, NEW l,
         Closing(g, q, t, o, l), o = None \/ ~Ends(Head(q), g, o)
  PROVE  Closing(g, Tail(q), t, o, l)
  <1> DEFINE q2 == Tail(q)
  <1>1. /\ \A i \in DOMAIN q2 : i \in Nat /\ i + 1 \in DOMAIN q /\ q2[i] = q[i + 1]
        /\ \A i \in DOMAIN q : /\ i \in Nat
                               /\ i = 1 \/ (i - 1 \in DOMAIN q2 /\ q2[i - 1] = q[i])
        /\ Head(q) = q[1]
    BY TailAt, EventType
  <1> HIDE DEF q2
  <1>3. \A i \in Nat, j \in DOMAIN q : Before(q, g, i + 1, j) => Before(q2, g, i, j - 1)
    <2> SUFFICES ASSUME NEW i \in Nat, NEW j \in DOMAIN q, Before(q, g, i + 1, j),
                        NEW m \in DOMAIN q2, Of(q2[m], "capture", g), i < m
                 PROVE  j - 1 < m
      BY DEF Before
    <2>1. m + 1 \in DOMAIN q /\ q[m + 1] = q2[m] /\ m \in Nat /\ j \in Nat BY <1>1
    <2>2. j < m + 1 BY <2>1 DEF Before
    <2> QED BY <2>1, <2>2
  <1>4. ASSUME NEW i \in DOMAIN q2, Of(q2[i], "capture", g), t = None \/ t.id # q2[i].id
        PROVE  \E j \in DOMAIN q2 : i < j /\ Stops(q2[j], g, q2[i].id) /\ Before(q2, g, i, j)
    <2>1. PICK j \in DOMAIN q :
            i + 1 < j /\ Stops(q[j], g, q[i + 1].id) /\ Before(q, g, i + 1, j)
      BY <1>1, <1>4 DEF Closing
    <2>2. j \in Nat /\ j # 1 /\ i \in Nat /\ i < j - 1 BY <1>1, <2>1
    <2>3. j - 1 \in DOMAIN q2 /\ q2[j - 1] = q[j] BY <1>1, <2>2
    <2> QED BY <1>1, <1>3, <2>1, <2>2, <2>3
  <1>5. ASSUME o # None, t = None \/ t.id # o.id
        PROVE  \E j \in DOMAIN q2 : Ends(q2[j], g, o) /\ Before(q2, g, 0, j)
    <2>1. PICK j \in DOMAIN q : Ends(q[j], g, o) /\ Before(q, g, 0, j) BY <1>5 DEF Closing
    <2>2. j \in Nat /\ j # 1 BY <1>1, <1>5, <2>1
    <2>3. j - 1 \in DOMAIN q2 /\ q2[j - 1] = q[j] BY <1>1, <2>2
    <2>4. \A m \in DOMAIN q : m \in Nat /\ (0 + 1 < m => 0 < m) BY <1>1
    <2>5. Before(q, g, 0 + 1, j) BY <2>1, <2>4 DEF Before
    <2>6. Before(q2, g, 0, j - 1) BY <1>3, <2>5
    <2> QED BY <2>1, <2>3, <2>6
  <1>6. /\ t # None /\ t.boundary # None => t.id <= l.stream
        /\ t # None /\ o # None /\ t.id = o.id /\ t.boundary # None => o.boundary = t.boundary
    BY DEF Closing
  <1>7. Closing(g, q2, t, o, l) BY <1>1, <1>4, <1>5, <1>6 DEF Closing
  <1> QED BY <1>7 DEF q2

\* Reading an event leaves no more on its way.
LEMMA OnceTail ==
  ASSUME NEW g \in Guest, NEW q \in Seq(Event), q # <<>>, NEW k, NEW w, Once(g, q, k, w)
  PROVE  Once(g, Tail(q), k, w)
  <1> DEFINE q2 == Tail(q)
  <1>1. \A i \in DOMAIN q2 : i \in Nat /\ i + 1 \in DOMAIN q /\ q2[i] = q[i + 1]
    BY TailAt, EventType
  <1> HIDE DEF q2
  <1>2. \A i, j \in DOMAIN q2 :
          Of(q2[i], "send", g) /\ Of(q2[j], "send", g) /\ q2[i].id = q2[j].id => i = j
    <2> SUFFICES ASSUME NEW i \in DOMAIN q2, NEW j \in DOMAIN q2,
                        Of(q2[i], "send", g), Of(q2[j], "send", g), q2[i].id = q2[j].id
                 PROVE  i = j
      OBVIOUS
    <2>1. i + 1 = j + 1 BY <1>1 DEF Once
    <2> QED BY <1>1, <2>1
  <1>3. Once(g, q2, k, w) BY <1>1, <1>2 DEF Once
  <1> QED BY <1>3 DEF q2

-----------------------------------------------------------------------------
(* The packets on their way to a guest                                     *)

IsPacket(pk) == pk \in [stream : Nat, p : HostPacket]

\* One more packet on its way.
LEMMA PacketAppend ==
  ASSUME NEW d \in Packets(HostPacket), NEW pk, IsPacket(pk), NEW s
  PROVE  /\ Append(d, pk) \in Packets(HostPacket)
         /\ DOMAIN Append(d, pk) = DOMAIN d \cup {Len(d) + 1}
         /\ Len(d) \in Nat /\ DOMAIN d = 1..Len(d) /\ Len(Append(d, pk)) = Len(d) + 1
         /\ \A i \in DOMAIN d : Append(d, pk)[i] = d[i] /\ i \in Nat
         /\ Append(d, pk)[Len(d) + 1] = pk
         /\ \A m \in 0..Len(d) :
              /\ FramesOf(s, Append(d, pk), m) = FramesOf(s, d, m)
              /\ FramesOf(s, d, m) \in Nat
         /\ FramesOf(s, Append(d, pk), Len(d) + 1)
              = FramesOf(s, d, Len(d)) + (IF pk.stream = s /\ pk.p.kind = "frame" THEN 1 ELSE 0)
  <1> DEFINE Whole == [stream : Nat, p : HostPacket]
             d2 == Append(d, pk)
  <1>1. d \in Seq(Whole) /\ pk \in Whole BY DEF Packets, IsPacket
  <1>2. Packets(HostPacket) = Seq(Whole) BY DEF Packets
  <1> HIDE DEF Whole
  <1>3. /\ d2 \in Seq(Whole) /\ Len(d) \in Nat /\ DOMAIN d = 1..Len(d) /\ Len(d2) = Len(d) + 1
        /\ \A i \in DOMAIN d : i \in Nat
        /\ DOMAIN d2 = DOMAIN d \cup {Len(d) + 1}
        /\ \A i \in DOMAIN d : d2[i] = d[i]
        /\ d2[Len(d) + 1] = pk
    BY <1>1, AppendAt
  <1> HIDE DEF d2
  <1>4. \A m \in 0..Len(d) : FramesOf(s, d2, m) = FramesOf(s, d, m) /\ FramesOf(s, d, m) \in Nat
    <2> SUFFICES ASSUME NEW m \in 0..Len(d)
                 PROVE  FramesOf(s, d2, m) = FramesOf(s, d, m) /\ FramesOf(s, d, m) \in Nat
      OBVIOUS
    <2>1. m \in Nat /\ \A i \in 1..m : d2[i] = d[i] BY <1>3
    <2> QED BY <2>1, FramesSame, FramesFinite
  <1>6. Len(d) \in 0..Len(d) BY <1>3
  <1>7. FramesOf(s, d2, Len(d)) = FramesOf(s, d, Len(d)) BY <1>4, <1>6
  <1>8. IsFrame(d2, s, Len(d) + 1) <=> pk.stream = s /\ pk.p.kind = "frame" BY <1>3 DEF IsFrame
  <1>9. FramesOf(s, d2, Len(d) + 1)
          = FramesOf(s, d, Len(d)) + (IF pk.stream = s /\ pk.p.kind = "frame" THEN 1 ELSE 0)
    BY <1>3, FramesStep, <1>7, <1>8
  <1> QED BY <1>2, <1>3, <1>4, <1>9 DEF d2

\* One packet read.
LEMMA PacketTail ==
  ASSUME NEW d \in Packets(HostPacket), d # <<>>, NEW s
  PROVE  /\ Tail(d) \in Packets(HostPacket)
         /\ IsPacket(Head(d)) /\ Head(d) = d[1] /\ 1 \in DOMAIN d
         /\ Len(d) \in Nat /\ DOMAIN d = 1..Len(d) /\ Len(Tail(d)) = Len(d) - 1
         /\ \A i \in DOMAIN Tail(d) :
              i \in Nat /\ i - 1 \in 0..Len(Tail(d)) /\ i + 1 \in DOMAIN d /\ Tail(d)[i] = d[i + 1]
         /\ \A m \in 0..Len(Tail(d)) :
              /\ FramesOf(s, d, m + 1) = FramesOf(s, Tail(d), m) + (IF IsFrame(d, s, 1) THEN 1 ELSE 0)
              /\ FramesOf(s, Tail(d), m) \in Nat
  <1> DEFINE Whole == [stream : Nat, p : HostPacket]
  <1>1. d \in Seq(Whole) BY DEF Packets
  <1>2. Packets(HostPacket) = Seq(Whole) BY DEF Packets
  <1>3. \A pk : IsPacket(pk) <=> pk \in Whole BY DEF IsPacket
  <1> HIDE DEF Whole
  <1>4. /\ Tail(d) \in Seq(Whole) /\ Head(d) \in Whole /\ Head(d) = d[1] /\ 1 \in DOMAIN d
        /\ Len(d) \in Nat /\ DOMAIN d = 1..Len(d) /\ Len(Tail(d)) = Len(d) - 1
        /\ \A i \in DOMAIN Tail(d) : i + 1 \in DOMAIN d /\ Tail(d)[i] = d[i + 1]
    BY <1>1, TailAt
  <1>5. DOMAIN Tail(d) = 1..Len(Tail(d)) /\ Len(Tail(d)) \in Nat BY <1>4
  <1>7. \A m \in 0..Len(Tail(d)) :
          /\ FramesOf(s, d, m + 1) = FramesOf(s, Tail(d), m) + (IF IsFrame(d, s, 1) THEN 1 ELSE 0)
          /\ FramesOf(s, Tail(d), m) \in Nat
    <2> SUFFICES ASSUME NEW m \in 0..Len(Tail(d))
                 PROVE  /\ FramesOf(s, d, m + 1)
                             = FramesOf(s, Tail(d), m) + (IF IsFrame(d, s, 1) THEN 1 ELSE 0)
                        /\ FramesOf(s, Tail(d), m) \in Nat
      OBVIOUS
    <2>1. m \in 0..(Len(d) - 1) /\ m \in Nat BY <1>4, <1>5
    <2> QED BY <1>1, <2>1, FramesTail, FramesFinite
  <1> QED BY <1>2, <1>3, <1>4, <1>5, <1>7

\* What is sent next comes after the rest.
LEMMA OrderAppend ==
  ASSUME NEW e \in Replica, NEW d \in Packets(HostPacket), NEW pk, IsPacket(pk), InOrder(e, d),
         e.run /\ pk.stream = e.stream =>
           IF pk.p.kind = "frame" THEN pk.p.frame = End(e, d) ELSE pk.p.frame <= End(e, d)
  PROVE  /\ InOrder(e, Append(d, pk))
         /\ End(e, Append(d, pk))
              = End(e, d) + (IF pk.stream = e.stream /\ pk.p.kind = "frame" THEN 1 ELSE 0)
  <1> DEFINE d2 == Append(d, pk)
             F(m) == FramesOf(e.stream, d, m)
             F2(m) == FramesOf(e.stream, d2, m)
  <1>1. /\ DOMAIN d2 = DOMAIN d \cup {Len(d) + 1}
        /\ Len(d) \in Nat /\ DOMAIN d = 1..Len(d) /\ Len(d2) = Len(d) + 1
        /\ \A i \in DOMAIN d : d2[i] = d[i] /\ i \in Nat
        /\ d2[Len(d) + 1] = pk
        /\ \A m \in 0..Len(d) : F2(m) = F(m) /\ F(m) \in Nat
        /\ F2(Len(d) + 1) = F(Len(d)) + (IF pk.stream = e.stream /\ pk.p.kind = "frame" THEN 1 ELSE 0)
    BY PacketAppend
  <1>2. End(e, d) = e.head + F(Len(d)) /\ End(e, d2) = e.head + F2(Len(d2)) BY DEF End
  <1>3. e.head \in Nat BY ReplicaType
  <1> HIDE DEF d2
  <1>4. ASSUME e.run, NEW i \in DOMAIN d2, d2[i].stream = e.stream
        PROVE  IF d2[i].p.kind = "frame" THEN d2[i].p.frame = e.head + F2(i - 1)
               ELSE d2[i].p.frame <= e.head + F2(i - 1)
    BY <1>1, <1>4, <1>2 DEF InOrder
  <1>5. InOrder(e, d2) BY <1>4 DEF InOrder
  <1>6. F(Len(d)) \in Nat BY <1>1
  <1> QED BY <1>1, <1>2, <1>3, <1>5, <1>6 DEF d2

\* A frame that is read moves the guest's end of the stream.
LEMMA OrderTail ==
  ASSUME NEW e \in Replica, NEW e2 \in Replica, NEW d \in Packets(HostPacket), d # <<>>,
         InOrder(e, d), e2.run = e.run, e2.stream = e.stream,
         e.run => e2.head = e.head + (IF IsFrame(d, e.stream, 1) THEN 1 ELSE 0)
  PROVE  /\ InOrder(e2, Tail(d))
         /\ e.run => End(e2, Tail(d)) = End(e, d)
  <1> DEFINE d2 == Tail(d)
             F(m) == FramesOf(e.stream, d, m)
             F2(m) == FramesOf(e.stream, d2, m)
  <1>1. /\ Len(d) \in Nat /\ DOMAIN d = 1..Len(d) /\ Len(d2) = Len(d) - 1 /\ 1 \in DOMAIN d
        /\ \A i \in DOMAIN d2 :
             i \in Nat /\ i - 1 \in 0..Len(d2) /\ i + 1 \in DOMAIN d /\ d2[i] = d[i + 1]
        /\ \A m \in 0..Len(d2) :
             F(m + 1) = F2(m) + (IF IsFrame(d, e.stream, 1) THEN 1 ELSE 0) /\ F2(m) \in Nat
    BY PacketTail
  <1>3. e.head \in Nat BY ReplicaType
  <1> HIDE DEF d2
  <1>4. ASSUME e.run, NEW i \in DOMAIN d2, d2[i].stream = e.stream
        PROVE  IF d2[i].p.kind = "frame" THEN d2[i].p.frame = e2.head + F2(i - 1)
               ELSE d2[i].p.frame <= e2.head + F2(i - 1)
    <2>1. i \in Nat /\ i - 1 \in 0..Len(d2) /\ i + 1 \in DOMAIN d /\ d2[i] = d[i + 1] BY <1>1
    <2>2. (i - 1) + 1 = i /\ (i + 1) - 1 = i BY <2>1
    <2>3. F(i) = F2(i - 1) + (IF IsFrame(d, e.stream, 1) THEN 1 ELSE 0) /\ F2(i - 1) \in Nat
      BY <1>1, <2>1, <2>2
    <2>4. e.head + F(i) = e2.head + F2(i - 1) BY <1>3, <1>4, <2>3
    <2> QED BY <2>1, <2>4, <1>4, <2>2 DEF InOrder
  <1>5. InOrder(e2, d2) BY <1>4 DEF InOrder
  <1>6. ASSUME e.run PROVE End(e2, d2) = End(e, d) BY <1>1, <1>3, <1>6 DEF End
  <1> QED BY <1>5, <1>6 DEF d2

-----------------------------------------------------------------------------
(* What one guest's part of the invariant allows to change                 *)

\* The host went on.
LEMMA Later ==
  ASSUME NEW g \in Guest,
         NEW f \in Nat, NEW issued \in Nat, NEW q \in Seq(Event),
         NEW t \in Maybe(Transfers), NEW c \in Seq(Event), NEW o \in Maybe(Outgoing),
         NEW l \in Link, NEW e \in Replica, NEW n \in Native, NEW d \in Packets(HostPacket),
         NEW u \in Packets(HashPacket), NEW k \in Seq(Chunk), NEW f2 \in Nat,
         Fits(g, f, issued, q, t, c, o, l, e, n, d, u, k),
         f <= f2
  PROVE  Fits(g, f2, issued, q, t, c, o, l, e, n, d, u, k)
  <1>0. /\ Replays(f, e, n)
        /\ Checks(e)
        /\ Past(f, t, c, o, e, d)
        /\ Once(g, q, k, e.work)
        /\ Fresh(g, issued, q, t, c, e, k)
        /\ Streams(g, issued, q, c, o, l, e)
        /\ Blames(u, l, e, n)
        /\ Closing(g, q, t, o, l)
        /\ Served(g, f, q, o, l, e, d)
        /\ InOrder(e, d)
    BY DEF Fits
  <1>1. Replays(f2, e, n) BY <1>0, ReplicaType DEF Replays, Takes
  <1>2. Past(f2, t, c, o, e, d)
    BY <1>0, TransferType, OutgoingType, EventType, ReplicaType, PacketType DEF Past
  <1>3. Served(g, f2, q, o, l, e, d) BY <1>0, OutgoingType, EventType DEF Served, End
  <1> QED BY <1>0, <1>1, <1>2, <1>3 DEF Fits

\* Other guests were given transfers.
LEMMA Numbered ==
  ASSUME NEW g \in Guest,
         NEW f \in Nat, NEW issued \in Nat, NEW q \in Seq(Event),
         NEW t \in Maybe(Transfers), NEW c \in Seq(Event), NEW o \in Maybe(Outgoing),
         NEW l \in Link, NEW e \in Replica, NEW n \in Native, NEW d \in Packets(HostPacket),
         NEW u \in Packets(HashPacket), NEW k \in Seq(Chunk), NEW issued2 \in Nat,
         Fits(g, f, issued, q, t, c, o, l, e, n, d, u, k),
         issued <= issued2
  PROVE  Fits(g, f, issued2, q, t, c, o, l, e, n, d, u, k)
BY TransferType, ReplicaType, EventType, LinkType DEF Fits, Fresh, Streams

\* The export of a transfer, or the question for its boundary.
LEMMA Prepared ==
  ASSUME NEW g \in Guest,
         NEW f \in Nat, NEW issued \in Nat, NEW q \in Seq(Event),
         NEW t \in Maybe(Transfers), NEW c \in Seq(Event), NEW o \in Maybe(Outgoing),
         NEW l \in Link, NEW e \in Replica, NEW n \in Native, NEW d \in Packets(HostPacket),
         NEW u \in Packets(HashPacket), NEW k \in Seq(Chunk), NEW o2 \in Maybe(Outgoing),
         Fits(g, f, issued, q, t, c, o, l, e, n, d, u, k),
         o2 = None <=> o = None,
         o # None => o2.id = o.id /\ o2.cursor = o.cursor /\ o2.boundary = o.boundary,
         o # None => o2.marked = o.marked /\ o2.frame <= f,
         o # None /\ o2.pending => o.cursor # None
  PROVE  Fits(g, f, issued, q, t, c, o2, l, e, n, d, u, k)
BY DEF Fits, Past, Streams, Closing, Ends, Stops, Served, End

\* The host is sent events that do not concern the stages of the guest's transfer.
LEMMA TellHarmless ==
  ASSUME NEW g \in Guest,
         NEW f \in Nat, NEW issued \in Nat, NEW q \in Seq(Event),
         NEW t \in Maybe(Transfers), NEW c \in Seq(Event), NEW o \in Maybe(Outgoing),
         NEW l \in Link, NEW e \in Replica, NEW n \in Native, NEW d \in Packets(HostPacket),
         NEW u \in Packets(HashPacket), NEW k \in Seq(Chunk), NEW q2 \in Seq(Event),
         Fits(g, f, issued, q, t, c, o, l, e, n, d, u, k),
         Extends(q, q2),
         \A i \in DOMAIN q2 : i \notin DOMAIN q => Harmless(q2[i], g)
  PROVE  Fits(g, f, issued, q2, t, c, o, l, e, n, d, u, k)
  <1>0. /\ Replays(f, e, n)
        /\ Checks(e)
        /\ Past(f, t, c, o, e, d)
        /\ Once(g, q, k, e.work)
        /\ Fresh(g, issued, q, t, c, e, k)
        /\ Streams(g, issued, q, c, o, l, e)
        /\ Blames(u, l, e, n)
        /\ Closing(g, q, t, o, l)
        /\ Served(g, f, q, o, l, e, d)
        /\ InOrder(e, d)
    BY DEF Fits
  <1>1. \A i \in DOMAIN q : i \in DOMAIN q2 /\ q2[i] = q[i] BY DEF Extends
  <1>2. \A i \in DOMAIN q2 : i \notin DOMAIN q => Harmless(q2[i], g) OBVIOUS
  <1>4. Once(g, q2, k, e.work) BY <1>0, <1>1, <1>2 DEF Once, Harmless
  <1>5. Fresh(g, issued, q2, t, c, e, k) BY <1>0, <1>1, <1>2 DEF Fresh, Late, Harmless
  <1>6. Streams(g, issued, q2, c, o, l, e) BY <1>0, <1>1, <1>2 DEF Streams, Harmless
  <1>7. Closing(g, q2, t, o, l) BY <1>0, <1>2, ClosingExtends DEF Harmless
  <1>8. Served(g, f, q2, o, l, e, d) BY <1>0, <1>1, <1>2 DEF Served, End, Harmless
  <1> QED BY <1>0, <1>4, <1>5, <1>6, <1>7, <1>8 DEF Fits

\* The guest is sent an event that starts no transfer.
LEMMA TellGuest ==
  ASSUME NEW g \in Guest,
         NEW f \in Nat, NEW issued \in Nat, NEW q \in Seq(Event),
         NEW t \in Maybe(Transfers), NEW c \in Seq(Event), NEW o \in Maybe(Outgoing),
         NEW l \in Link, NEW e \in Replica, NEW n \in Native, NEW d \in Packets(HostPacket),
         NEW u \in Packets(HashPacket), NEW k \in Seq(Chunk), NEW ev \in Event,
         Fits(g, f, issued, q, t, c, o, l, e, n, d, u, k),
         ev.type # "checkpoint"
  PROVE  Fits(g, f, issued, q, t, Append(c, ev), o, l, e, n, d, u, k)
BY AppendAt DEF Fits, Past, Fresh, Streams

\* The transfer of the guest ends, and the host is sent an event that ends it.
LEMMA Close ==
  ASSUME NEW g \in Guest,
         NEW f \in Nat, NEW issued \in Nat, NEW q \in Seq(Event),
         NEW t \in Maybe(Transfers), NEW c \in Seq(Event), NEW o \in Maybe(Outgoing),
         NEW l \in Link, NEW e \in Replica, NEW n \in Native, NEW d \in Packets(HostPacket),
         NEW u \in Packets(HashPacket), NEW k \in Seq(Chunk), NEW ev \in Event,
         Fits(g, f, issued, q, t, c, o, l, e, n, d, u, k),
         Harmless(ev, g),
         t # None =>
           Stops(ev, g, t.id)
             \/ (t.boundary # None /\ Of(ev, "live", g) /\ ev.id = t.id /\ ev.frame = t.boundary)
  PROVE  Fits(g, f, issued, Append(q, ev), None, c, o, l, e, n, d, u, k)
  <1>0. /\ Replays(f, e, n)
        /\ Checks(e)
        /\ Past(f, t, c, o, e, d)
        /\ Once(g, q, k, e.work)
        /\ Fresh(g, issued, q, t, c, e, k)
        /\ Streams(g, issued, q, c, o, l, e)
        /\ Blames(u, l, e, n)
        /\ Closing(g, q, t, o, l)
        /\ Served(g, f, q, o, l, e, d)
        /\ InOrder(e, d)
    BY DEF Fits
  <1> DEFINE q2 == Append(q, ev)
  <1>1. /\ DOMAIN q2 = DOMAIN q \cup {Len(q) + 1} /\ Len(q) \in Nat
        /\ \A i \in DOMAIN q : q2[i] = q[i] /\ i \in Nat /\ i <= Len(q) /\ q[i].id \in Nat
        /\ q2[Len(q) + 1] = ev
    BY AppendAt, EventType
  <1> HIDE DEF q2
  <1>3. Past(f, None, c, o, e, d) BY <1>0 DEF Past
  <1>4. Once(g, q2, k, e.work) BY <1>0, <1>1 DEF Once, Harmless
  <1>5. Fresh(g, issued, q2, None, c, e, k) BY <1>0, <1>1 DEF Fresh, Late, Harmless
  <1>6. Streams(g, issued, q2, c, o, l, e) BY <1>0, <1>1 DEF Streams, Harmless
  <1>7. Closing(g, q2, None, o, l)
    <2>1. \A i, j : Before(q, g, i, j) => Before(q2, g, i, j) BY <1>1 DEF Before, Harmless
    <2>2. \A i \in DOMAIN q : Of(q[i], "capture", g) =>
            /\ l.stream < q[i].id
            /\ \A j \in DOMAIN q : Of(q[j], "capture", g) /\ i < j => q[i].id < q[j].id
            /\ t # None => q[i].id <= t.id
      BY <1>0 DEF Streams, Closing
    <2>3. ASSUME NEW i \in DOMAIN q2, Of(q2[i], "capture", g)
          PROVE  \E j \in DOMAIN q2 : i < j /\ Stops(q2[j], g, q2[i].id) /\ Before(q2, g, i, j)
      <3>1. i \in DOMAIN q /\ q[i] = q2[i] BY <1>1, <2>3 DEF Harmless
      <3>2. CASE t # None /\ t.id = q[i].id
        <4>1. t.boundary = None BY <1>0, <1>1, <2>2, <2>3, <3>1, <3>2, LinkType DEF Closing
        <4>2. Stops(q2[Len(q) + 1], g, q2[i].id) BY <1>1, <3>1, <3>2, <4>1
        <4>4. Before(q2, g, i, Len(q) + 1) BY <1>1, <2>2, <2>3, <3>1, <3>2 DEF Before, Harmless
        <4> QED BY <1>1, <3>1, <4>2, <4>4
      <3>3. CASE t = None \/ t.id # q[i].id
        <4>1. PICK j \in DOMAIN q : i < j /\ Stops(q[j], g, q[i].id) /\ Before(q, g, i, j)
          BY <1>0, <2>3, <3>1, <3>3 DEF Closing
        <4> QED BY <1>1, <2>1, <3>1, <4>1
      <3> QED BY <3>2, <3>3
    <2>4. ASSUME o # None
          PROVE  \E j \in DOMAIN q2 : Ends(q2[j], g, o) /\ Before(q2, g, 0, j)
      <3>1. CASE t # None /\ t.id = o.id
        BY <1>0, <1>1, <2>4, <3>1, <2>2, LinkType DEF Ends, Closing, Streams, Before, Harmless
      <3>2. CASE ~(t # None /\ t.id = o.id)
        <4>1. PICK j \in DOMAIN q : Ends(q[j], g, o) /\ Before(q, g, 0, j)
          BY <1>0, <2>4, <3>2 DEF Closing
        <4> QED BY <1>1, <2>1, <4>1
      <3> QED BY <3>1, <3>2
    <2> QED BY <2>3, <2>4 DEF Closing
  <1>8. Served(g, f, q2, o, l, e, d) BY <1>0, <1>1 DEF Served, End, Harmless
  <1> QED BY <1>0, <1>3, <1>4, <1>5, <1>6, <1>7, <1>8 DEF Fits, q2

\* The host gives up what it sends the guest.
LEMMA DropOutgoing ==
  ASSUME NEW g \in Guest,
         NEW f \in Nat, NEW issued \in Nat, NEW q \in Seq(Event),
         NEW t \in Maybe(Transfers), NEW c \in Seq(Event), NEW o \in Maybe(Outgoing),
         NEW l \in Link, NEW e \in Replica, NEW n \in Native, NEW d \in Packets(HostPacket),
         NEW u \in Packets(HashPacket), NEW k \in Seq(Chunk),
         Fits(g, f, issued, q, t, c, o, l, e, n, d, u, k)
  PROVE  Fits(g, f, issued, q, t, c, None, l, e, n, d, u, k)
BY DEF Fits, Past, Streams, Closing, Ends, Stops, Served, End

\* The host stops serving the guest, forgets a claim of it, or takes note of what it
\* received.
LEMMA Unserved ==
  ASSUME NEW g \in Guest,
         NEW f \in Nat, NEW issued \in Nat, NEW q \in Seq(Event),
         NEW t \in Maybe(Transfers), NEW c \in Seq(Event), NEW o \in Maybe(Outgoing),
         NEW l \in Link, NEW e \in Replica, NEW n \in Native, NEW d \in Packets(HostPacket),
         NEW u \in Packets(HashPacket), NEW k \in Seq(Chunk), NEW l2 \in Link,
         Fits(g, f, issued, q, t, c, o, l, e, n, d, u, k),
         l2.stream = l.stream,
         l2.cursor = l.cursor,
         l2.live => l.live,
         l2.theirs \subseteq l.theirs
  PROVE  Fits(g, f, issued, q, t, c, o, l2, e, n, d, u, k)
BY DEF Fits, Streams, Blames, Closing, Ends, Stops, Served, End

\* The host reads an event that does not end what it sends the guest.
LEMMA Read ==
  ASSUME NEW g \in Guest,
         NEW f \in Nat, NEW issued \in Nat, NEW q \in Seq(Event),
         NEW t \in Maybe(Transfers), NEW c \in Seq(Event), NEW o \in Maybe(Outgoing),
         NEW l \in Link, NEW e \in Replica, NEW n \in Native, NEW d \in Packets(HostPacket),
         NEW u \in Packets(HashPacket), NEW k \in Seq(Chunk),
         Fits(g, f, issued, q, t, c, o, l, e, n, d, u, k),
         q # <<>>,
         o = None \/ ~Ends(Head(q), g, o)
  PROVE  Fits(g, f, issued, Tail(q), t, c, o, l, e, n, d, u, k)
  <1>0. /\ Replays(f, e, n)
        /\ Checks(e)
        /\ Past(f, t, c, o, e, d)
        /\ Once(g, q, k, e.work)
        /\ Fresh(g, issued, q, t, c, e, k)
        /\ Streams(g, issued, q, c, o, l, e)
        /\ Blames(u, l, e, n)
        /\ Closing(g, q, t, o, l)
        /\ Served(g, f, q, o, l, e, d)
        /\ InOrder(e, d)
    BY DEF Fits
  <1> DEFINE q2 == Tail(q)
  <1>1. /\ \A i \in DOMAIN q2 : i \in Nat /\ i + 1 \in DOMAIN q /\ q2[i] = q[i + 1]
        /\ \A i \in DOMAIN q : /\ i \in Nat
                               /\ i = 1 \/ (i - 1 \in DOMAIN q2 /\ q2[i - 1] = q[i])
        /\ Head(q) = q[1]
    BY TailAt, EventType
  <1> HIDE DEF q2
  <1>3. Once(g, q2, k, e.work) BY <1>0, OnceTail DEF q2
  <1>4. Fresh(g, issued, q2, t, c, e, k) BY <1>0, <1>1 DEF Fresh, Late
  <1>5. Streams(g, issued, q2, c, o, l, e) BY <1>0, <1>1 DEF Streams
  <1>6. Closing(g, q2, t, o, l) BY <1>0, ClosingTail DEF q2
  <1>7. Served(g, f, q2, o, l, e, d) BY <1>0, <1>1 DEF Served, End
  <1> QED BY <1>0, <1>3, <1>4, <1>5, <1>6, <1>7 DEF Fits, q2

-----------------------------------------------------------------------------
(* The stages of a transfer                                                *)

\* A transfer is opened for the guest and the host is asked for a capture.
LEMMA Granted ==
  ASSUME NEW g \in Guest,
         NEW f \in Nat, NEW issued \in Nat, NEW q \in Seq(Event),
         NEW t \in Maybe(Transfers), NEW c \in Seq(Event), NEW o \in Maybe(Outgoing),
         NEW l \in Link, NEW e \in Replica, NEW n \in Native, NEW d \in Packets(HostPacket),
         NEW u \in Packets(HashPacket), NEW k \in Seq(Chunk), NEW issued2 \in Nat,
         NEW id \in Nat, NEW t2 \in Maybe(Transfers), NEW q2 \in Seq(Event), NEW m,
         Fits(g, f, issued, q, t, c, o, l, e, n, d, u, k),
         t = None,
         issued < id /\ id <= issued2,
         t2 # None /\ t2.id = id /\ t2.frame = None /\ ~t2.sending /\ t2.boundary = None,
         Extends(q, q2),
         Asking(q, q2, g, m, id)
  PROVE  Fits(g, f, issued2, q2, t2, c, o, l, e, n, d, u, k)
  <1>0. /\ Replays(f, e, n)
        /\ Checks(e)
        /\ Past(f, t, c, o, e, d)
        /\ Once(g, q, k, e.work)
        /\ Fresh(g, issued, q, t, c, e, k)
        /\ Streams(g, issued, q, c, o, l, e)
        /\ Blames(u, l, e, n)
        /\ Closing(g, q, t, o, l)
        /\ Served(g, f, q, o, l, e, d)
        /\ InOrder(e, d)
    BY DEF Fits
  <1>1. /\ \A i \in DOMAIN q : i \in DOMAIN q2 /\ q2[i] = q[i] /\ q[i].id \in Nat /\ i \in Nat
        /\ \A i \in DOMAIN q2, j \in DOMAIN q : i \notin DOMAIN q => j < i
        /\ \A i \in DOMAIN q2 : i \in Nat /\ q2[i].id \in Nat
    BY EventType DEF Extends
  <1>2. \A i \in DOMAIN q2 : i \notin DOMAIN q =>
          /\ ~Of(q2[i], "send", g) /\ ~Of(q2[i], "catchup", g)
          /\ Of(q2[i], "capture", g) => i = m /\ q2[i].id = id
    BY DEF Asking, Harmless, Of
  <1>3. \A x : Late(g, x, q2, k, e.work) <=> Late(g, x, q, k, e.work) BY <1>1, <1>2 DEF Late
  <1>4. ~Late(g, id, q, k, e.work) BY <1>0 DEF Fresh
  <1>5. e.stream < id BY <1>0, ReplicaType, LinkType DEF Streams
  <1>6. Past(f, t2, c, o, e, d) BY <1>0, TransferType DEF Past
  <1>7. Once(g, q2, k, e.work) BY <1>0, <1>1, <1>2 DEF Once
  <1>8. Fresh(g, issued2, q2, t2, c, e, k)
    BY <1>0, <1>3, <1>4, <1>5, TransferType, ReplicaType, EventType DEF Fresh
  <1>9. Streams(g, issued2, q2, c, o, l, e)
    <2>1. ASSUME NEW i \in DOMAIN q2, Of(q2[i], "capture", g)
          PROVE  /\ l.stream < q2[i].id /\ q2[i].id <= issued2
                 /\ \A j \in DOMAIN q2 : Of(q2[j], "capture", g) /\ i < j => q2[i].id < q2[j].id
      <3>1. CASE i \in DOMAIN q
        <4>1. l.stream < q[i].id /\ q[i].id <= issued BY <1>0, <1>1, <2>1, <3>1 DEF Streams
        <4> QED BY <1>1, <1>2, <3>1, <4>1, <1>0, <2>1 DEF Streams
      <3>2. CASE i \notin DOMAIN q
        <4>1. i = m /\ q2[i].id = id BY <1>2, <2>1, <3>2
        <4>2. l.stream < id BY <1>0, LinkType DEF Streams
        <4>3. \A j \in DOMAIN q2 : Of(q2[j], "capture", g) /\ i < j => FALSE
          BY <1>1, <1>2, <3>2, <4>1
        <4> QED BY <4>1, <4>2, <4>3
      <3> QED BY <3>1, <3>2
    <2> QED BY <2>1, <1>0, LinkType DEF Streams
  <1>10. Closing(g, q2, t2, o, l)
    <2>2. \A i, j : j \in DOMAIN q /\ Before(q, g, i, j) => Before(q2, g, i, j) BY <1>1 DEF Before
    <2>3. ASSUME NEW i \in DOMAIN q2, Of(q2[i], "capture", g), t2.id # q2[i].id
          PROVE  \E j \in DOMAIN q2 : i < j /\ Stops(q2[j], g, q2[i].id) /\ Before(q2, g, i, j)
      <3>1. i \in DOMAIN q /\ q[i] = q2[i] BY <1>1, <1>2, <2>3
      <3>2. PICK j \in DOMAIN q : i < j /\ Stops(q[j], g, q[i].id) /\ Before(q, g, i, j)
        BY <1>0, <2>3, <3>1 DEF Closing
      <3> QED BY <1>1, <2>2, <3>1, <3>2
    <2>4. ASSUME o # None
          PROVE  \E j \in DOMAIN q2 : Ends(q2[j], g, o) /\ Before(q2, g, 0, j)
      <3>1. PICK j \in DOMAIN q : Ends(q[j], g, o) /\ Before(q, g, 0, j) BY <1>0, <2>4 DEF Closing
      <3> QED BY <1>1, <2>2, <3>1
    <2>5. o # None => t2.id # o.id BY <1>0, LinkType, OutgoingType DEF Streams
    <2> QED BY <1>0, <1>1, <1>2, <2>3, <2>4, <2>5 DEF Closing, Streams
  <1>11. Served(g, f, q2, o, l, e, d) BY <1>0, <1>1, <1>2 DEF Served, End
  <1> QED BY <1>0, <1>6, <1>7, <1>8, <1>9, <1>10, <1>11 DEF Fits

\* The checkpoint of the guest's transfer is described to it.
LEMMA Staged ==
  ASSUME NEW g \in Guest,
         NEW f \in Nat, NEW issued \in Nat, NEW q \in Seq(Event),
         NEW t \in Maybe(Transfers), NEW c \in Seq(Event), NEW o \in Maybe(Outgoing),
         NEW l \in Link, NEW e \in Replica, NEW n \in Native, NEW d \in Packets(HostPacket),
         NEW u \in Packets(HashPacket), NEW k \in Seq(Chunk), NEW t2 \in Maybe(Transfers),
         NEW ev \in Event,
         Fits(g, f, issued, q, t, c, o, l, e, n, d, u, k),
         t # None /\ t.frame = None,
         o # None /\ o.id = t.id,
         t2 # None /\ t2.id = t.id /\ t2.frame # None /\ t2.frame <= f,
         t2.sending = t.sending /\ t2.boundary = t.boundary,
         ev.type = "checkpoint" /\ ev.id = t.id /\ ev.frame <= f
  PROVE  Fits(g, f, issued, q, t2, Append(c, ev), o, l, e, n, d, u, k)
  <1>0. /\ Replays(f, e, n)
        /\ Checks(e)
        /\ Past(f, t, c, o, e, d)
        /\ Once(g, q, k, e.work)
        /\ Fresh(g, issued, q, t, c, e, k)
        /\ Streams(g, issued, q, c, o, l, e)
        /\ Blames(u, l, e, n)
        /\ Closing(g, q, t, o, l)
        /\ Served(g, f, q, o, l, e, d)
        /\ InOrder(e, d)
    BY DEF Fits
  <1> DEFINE c2 == Append(c, ev)
  <1>1. /\ DOMAIN c2 = DOMAIN c \cup {Len(c) + 1} /\ Len(c) \in Nat
        /\ \A i \in DOMAIN c : c2[i] = c[i] /\ i \in Nat /\ i <= Len(c)
        /\ c2[Len(c) + 1] = ev
    BY AppendAt
  <1> HIDE DEF c2
  <1>2. Past(f, t2, c2, o, e, d) BY <1>0, <1>1 DEF Past
  <1>3. Fresh(g, issued, q, t2, c2, e, k) BY <1>0, <1>1, TransferType DEF Fresh
  <1>4. Streams(g, issued, q, c2, o, l, e) BY <1>0, <1>1, OutgoingType DEF Streams
  <1>5. Closing(g, q, t2, o, l) BY <1>0 DEF Closing, Ends, Stops
  <1> QED BY <1>0, <1>2, <1>3, <1>4, <1>5 DEF Fits, c2

\* A guest that holds may be sent the checkpoint of its transfer.
LEMMA Holding ==
  ASSUME NEW g \in Guest,
         NEW f \in Nat, NEW issued \in Nat, NEW q \in Seq(Event),
         NEW t \in Maybe(Transfers), NEW c \in Seq(Event), NEW o \in Maybe(Outgoing),
         NEW l \in Link, NEW e \in Replica, NEW n \in Native, NEW d \in Packets(HostPacket),
         NEW u \in Packets(HashPacket), NEW k \in Seq(Chunk), NEW id \in Nat,
         NEW t2 \in Maybe(Transfers), NEW ev \in Event,
         Fits(g, f, issued, q, t, c, o, l, e, n, d, u, k),
         t # None /\ t.id = id /\ ~t.sending,
         ~e.run /\ Takes(e, id),
         t2 # None /\ t2.id = t.id /\ t2.frame = t.frame,
         t2.sending /\ t2.boundary = t.boundary,
         Of(ev, "send", g) /\ ev.id = id
  PROVE  Fits(g, f, issued, Append(q, ev), t2, c, o, l, e, n, d, u, k)
  <1>0. /\ Replays(f, e, n)
        /\ Checks(e)
        /\ Past(f, t, c, o, e, d)
        /\ Once(g, q, k, e.work)
        /\ Fresh(g, issued, q, t, c, e, k)
        /\ Streams(g, issued, q, c, o, l, e)
        /\ Blames(u, l, e, n)
        /\ Closing(g, q, t, o, l)
        /\ Served(g, f, q, o, l, e, d)
        /\ InOrder(e, d)
    BY DEF Fits
  <1> DEFINE q2 == Append(q, ev)
  <1>1. /\ DOMAIN q2 = DOMAIN q \cup {Len(q) + 1} /\ Len(q) \in Nat
        /\ \A i \in DOMAIN q : q2[i] = q[i] /\ i \in Nat /\ i <= Len(q) /\ q[i].id \in Nat
        /\ q2[Len(q) + 1] = ev
    BY AppendAt, EventType
  <1>2. Extends(q, q2) BY <1>1 DEF Extends
  <1> HIDE DEF q2
  <1>3. ~Of(ev, "capture", g) /\ ~Of(ev, "catchup", g) /\ Of(ev, "send", g) /\ ev.id = id BY DEF Of
  <1>5. ~Late(g, id, q, k, e.work) /\ e.stream < id BY <1>0 DEF Fresh
  <1>6. Past(f, t2, c, o, e, d) BY <1>0 DEF Past
  <1>7. Once(g, q2, k, e.work) BY <1>0, <1>1, <1>3, <1>5 DEF Once, Late
  <1>8. Fresh(g, issued, q2, t2, c, e, k)
    BY <1>0, <1>1, <1>3, <1>5, ReplicaType DEF Fresh, Takes, Late
  <1>9. Streams(g, issued, q2, c, o, l, e) BY <1>0, <1>1, <1>3 DEF Streams
  <1>10. Closing(g, q2, t2, o, l)
    <2>1. Closing(g, q2, t, o, l) BY <1>0, <1>1, <1>2, <1>3, ClosingExtends
    <2> QED BY <2>1 DEF Closing
  <1>11. Served(g, f, q2, o, l, e, d) BY <1>0, <1>1, <1>3 DEF Served, End
  <1> QED BY <1>0, <1>6, <1>7, <1>8, <1>9, <1>10, <1>11 DEF Fits, q2

\* The guest installed the checkpoint, and the host is told where it catches up from.
LEMMA Acked ==
  ASSUME NEW g \in Guest,
         NEW f \in Nat, NEW issued \in Nat, NEW q \in Seq(Event),
         NEW t \in Maybe(Transfers), NEW c \in Seq(Event), NEW o \in Maybe(Outgoing),
         NEW l \in Link, NEW e \in Replica, NEW n \in Native, NEW d \in Packets(HostPacket),
         NEW u \in Packets(HashPacket), NEW k \in Seq(Chunk), NEW id \in Nat,
         NEW t2 \in Maybe(Transfers), NEW ev \in Event,
         Fits(g, f, issued, q, t, c, o, l, e, n, d, u, k),
         t # None /\ t.id = id,
         t2 # None /\ t2.id = t.id /\ t2.frame = t.frame,
         t2.sending = t.sending /\ t2.boundary = t.boundary,
         Of(ev, "catchup", g) /\ ev.id = id /\ ev.frame <= f,
         e.stream = id /\ ~l.live,
         \A i \in DOMAIN d : d[i].stream # id,
         o # None /\ o.id = id => o.cursor = None,
         e.run => ev.frame = e.head,
         \A i \in DOMAIN q : Of(q[i], "catchup", g) => q[i].id # id
  PROVE  Fits(g, f, issued, Append(q, ev), t2, c, o, l, e, n, d, u, k)
  <1>0. /\ Replays(f, e, n)
        /\ Checks(e)
        /\ Past(f, t, c, o, e, d)
        /\ Once(g, q, k, e.work)
        /\ Fresh(g, issued, q, t, c, e, k)
        /\ Streams(g, issued, q, c, o, l, e)
        /\ Blames(u, l, e, n)
        /\ Closing(g, q, t, o, l)
        /\ Served(g, f, q, o, l, e, d)
        /\ InOrder(e, d)
    BY DEF Fits
  <1> DEFINE q2 == Append(q, ev)
  <1>1. /\ DOMAIN q2 = DOMAIN q \cup {Len(q) + 1} /\ Len(q) \in Nat
        /\ \A i \in DOMAIN q : q2[i] = q[i] /\ i \in Nat /\ i <= Len(q) /\ q[i].id \in Nat
        /\ q2[Len(q) + 1] = ev
    BY AppendAt, EventType
  <1>2. Extends(q, q2) BY <1>1 DEF Extends
  <1> HIDE DEF q2
  <1>3. /\ ~Of(ev, "capture", g) /\ Of(ev, "catchup", g) /\ ~Of(ev, "send", g)
        /\ ev.id = id /\ ev.frame <= f /\ (e.run => ev.frame = e.head)
    BY DEF Of
  <1>5. Past(f, t2, c, o, e, d) BY <1>0 DEF Past
  <1>6. Once(g, q2, k, e.work) BY <1>0, <1>1, <1>3 DEF Once
  <1>7. Fresh(g, issued, q2, t2, c, e, k) BY <1>0, <1>1, <1>3 DEF Fresh, Late
  <1>8. Streams(g, issued, q2, c, o, l, e) BY <1>0, <1>1, <1>3 DEF Streams
  <1>9. Closing(g, q2, t2, o, l) BY <1>0, <1>1, <1>2, <1>3, ClosingExtends DEF Closing
  <1>10. Served(g, f, q2, o, l, e, d)
    <2>1. \A i \in DOMAIN q2 : Of(q2[i], "catchup", g) =>
            /\ q2[i].id <= e.stream /\ q2[i].frame <= f
            /\ o # None /\ o.id = q2[i].id => o.cursor = None
            /\ q2[i].id = e.stream => ~l.live /\ \A j \in DOMAIN d : d[j].stream # e.stream
            /\ q2[i].id = e.stream /\ e.run => q2[i].frame = e.head
      <3> SUFFICES ASSUME NEW i \in DOMAIN q2, Of(q2[i], "catchup", g)
                   PROVE  /\ q2[i].id <= e.stream /\ q2[i].frame <= f
                          /\ o # None /\ o.id = q2[i].id => o.cursor = None
                          /\ q2[i].id = e.stream => ~l.live /\ \A j \in DOMAIN d : d[j].stream # e.stream
                          /\ q2[i].id = e.stream /\ e.run => q2[i].frame = e.head
        OBVIOUS
      <3>1. CASE i = Len(q) + 1 BY <1>1, <1>3, <3>1
      <3>2. CASE i \in DOMAIN q BY <1>1, <3>2, <1>0 DEF Served
      <3> QED BY <1>1, <3>1, <3>2
    <2> QED BY <1>0, <2>1, <1>1, <1>3 DEF Served
  <1> QED BY <1>0, <1>5, <1>6, <1>7, <1>8, <1>9, <1>10 DEF Fits, q2

\* The boundary of a transfer is known.
LEMMA Known ==
  ASSUME NEW g \in Guest,
         NEW f \in Nat, NEW issued \in Nat, NEW q \in Seq(Event),
         NEW t \in Maybe(Transfers), NEW c \in Seq(Event), NEW o \in Maybe(Outgoing),
         NEW l \in Link, NEW e \in Replica, NEW n \in Native, NEW d \in Packets(HostPacket),
         NEW u \in Packets(HashPacket), NEW k \in Seq(Chunk), NEW t2 \in Maybe(Transfers),
         NEW o2 \in Maybe(Outgoing),
         Fits(g, f, issued, q, t, c, o, l, e, n, d, u, k),
         o # None /\ o.cursor # None /\ o.boundary = None,
         o2 # None /\ o2.id = o.id /\ o2.cursor = o.cursor,
         o2.frame = o.frame /\ o2.boundary = f /\ o2.marked = o.marked,
         t2 = None <=> t = None,
         t # None => t2.id = t.id /\ t2.frame = t.frame,
         t # None => t2.sending = t.sending,
         t # None /\ t.id = o.id => t2.boundary = f,
         t # None /\ t.id # o.id => t2.boundary = t.boundary
  PROVE  Fits(g, f, issued, q, t2, c, o2, l, e, n, d, u, k)
  <1>0. /\ Replays(f, e, n)
        /\ Checks(e)
        /\ Past(f, t, c, o, e, d)
        /\ Once(g, q, k, e.work)
        /\ Fresh(g, issued, q, t, c, e, k)
        /\ Streams(g, issued, q, c, o, l, e)
        /\ Blames(u, l, e, n)
        /\ Closing(g, q, t, o, l)
        /\ Served(g, f, q, o, l, e, d)
        /\ InOrder(e, d)
    BY DEF Fits
  <1>1. f # None /\ \A i \in DOMAIN q : q[i].frame # None BY EventType, NoneAssumption
  <1>2. Past(f, t2, c, o2, e, d) BY <1>0 DEF Past
  <1>3. Fresh(g, issued, q, t2, c, e, k) BY <1>0 DEF Fresh
  <1>4. Streams(g, issued, q, c, o2, l, e) BY <1>0 DEF Streams
  <1>5. Closing(g, q, t2, o2, l) BY <1>1, <1>0, LinkType DEF Ends, Streams, Closing
  <1>6. Served(g, f, q, o2, l, e, d) BY <1>0, <1>1 DEF Served, End
  <1> QED BY <1>0, <1>2, <1>3, <1>4, <1>5, <1>6 DEF Fits

\* The host reads that it may send the checkpoint, and sends it.
LEMMA SendRead ==
  ASSUME NEW g \in Guest,
         NEW f \in Nat, NEW issued \in Nat, NEW q \in Seq(Event),
         NEW t \in Maybe(Transfers), NEW c \in Seq(Event), NEW o \in Maybe(Outgoing),
         NEW l \in Link, NEW e \in Replica, NEW n \in Native, NEW d \in Packets(HostPacket),
         NEW u \in Packets(HashPacket), NEW k \in Seq(Chunk), NEW ch \in Chunk,
         Fits(g, f, issued, q, t, c, o, l, e, n, d, u, k),
         q # <<>>,
         Of(Head(q), "send", g),
         ch.id = Head(q).id
  PROVE  Fits(g, f, issued, Tail(q), t, c, o, l, e, n, d, u, Append(k, ch))
  <1>0. /\ Replays(f, e, n)
        /\ Checks(e)
        /\ Past(f, t, c, o, e, d)
        /\ Once(g, q, k, e.work)
        /\ Fresh(g, issued, q, t, c, e, k)
        /\ Streams(g, issued, q, c, o, l, e)
        /\ Blames(u, l, e, n)
        /\ Closing(g, q, t, o, l)
        /\ Served(g, f, q, o, l, e, d)
        /\ InOrder(e, d)
    BY DEF Fits
  <1> DEFINE q2 == Tail(q)
  <1>1. /\ \A i \in DOMAIN q2 : i \in Nat /\ 0 < i /\ i + 1 \in DOMAIN q /\ q2[i] = q[i + 1]
        /\ \A i \in DOMAIN q : /\ i \in Nat /\ q[i].id \in Nat
                               /\ i = 1 \/ (i - 1 \in DOMAIN q2 /\ q2[i - 1] = q[i])
        /\ Head(q) = q[1] /\ 1 \in DOMAIN q
    BY TailAt, EventType
  <1> HIDE DEF q2
  <1>2. ~Of(q[1], "capture", g) /\ ~Of(q[1], "catchup", g) /\ ~Ends(q[1], g, o) /\ Of(q[1], "send", g)
    BY <1>1 DEF Of, Ends, Stops
  <1> DEFINE k2 == Append(k, ch)
  <1>3. /\ DOMAIN k2 = DOMAIN k \cup {Len(k) + 1} /\ Len(k) \in Nat
        /\ \A i \in DOMAIN k : k2[i] = k[i] /\ i \in Nat /\ i <= Len(k)
        /\ k2[Len(k) + 1] = ch
    BY AppendAt
  <1> HIDE DEF k2
  <1>5. Once(g, q2, k2, e.work)
    <2>1. \A i \in DOMAIN q2 : Of(q2[i], "send", g) => q2[i].id # ch.id
      <3> SUFFICES ASSUME NEW i \in DOMAIN q2, Of(q2[i], "send", g), q2[i].id = ch.id PROVE FALSE OBVIOUS
      <3>1. i + 1 \in DOMAIN q /\ q[i + 1] = q2[i] /\ i + 1 # 1 BY <1>1
      <3>2. q[i + 1].id = q[1].id /\ Of(q[i + 1], "send", g) /\ Of(q[1], "send", g) BY <1>1, <1>2, <3>1
      <3> QED BY <1>0, <1>1, <3>1, <3>2 DEF Once
    <2>2. \A i \in DOMAIN k : k[i].id # ch.id BY <1>0, <1>1, <1>2 DEF Once
    <2>3. \A i \in DOMAIN e.work : e.work[i].kind = "import" => e.work[i].id # ch.id
      BY <1>0, <1>1, <1>2 DEF Once
    <2>4. Once(g, q2, k, e.work) BY <1>0, OnceTail DEF q2
    <2> QED BY <1>3, <2>1, <2>2, <2>3, <2>4 DEF Once
  <1>6. Fresh(g, issued, q2, t, c, e, k2) BY <1>0, <1>1, <1>2, <1>3 DEF Fresh, Late
  <1>7. Streams(g, issued, q2, c, o, l, e) BY <1>0, <1>1, <1>2 DEF Streams
  <1>8. Closing(g, q2, t, o, l) BY <1>0, <1>1, <1>2, ClosingTail DEF q2
  <1>9. Served(g, f, q2, o, l, e, d) BY <1>0, <1>1, <1>2 DEF Served, End
  <1> QED BY <1>0, <1>5, <1>6, <1>7, <1>8, <1>9 DEF Fits, q2, k2

\* The host reads where the guest catches up from.
LEMMA CatchupRead ==
  ASSUME NEW g \in Guest,
         NEW f \in Nat, NEW issued \in Nat, NEW q \in Seq(Event),
         NEW t \in Maybe(Transfers), NEW c \in Seq(Event), NEW o \in Maybe(Outgoing),
         NEW l \in Link, NEW e \in Replica, NEW n \in Native, NEW d \in Packets(HostPacket),
         NEW u \in Packets(HashPacket), NEW k \in Seq(Chunk), NEW o2 \in Maybe(Outgoing),
         Fits(g, f, issued, q, t, c, o, l, e, n, d, u, k),
         q # <<>>,
         Of(Head(q), "catchup", g),
         o # None /\ o.id = Head(q).id,
         o2 # None /\ o2.id = o.id /\ o2.cursor = Head(q).frame,
         o2.frame = o.frame /\ o2.boundary = o.boundary,
         o2.pending = o.pending /\ o2.marked = o.marked
  PROVE  Fits(g, f, issued, Tail(q), t, c, o2, l, e, n, d, u, k)
  <1>0. /\ Replays(f, e, n)
        /\ Checks(e)
        /\ Past(f, t, c, o, e, d)
        /\ Once(g, q, k, e.work)
        /\ Fresh(g, issued, q, t, c, e, k)
        /\ Streams(g, issued, q, c, o, l, e)
        /\ Blames(u, l, e, n)
        /\ Closing(g, q, t, o, l)
        /\ Served(g, f, q, o, l, e, d)
        /\ InOrder(e, d)
    BY DEF Fits
  <1> DEFINE q2 == Tail(q)
  <1>1. /\ \A i \in DOMAIN q2 : i \in Nat /\ 0 < i /\ i + 1 \in DOMAIN q /\ q2[i] = q[i + 1]
        /\ \A i \in DOMAIN q : /\ i \in Nat /\ q[i].id \in Nat
                               /\ i = 1 \/ (i - 1 \in DOMAIN q2 /\ q2[i - 1] = q[i])
        /\ Head(q) = q[1] /\ 1 \in DOMAIN q
    BY TailAt, EventType
  <1> HIDE DEF q2
  <1>2. ~Of(q[1], "capture", g) /\ ~Of(q[1], "send", g) /\ Of(q[1], "catchup", g) /\ ~Ends(q[1], g, o2)
    BY <1>0, <1>1, EventType, NoneAssumption DEF Served, Of, Ends, Stops
  <1>4. /\ q[1].id <= e.stream /\ q[1].frame <= f /\ o.cursor = None
        /\ e.stream <= l.stream /\ o.id = l.stream
    BY <1>0, <1>1, <1>2 DEF Served, Streams
  <1>5. e.stream = o.id /\ q[1].id = e.stream BY <1>1, <1>4, LinkType, ReplicaType, OutgoingType
  <1>6. /\ ~l.live /\ \A j \in DOMAIN d : d[j].stream # e.stream
        /\ e.run => q[1].frame = e.head
    BY <1>0, <1>1, <1>2, <1>5 DEF Served
  <1>7. FramesOf(e.stream, d, Len(d)) = 0 BY <1>6, PacketType, FramesNone
  <1>8. e.run => o2.cursor = End(e, d) BY <1>1, <1>6, <1>7, ReplicaType DEF End
  <1>9. o.boundary = None /\ ~o.pending /\ ~o.marked BY <1>0, <1>4 DEF Served
  <1>10. o2.cursor = q[1].frame /\ o2.id = e.stream BY <1>1, <1>5
  <1>11. \A i \in DOMAIN q2 : Of(q2[i], "catchup", g) => q2[i].id # o.id
    <2> SUFFICES ASSUME NEW i \in DOMAIN q2, Of(q2[i], "catchup", g), q2[i].id = o.id PROVE FALSE OBVIOUS
    <2>1. i + 1 \in DOMAIN q /\ q[i + 1] = q2[i] /\ i + 1 # 1 BY <1>1
    <2> QED BY <1>0, <1>1, <1>2, <2>1 DEF Served
  <1>12. Past(f, t, c, o2, e, d) BY <1>0 DEF Past
  <1>13. Once(g, q2, k, e.work) BY <1>0, OnceTail DEF q2
  <1>14. Fresh(g, issued, q2, t, c, e, k) BY <1>0, <1>1, <1>2 DEF Fresh, Late
  <1>15. Streams(g, issued, q2, c, o2, l, e) BY <1>0, <1>1, <1>2 DEF Streams
  <1>16. Closing(g, q2, t, o2, l)
    <2>1. Closing(g, q, t, o2, l) BY <1>0 DEF Ends, Closing
    <2> QED BY <1>1, <1>2, <2>1, ClosingTail DEF q2
  <1>17. Served(g, f, q2, o2, l, e, d)
    BY <1>0, <1>1, <1>2, <1>4, <1>6, <1>8, <1>9, <1>10, <1>11 DEF Served, End
  <1> QED BY <1>0, <1>12, <1>13, <1>14, <1>15, <1>16, <1>17 DEF Fits, q2

\* The host reads that it is asked for a capture: the stream before is over.
LEMMA Opens ==
  ASSUME NEW g \in Guest,
         NEW f \in Nat, NEW issued \in Nat, NEW q \in Seq(Event),
         NEW t \in Maybe(Transfers), NEW c \in Seq(Event), NEW o \in Maybe(Outgoing),
         NEW l \in Link, NEW e \in Replica, NEW n \in Native, NEW d \in Packets(HostPacket),
         NEW u \in Packets(HashPacket), NEW k \in Seq(Chunk), NEW o2 \in Maybe(Outgoing),
         NEW l2 \in Link,
         Fits(g, f, issued, q, t, c, o, l, e, n, d, u, k),
         q # <<>>,
         Of(Head(q), "capture", g),
         l2.stream = Head(q).id /\ ~l2.live /\ l2.theirs = {},
         o2 # None /\ o2.id = Head(q).id /\ o2.frame <= f,
         o2.cursor = None /\ o2.boundary = None,
         ~o2.pending /\ ~o2.marked
  PROVE  /\ Fits(g, f, issued, Tail(q), t, c, o2, l2, e, n, d, u, k)
         /\ o = None
  <1>0. /\ Replays(f, e, n)
        /\ Checks(e)
        /\ Past(f, t, c, o, e, d)
        /\ Once(g, q, k, e.work)
        /\ Fresh(g, issued, q, t, c, e, k)
        /\ Streams(g, issued, q, c, o, l, e)
        /\ Blames(u, l, e, n)
        /\ Closing(g, q, t, o, l)
        /\ Served(g, f, q, o, l, e, d)
        /\ InOrder(e, d)
    BY DEF Fits
  <1> DEFINE q2 == Tail(q)
  <1>1. /\ \A i \in DOMAIN q2 : i \in Nat /\ 0 < i /\ i + 1 \in DOMAIN q /\ q2[i] = q[i + 1]
        /\ \A i \in DOMAIN q : /\ i \in Nat /\ q[i].id \in Nat
                               /\ i = 1 \/ (i - 1 \in DOMAIN q2 /\ q2[i - 1] = q[i])
        /\ Head(q) = q[1] /\ 1 \in DOMAIN q
    BY TailAt, EventType
  <1> HIDE DEF q2
  <1>2. /\ ~Of(q[1], "send", g) /\ ~Of(q[1], "catchup", g) /\ Of(q[1], "capture", g) BY <1>1 DEF Of
  <1>4. /\ l.stream < q[1].id /\ q[1].id <= issued
        /\ \A j \in DOMAIN q : Of(q[j], "capture", g) /\ 1 < j => q[1].id < q[j].id
    BY <1>0, <1>1, <1>2 DEF Streams
  <1>5. o = None
    <2> SUFFICES ASSUME o # None PROVE FALSE OBVIOUS
    <2>1. o.id = l.stream BY <1>0 DEF Streams
    <2>2. t = None \/ t.id # o.id BY <1>0, <1>1, <1>2, <1>4, <2>1, LinkType DEF Closing
    <2>3. PICK j \in DOMAIN q : Ends(q[j], g, o) /\ Before(q, g, 0, j) BY <1>0, <2>2 DEF Closing
    <2>4. j < 1 BY <1>1, <1>2, <2>3 DEF Before
    <2>5. 1 <= j BY TailAt
    <2> QED BY <1>1, <2>4, <2>5
  <1>6. Past(f, t, c, o2, e, d) BY <1>0 DEF Past
  <1>7. Once(g, q2, k, e.work) BY <1>0, OnceTail DEF q2
  <1>8. Fresh(g, issued, q2, t, c, e, k) BY <1>0, <1>1, <1>2 DEF Fresh, Late
  <1>9. Streams(g, issued, q2, c, o2, l2, e)
    <2>1. \A i \in DOMAIN q2 : Of(q2[i], "capture", g) =>
            /\ l2.stream < q2[i].id /\ q2[i].id <= issued
            /\ \A j \in DOMAIN q2 : Of(q2[j], "capture", g) /\ i < j => q2[i].id < q2[j].id
      <3> SUFFICES ASSUME NEW i \in DOMAIN q2, Of(q2[i], "capture", g)
                   PROVE  /\ l2.stream < q2[i].id /\ q2[i].id <= issued
                          /\ \A j \in DOMAIN q2 : Of(q2[j], "capture", g) /\ i < j => q2[i].id < q2[j].id
        OBVIOUS
      <3>1. i \in Nat /\ i + 1 \in DOMAIN q /\ q2[i] = q[i + 1] /\ 1 < i + 1 BY <1>1
      <3>2. q[i + 1].id <= issued BY <1>0, <3>1 DEF Streams
      <3>4. l2.stream < q2[i].id BY <1>1, <1>4, <3>1
      <3>5. \A j \in DOMAIN q2 : Of(q2[j], "capture", g) /\ i < j => q2[i].id < q2[j].id
        <4> SUFFICES ASSUME NEW j \in DOMAIN q2, Of(q2[j], "capture", g), i < j PROVE q2[i].id < q2[j].id
          OBVIOUS
        <4>1. j + 1 \in DOMAIN q /\ q[j + 1] = q2[j] /\ j \in Nat BY <1>1
        <4>2. i + 1 < j + 1 BY <3>1, <4>1
        <4> QED BY <3>1, <1>0, <4>1, <4>2 DEF Streams
      <3> QED BY <3>1, <3>2, <3>4, <3>5
    <2> QED BY <1>0, <1>1, <1>4, <2>1, LinkType, ReplicaType, EventType DEF Streams
  <1>10. Blames(u, l2, e, n) BY <1>0, <1>1 DEF Blames
  <1>11. Closing(g, q2, t, o2, l2)
    <2>1. Closing(g, q, t, o, l) BY <1>0
    <2>2. Closing(g, q2, t, o, l) BY <1>5, <2>1, ClosingTail DEF q2
    <2>3. ASSUME t = None \/ t.id # o2.id
          PROVE  \E j \in DOMAIN q2 : Ends(q2[j], g, o2) /\ Before(q2, g, 0, j)
      <3>1. PICK j \in DOMAIN q : 1 < j /\ Stops(q[j], g, q[1].id) /\ Before(q, g, 1, j)
        BY <1>1, <1>2, <2>1, <2>3 DEF Closing
      <3>2. j \in Nat /\ j - 1 \in DOMAIN q2 /\ q2[j - 1] = q[j] BY <1>1, <3>1
      <3>3. Ends(q2[j - 1], g, o2) BY <1>1, <3>1, <3>2 DEF Ends
      <3>4. \A m \in DOMAIN q2 : m \in Nat /\ 0 < m /\ m + 1 \in DOMAIN q /\ q2[m] = q[m + 1] BY <1>1
      <3>5. \A m \in DOMAIN q2 : Of(q2[m], "capture", g) => j < m + 1 BY <3>1, <3>4 DEF Before
      <3>6. Before(q2, g, 0, j - 1) BY <3>2, <3>4, <3>5 DEF Before
      <3> QED BY <3>2, <3>3, <3>6
    <2>4. t # None /\ t.boundary # None => t.id <= l.stream /\ t.id # o2.id
      BY <1>0, <1>1, <1>4, TransferType, LinkType DEF Closing
    <2>5. t # None /\ t.boundary # None => t.id <= l2.stream
      BY <1>1, <1>4, <2>4, TransferType, LinkType
    <2> QED BY <1>0, <2>2, <2>3, <2>4, <2>5 DEF Closing
  <1>12. Served(g, f, q2, o2, l2, e, d) BY <1>0, <1>1, <1>2 DEF Served, End
  <1> QED BY <1>5, <1>0, <1>6, <1>7, <1>8, <1>9, <1>10, <1>11, <1>12 DEF Fits, q2

-----------------------------------------------------------------------------
(* What the guest does                                                     *)

\* The guest gives up what it receives, or the run, or goes on as it was.
LEMMA Rests ==
  ASSUME NEW g \in Guest,
         NEW f \in Nat, NEW issued \in Nat, NEW q \in Seq(Event),
         NEW t \in Maybe(Transfers), NEW c \in Seq(Event), NEW o \in Maybe(Outgoing),
         NEW l \in Link, NEW e \in Replica, NEW n \in Native, NEW d \in Packets(HostPacket),
         NEW u \in Packets(HashPacket), NEW k \in Seq(Chunk), NEW e2 \in Replica,
         Fits(g, f, issued, q, t, c, o, l, e, n, d, u, k),
         e2.run => e.run,
         e2.frame = e.frame /\ e2.head = e.head,
         e2.stream = e.stream /\ e2.work = e.work,
         e2.incoming = None \/ e2.incoming = e.incoming,
         e2.catchingUp => e.catchingUp /\ e2.incoming = e.incoming,
         e2.incoming # None /\ e.target # None => e2.target # None
  PROVE  Fits(g, f, issued, q, t, c, o, l, e2, n, d, u, k)
  <1>0. /\ Replays(f, e, n)
        /\ Checks(e)
        /\ Past(f, t, c, o, e, d)
        /\ Once(g, q, k, e.work)
        /\ Fresh(g, issued, q, t, c, e, k)
        /\ Streams(g, issued, q, c, o, l, e)
        /\ Blames(u, l, e, n)
        /\ Closing(g, q, t, o, l)
        /\ Served(g, f, q, o, l, e, d)
        /\ InOrder(e, d)
    BY DEF Fits
  <1>2. End(e2, d) = End(e, d) BY DEF End
  <1>3. Replays(f, e2, n) BY <1>0 DEF Replays, Takes
  <1>4. Checks(e2) BY <1>0 DEF Checks, Takes
  <1>5. Past(f, t, c, o, e2, d) BY <1>0 DEF Past
  <1>6. Once(g, q, k, e2.work) BY <1>0
  <1>7. Fresh(g, issued, q, t, c, e2, k) BY <1>0 DEF Fresh
  <1>8. Streams(g, issued, q, c, o, l, e2) BY <1>0 DEF Streams
  <1>9. Blames(u, l, e2, n) BY <1>0 DEF Blames
  <1>10. Served(g, f, q, o, l, e2, d) BY <1>0, <1>2 DEF Served
  <1>11. InOrder(e2, d) BY <1>0 DEF InOrder
  <1> QED BY <1>0, <1>3, <1>4, <1>5, <1>6, <1>7, <1>8, <1>9,
    <1>10, <1>11 DEF Fits

\* The worker of the guest answered.
LEMMA Popped ==
  ASSUME NEW g \in Guest,
         NEW f \in Nat, NEW issued \in Nat, NEW q \in Seq(Event),
         NEW t \in Maybe(Transfers), NEW c \in Seq(Event), NEW o \in Maybe(Outgoing),
         NEW l \in Link, NEW e \in Replica, NEW n \in Native, NEW d \in Packets(HostPacket),
         NEW u \in Packets(HashPacket), NEW k \in Seq(Chunk), NEW e2 \in Replica,
         Fits(g, f, issued, q, t, c, o, l, e, n, d, u, k),
         e.work # <<>>,
         e2.work = Tail(e.work),
         Alike(e, e2)
  PROVE  Fits(g, f, issued, q, t, c, o, l, e2, n, d, u, k)
  <1>0. /\ Replays(f, e, n)
        /\ Checks(e)
        /\ Past(f, t, c, o, e, d)
        /\ Once(g, q, k, e.work)
        /\ Fresh(g, issued, q, t, c, e, k)
        /\ Streams(g, issued, q, c, o, l, e)
        /\ Blames(u, l, e, n)
        /\ Closing(g, q, t, o, l)
        /\ Served(g, f, q, o, l, e, d)
        /\ InOrder(e, d)
    BY DEF Fits
  <1> DEFINE w2 == Tail(e.work)
  <1>1. /\ \A i \in DOMAIN w2 : i \in Nat /\ i + 1 \in DOMAIN e.work /\ w2[i] = e.work[i + 1]
        /\ \A i \in DOMAIN e.work : i \in Nat
    BY TailAt, ReplicaType
  <1>2. e2.work = w2 OBVIOUS
  <1> HIDE DEF w2
  <1>3. \A id : Late(g, id, q, k, e2.work) => Late(g, id, q, k, e.work) BY <1>1, <1>2 DEF Late
  <1>4. /\ e2.run = e.run /\ e2.frame = e.frame /\ e2.head = e.head /\ e2.stream = e.stream
        /\ e2.incoming = e.incoming /\ e2.catchingUp = e.catchingUp /\ e2.target = e.target
    BY DEF Alike
  <1>5. End(e2, d) = End(e, d) /\ \A id : Takes(e2, id) <=> Takes(e, id) BY <1>4 DEF End, Takes
  <1>6. \A i, j \in DOMAIN w2 : i + 1 = j + 1 => i = j BY <1>1
  <1>7. \A i, j \in DOMAIN w2 : j + 1 < i + 1 => j < i BY <1>1
  <1>8. Replays(f, e2, n)
    <2>1. \A i, j \in DOMAIN w2 : w2[i].kind = "frame" /\ w2[j].kind = "frame" => i = j
      BY <1>0, <1>1, <1>6 DEF Replays
    <2>2. \A i \in DOMAIN w2 :
            e.run /\ w2[i].kind = "frame" => w2[i].id = e.frame /\ e.frame < e.head
      BY <1>0, <1>1 DEF Replays
    <2>3. \A i, j \in DOMAIN w2 :
            w2[i].kind = "import" /\ Takes(e, w2[i].id) /\ w2[j].kind = "frame" => j < i
      BY <1>0, <1>1, <1>7 DEF Replays
    <2> QED BY <1>0, <1>2, <1>4, <1>5, <2>1, <2>2, <2>3 DEF Replays
  <1>9. Checks(e2) BY <1>0, <1>1, <1>2, <1>4, <1>5 DEF Checks
  <1>10. Past(f, t, c, o, e2, d) BY <1>0, <1>4 DEF Past
  <1>11. Once(g, q, k, e2.work)
    <2>1. \A i, j \in DOMAIN w2 :
            w2[i].kind = "import" /\ w2[j].kind = "import" /\ w2[i].id = w2[j].id => i = j
      BY <1>0, <1>1, <1>6 DEF Once
    <2>2. \A j \in DOMAIN w2 : w2[j].kind = "import" =>
            /\ \A i \in DOMAIN q : Of(q[i], "send", g) => q[i].id # w2[j].id
            /\ \A i \in DOMAIN k : k[i].id # w2[j].id
      BY <1>0, <1>1 DEF Once
    <2> QED BY <1>0, <1>2, <2>1, <2>2 DEF Once
  <1>12. Fresh(g, issued, q, t, c, e2, k) BY <1>0, <1>3, <1>4 DEF Fresh
  <1>13. Streams(g, issued, q, c, o, l, e2) BY <1>0, <1>4 DEF Streams
  <1>14. Blames(u, l, e2, n) BY <1>0, <1>4 DEF Blames
  <1>15. Served(g, f, q, o, l, e2, d) BY <1>0, <1>4, <1>5 DEF Served
  <1>16. InOrder(e2, d) BY <1>0, <1>4 DEF InOrder
  <1> QED BY <1>0, <1>8, <1>9, <1>10, <1>11, <1>12, <1>13, <1>14,
    <1>15, <1>16 DEF Fits

\* The worker of the guest is asked for something that is neither a frame nor an import.
LEMMA Works ==
  ASSUME NEW g \in Guest,
         NEW f \in Nat, NEW issued \in Nat, NEW q \in Seq(Event),
         NEW t \in Maybe(Transfers), NEW c \in Seq(Event), NEW o \in Maybe(Outgoing),
         NEW l \in Link, NEW e \in Replica, NEW n \in Native, NEW d \in Packets(HostPacket),
         NEW u \in Packets(HashPacket), NEW k \in Seq(Chunk), NEW e2 \in Replica,
         NEW job \in Job,
         Fits(g, f, issued, q, t, c, o, l, e, n, d, u, k),
         e2.work = Append(e.work, job),
         Alike(e, e2),
         job.kind \notin {"frame", "import"},
         job.kind = "check" => job.id <= e.stream,
         job.kind = "check" /\ e.run /\ Takes(e, job.id) => e.target # None
  PROVE  Fits(g, f, issued, q, t, c, o, l, e2, n, d, u, k)
  <1>0. /\ Replays(f, e, n)
        /\ Checks(e)
        /\ Past(f, t, c, o, e, d)
        /\ Once(g, q, k, e.work)
        /\ Fresh(g, issued, q, t, c, e, k)
        /\ Streams(g, issued, q, c, o, l, e)
        /\ Blames(u, l, e, n)
        /\ Closing(g, q, t, o, l)
        /\ Served(g, f, q, o, l, e, d)
        /\ InOrder(e, d)
    BY DEF Fits
  <1> DEFINE w2 == Append(e.work, job)
  <1>1. /\ DOMAIN w2 = DOMAIN e.work \cup {Len(e.work) + 1} /\ Len(e.work) \in Nat
        /\ \A i \in DOMAIN e.work : w2[i] = e.work[i] /\ i \in Nat /\ i <= Len(e.work)
        /\ w2[Len(e.work) + 1] = job
    BY AppendAt, ReplicaType
  <1>2. e2.work = w2 OBVIOUS
  <1> HIDE DEF w2
  <1>4. /\ e2.run = e.run /\ e2.frame = e.frame /\ e2.head = e.head /\ e2.stream = e.stream
        /\ e2.incoming = e.incoming /\ e2.catchingUp = e.catchingUp /\ e2.target = e.target
    BY DEF Alike
  <1>5. End(e2, d) = End(e, d) /\ \A id : Takes(e2, id) <=> Takes(e, id) BY <1>4 DEF End, Takes
  <1>6. Replays(f, e2, n) BY <1>0, <1>1, <1>2, <1>4, <1>5 DEF Replays
  <1>7. Checks(e2) BY <1>0, <1>1, <1>2, <1>4, <1>5 DEF Checks
  <1>8. Past(f, t, c, o, e2, d) BY <1>0, <1>4 DEF Past
  <1>9. Once(g, q, k, e2.work) BY <1>0, <1>1, <1>2 DEF Once
  <1>10. Fresh(g, issued, q, t, c, e2, k) BY <1>0, <1>1, <1>2, <1>4 DEF Fresh, Late
  <1>11. Streams(g, issued, q, c, o, l, e2) BY <1>0, <1>4 DEF Streams
  <1>12. Blames(u, l, e2, n) BY <1>0, <1>4 DEF Blames
  <1>13. Served(g, f, q, o, l, e2, d) BY <1>0, <1>4, <1>5 DEF Served
  <1>14. InOrder(e2, d) BY <1>0, <1>4 DEF InOrder
  <1> QED BY <1>0, <1>6, <1>7, <1>8, <1>9, <1>10, <1>11, <1>12,
    <1>13, <1>14 DEF Fits

\* The worker of the guest is asked for the next frame.
LEMMA Runs ==
  ASSUME NEW g \in Guest,
         NEW f \in Nat, NEW issued \in Nat, NEW q \in Seq(Event),
         NEW t \in Maybe(Transfers), NEW c \in Seq(Event), NEW o \in Maybe(Outgoing),
         NEW l \in Link, NEW e \in Replica, NEW n \in Native, NEW d \in Packets(HostPacket),
         NEW u \in Packets(HashPacket), NEW k \in Seq(Chunk), NEW e2 \in Replica,
         NEW job \in Job,
         Fits(g, f, issued, q, t, c, o, l, e, n, d, u, k),
         e2.work = Append(e.work, job),
         Alike(e, e2),
         job.kind = "frame" /\ job.id = e.frame,
         e.run /\ e.frame < e.head,
         ~Awaits(e.work, "frame")
  PROVE  Fits(g, f, issued, q, t, c, o, l, e2, n, d, u, k)
  <1>0. /\ Replays(f, e, n)
        /\ Checks(e)
        /\ Past(f, t, c, o, e, d)
        /\ Once(g, q, k, e.work)
        /\ Fresh(g, issued, q, t, c, e, k)
        /\ Streams(g, issued, q, c, o, l, e)
        /\ Blames(u, l, e, n)
        /\ Closing(g, q, t, o, l)
        /\ Served(g, f, q, o, l, e, d)
        /\ InOrder(e, d)
    BY DEF Fits
  <1> DEFINE w2 == Append(e.work, job)
  <1>1. /\ DOMAIN w2 = DOMAIN e.work \cup {Len(e.work) + 1} /\ Len(e.work) \in Nat
        /\ \A i \in DOMAIN e.work : w2[i] = e.work[i] /\ i \in Nat /\ i <= Len(e.work)
        /\ w2[Len(e.work) + 1] = job
    BY AppendAt, ReplicaType
  <1>2. e2.work = w2 OBVIOUS
  <1> HIDE DEF w2
  <1>4. /\ e2.run = e.run /\ e2.frame = e.frame /\ e2.head = e.head /\ e2.stream = e.stream
        /\ e2.incoming = e.incoming /\ e2.catchingUp = e.catchingUp /\ e2.target = e.target
    BY DEF Alike
  <1>5. End(e2, d) = End(e, d) /\ \A id : Takes(e2, id) <=> Takes(e, id) BY <1>4 DEF End, Takes
  <1>6. \A i \in DOMAIN e.work : e.work[i].kind # "frame" BY DEF Awaits
  <1>8. Replays(f, e2, n) BY <1>0, <1>1, <1>2, <1>4, <1>5, <1>6 DEF Replays, Fresh, Late, Takes
  <1>9. Checks(e2) BY <1>0, <1>1, <1>2, <1>4, <1>5 DEF Checks
  <1>10. Past(f, t, c, o, e2, d) BY <1>0, <1>4 DEF Past
  <1>11. Once(g, q, k, e2.work) BY <1>0, <1>1, <1>2 DEF Once
  <1>12. Fresh(g, issued, q, t, c, e2, k) BY <1>0, <1>1, <1>2, <1>4 DEF Fresh, Late
  <1>13. Streams(g, issued, q, c, o, l, e2) BY <1>0, <1>4 DEF Streams
  <1>14. Blames(u, l, e2, n) BY <1>0, <1>4 DEF Blames
  <1>15. Served(g, f, q, o, l, e2, d) BY <1>0, <1>4, <1>5 DEF Served
  <1>16. InOrder(e2, d) BY <1>0, <1>4 DEF InOrder
  <1> QED BY <1>0, <1>8, <1>9, <1>10, <1>11, <1>12, <1>13, <1>14,
    <1>15, <1>16 DEF Fits

\* A checkpoint reaches the guest.
LEMMA ChunkRead ==
  ASSUME NEW g \in Guest,
         NEW f \in Nat, NEW issued \in Nat, NEW q \in Seq(Event),
         NEW t \in Maybe(Transfers), NEW c \in Seq(Event), NEW o \in Maybe(Outgoing),
         NEW l \in Link, NEW e \in Replica, NEW n \in Native, NEW d \in Packets(HostPacket),
         NEW u \in Packets(HashPacket), NEW k \in Seq(Chunk),
         Fits(g, f, issued, q, t, c, o, l, e, n, d, u, k),
         k # <<>>
  PROVE  Fits(g, f, issued, q, t, c, o, l, e, n, d, u, Tail(k))
  <1>0. /\ Replays(f, e, n)
        /\ Checks(e)
        /\ Past(f, t, c, o, e, d)
        /\ Once(g, q, k, e.work)
        /\ Fresh(g, issued, q, t, c, e, k)
        /\ Streams(g, issued, q, c, o, l, e)
        /\ Blames(u, l, e, n)
        /\ Closing(g, q, t, o, l)
        /\ Served(g, f, q, o, l, e, d)
        /\ InOrder(e, d)
    BY DEF Fits
  <1> DEFINE k2 == Tail(k)
  <1>1. /\ \A i \in DOMAIN k2 : i \in Nat /\ i + 1 \in DOMAIN k /\ k2[i] = k[i + 1]
        /\ \A i \in DOMAIN k : i \in Nat
        /\ Head(k) = k[1] /\ 1 \in DOMAIN k
    BY TailAt
  <1> HIDE DEF k2
  <1>3. Once(g, q, k2, e.work) BY <1>0, <1>1 DEF Once
  <1>4. Fresh(g, issued, q, t, c, e, k2) BY <1>0, <1>1 DEF Fresh, Late
  <1> QED BY <1>0, <1>3, <1>4 DEF Fits, k2

\* A checkpoint that the guest takes reaches it, and its worker is asked to import it.
LEMMA Imported ==
  ASSUME NEW g \in Guest,
         NEW f \in Nat, NEW issued \in Nat, NEW q \in Seq(Event),
         NEW t \in Maybe(Transfers), NEW c \in Seq(Event), NEW o \in Maybe(Outgoing),
         NEW l \in Link, NEW e \in Replica, NEW n \in Native, NEW d \in Packets(HostPacket),
         NEW u \in Packets(HashPacket), NEW k \in Seq(Chunk), NEW e2 \in Replica,
         NEW job \in Job,
         Fits(g, f, issued, q, t, c, o, l, e, n, d, u, k),
         k # <<>>,
         e2.work = Append(e.work, job),
         Alike(e, e2),
         job.kind = "import" /\ job.id = Head(k).id,
         Takes(e, job.id)
  PROVE  Fits(g, f, issued, q, t, c, o, l, e2, n, d, u, Tail(k))
  <1>0. /\ Replays(f, e, n)
        /\ Checks(e)
        /\ Past(f, t, c, o, e, d)
        /\ Once(g, q, k, e.work)
        /\ Fresh(g, issued, q, t, c, e, k)
        /\ Streams(g, issued, q, c, o, l, e)
        /\ Blames(u, l, e, n)
        /\ Closing(g, q, t, o, l)
        /\ Served(g, f, q, o, l, e, d)
        /\ InOrder(e, d)
    BY DEF Fits
  <1> DEFINE k2 == Tail(k)
  <1>6. /\ \A i \in DOMAIN k2 : i \in Nat /\ i + 1 \in DOMAIN k /\ k2[i] = k[i + 1]
        /\ \A i \in DOMAIN k : i \in Nat
        /\ Head(k) = k[1] /\ 1 \in DOMAIN k
    BY TailAt
  <1> HIDE DEF k2
  <1> DEFINE w2 == Append(e.work, job)
  <1>1. /\ DOMAIN w2 = DOMAIN e.work \cup {Len(e.work) + 1} /\ Len(e.work) \in Nat
        /\ \A i \in DOMAIN e.work : w2[i] = e.work[i] /\ i \in Nat /\ i <= Len(e.work)
        /\ w2[Len(e.work) + 1] = job
    BY AppendAt, ReplicaType
  <1>2. e2.work = w2 OBVIOUS
  <1> HIDE DEF w2
  <1>3. \A id : Late(g, id, q, k2, e2.work) => Late(g, id, q, k, e.work) BY <1>1, <1>2, <1>6 DEF Late
  <1>4. /\ e2.run = e.run /\ e2.frame = e.frame /\ e2.head = e.head /\ e2.stream = e.stream
        /\ e2.incoming = e.incoming /\ e2.catchingUp = e.catchingUp /\ e2.target = e.target
    BY DEF Alike
  <1>5. End(e2, d) = End(e, d) /\ \A id : Takes(e2, id) <=> Takes(e, id) BY <1>4 DEF End, Takes
  <1>7. Replays(f, e2, n) BY <1>0, <1>1, <1>2, <1>4, <1>5 DEF Replays
  <1>8. Checks(e2) BY <1>0, <1>1, <1>2, <1>4, <1>5 DEF Checks
  <1>9. Past(f, t, c, o, e2, d) BY <1>0, <1>4 DEF Past
  <1>10. Once(g, q, k2, e2.work)
    <2>1. \A i \in DOMAIN q : Of(q[i], "send", g) => q[i].id # job.id BY <1>0, <1>6 DEF Once
    <2>2. \A i \in DOMAIN k2 : k2[i].id # job.id
      <3> SUFFICES ASSUME NEW i \in DOMAIN k2, k2[i].id = job.id PROVE FALSE OBVIOUS
      <3> QED BY <1>0, <1>6, TailAt DEF Once, k2
    <2>3. \A i \in DOMAIN e.work : e.work[i].kind = "import" => e.work[i].id # job.id
      BY <1>0, <1>6 DEF Once
    <2>4. \A i, j \in DOMAIN k2 : k2[i].id = k2[j].id => i = j BY <1>0, <1>6 DEF Once
    <2> QED BY <1>0, <1>1, <1>2, <1>6, <2>1, <2>2, <2>3, <2>4 DEF Once
  <1>11. Fresh(g, issued, q, t, c, e2, k2) BY <1>0, <1>3, <1>4 DEF Fresh
  <1>12. Streams(g, issued, q, c, o, l, e2) BY <1>0, <1>4 DEF Streams
  <1>13. Blames(u, l, e2, n) BY <1>0, <1>4 DEF Blames
  <1>14. Served(g, f, q, o, l, e2, d) BY <1>0, <1>4, <1>5 DEF Served
  <1>15. InOrder(e2, d) BY <1>0, <1>4 DEF InOrder
  <1> QED BY <1>0, <1>7, <1>8, <1>9, <1>10, <1>11, <1>12, <1>13,
    <1>14, <1>15 DEF Fits, k2

\* The guest ran a frame and committed it.
LEMMA Advanced ==
  ASSUME NEW g \in Guest,
         NEW f \in Nat, NEW issued \in Nat, NEW q \in Seq(Event),
         NEW t \in Maybe(Transfers), NEW c \in Seq(Event), NEW o \in Maybe(Outgoing),
         NEW l \in Link, NEW e \in Replica, NEW n \in Native, NEW d \in Packets(HostPacket),
         NEW u \in Packets(HashPacket), NEW k \in Seq(Chunk), NEW e2 \in Replica,
         NEW n2 \in Native,
         Fits(g, f, issued, q, t, c, o, l, e, n, d, u, k),
         e.run /\ e.frame < e.head,
         ~Awaits(e.work, "frame"),
         e2.run = e.run /\ e2.frame = e.frame + 1 /\ e2.head = e.head,
         e2.stream = e.stream /\ e2.work = e.work,
         e2.incoming = e.incoming /\ e2.catchingUp = e.catchingUp /\ e2.target = e.target,
         n2.at = n.at + 1 /\ n2.state = n.state
  PROVE  Fits(g, f, issued, q, t, c, o, l, e2, n2, d, u, k)
  <1>0. /\ Replays(f, e, n)
        /\ Checks(e)
        /\ Past(f, t, c, o, e, d)
        /\ Once(g, q, k, e.work)
        /\ Fresh(g, issued, q, t, c, e, k)
        /\ Streams(g, issued, q, c, o, l, e)
        /\ Blames(u, l, e, n)
        /\ Closing(g, q, t, o, l)
        /\ Served(g, f, q, o, l, e, d)
        /\ InOrder(e, d)
    BY DEF Fits
  <1>2. End(e2, d) = End(e, d) BY DEF End
  <1>3. \A i \in DOMAIN e.work : e.work[i].kind # "frame" BY DEF Awaits
  <1>4. Replays(f, e2, n2) BY <1>0, <1>3, ReplicaType DEF Replays, Takes
  <1>5. Checks(e2) BY <1>0 DEF Checks, Takes
  <1>6. Past(f, t, c, o, e2, d) BY <1>0 DEF Past
  <1>7. Once(g, q, k, e2.work) BY <1>0
  <1>8. Fresh(g, issued, q, t, c, e2, k) BY <1>0 DEF Fresh
  <1>9. Streams(g, issued, q, c, o, l, e2) BY <1>0 DEF Streams
  <1>10. Blames(u, l, e2, n2) BY <1>0 DEF Blames
  <1>11. Served(g, f, q, o, l, e2, d) BY <1>0, <1>2 DEF Served
  <1>12. InOrder(e2, d) BY <1>0 DEF InOrder
  <1> QED BY <1>0, <1>4, <1>5, <1>6, <1>7, <1>8, <1>9, <1>10,
    <1>11, <1>12 DEF Fits

\* The emulator of a guest that does not follow the run moves.
LEMMA Unwatched ==
  ASSUME NEW g \in Guest,
         NEW f \in Nat, NEW issued \in Nat, NEW q \in Seq(Event),
         NEW t \in Maybe(Transfers), NEW c \in Seq(Event), NEW o \in Maybe(Outgoing),
         NEW l \in Link, NEW e \in Replica, NEW n \in Native, NEW d \in Packets(HostPacket),
         NEW u \in Packets(HashPacket), NEW k \in Seq(Chunk), NEW n2 \in Native,
         Fits(g, f, issued, q, t, c, o, l, e, n, d, u, k),
         ~e.run
  PROVE  Fits(g, f, issued, q, t, c, o, l, e, n2, d, u, k)
BY DEF Fits, Replays, Takes, Blames

\* The emulator of a guest stops agreeing.
LEMMA Strays ==
  ASSUME NEW g \in Guest,
         NEW f \in Nat, NEW issued \in Nat, NEW q \in Seq(Event),
         NEW t \in Maybe(Transfers), NEW c \in Seq(Event), NEW o \in Maybe(Outgoing),
         NEW l \in Link, NEW e \in Replica, NEW n \in Native, NEW d \in Packets(HostPacket),
         NEW u \in Packets(HashPacket), NEW k \in Seq(Chunk), NEW n2 \in Native,
         Fits(g, f, issued, q, t, c, o, l, e, n, d, u, k),
         n2.at = n.at /\ n2.state # "agrees"
  PROVE  Fits(g, f, issued, q, t, c, o, l, e, n2, d, u, k)
BY DEF Fits, Replays, Takes, Blames

\* The guest reads an event.
LEMMA GuestReads ==
  ASSUME NEW g \in Guest,
         NEW f \in Nat, NEW issued \in Nat, NEW q \in Seq(Event),
         NEW t \in Maybe(Transfers), NEW c \in Seq(Event), NEW o \in Maybe(Outgoing),
         NEW l \in Link, NEW e \in Replica, NEW n \in Native, NEW d \in Packets(HostPacket),
         NEW u \in Packets(HashPacket), NEW k \in Seq(Chunk),
         Fits(g, f, issued, q, t, c, o, l, e, n, d, u, k),
         c # <<>>
  PROVE  Fits(g, f, issued, q, t, Tail(c), o, l, e, n, d, u, k)
  <1>0. /\ Replays(f, e, n)
        /\ Checks(e)
        /\ Past(f, t, c, o, e, d)
        /\ Once(g, q, k, e.work)
        /\ Fresh(g, issued, q, t, c, e, k)
        /\ Streams(g, issued, q, c, o, l, e)
        /\ Blames(u, l, e, n)
        /\ Closing(g, q, t, o, l)
        /\ Served(g, f, q, o, l, e, d)
        /\ InOrder(e, d)
    BY DEF Fits
  <1> DEFINE c2 == Tail(c)
  <1>1. /\ \A i \in DOMAIN c2 : i \in Nat /\ 0 < i /\ i + 1 \in DOMAIN c /\ c2[i] = c[i + 1]
        /\ \A i \in DOMAIN c : i \in Nat /\ c[i].id \in Nat
        /\ Head(c) = c[1] /\ 1 \in DOMAIN c
    BY TailAt, EventType
  <1> HIDE DEF c2
  <1>2. Past(f, t, c2, o, e, d) BY <1>0, <1>1 DEF Past
  <1>3. Fresh(g, issued, q, t, c2, e, k) BY <1>0, <1>1 DEF Fresh
  <1>4. Streams(g, issued, q, c2, o, l, e) BY <1>0, <1>1 DEF Streams
  <1> QED BY <1>0, <1>2, <1>3, <1>4 DEF Fits, c2

\* The guest reads the description of a checkpoint, and is to take that one.
LEMMA Begun ==
  ASSUME NEW g \in Guest,
         NEW f \in Nat, NEW issued \in Nat, NEW q \in Seq(Event),
         NEW t \in Maybe(Transfers), NEW c \in Seq(Event), NEW o \in Maybe(Outgoing),
         NEW l \in Link, NEW e \in Replica, NEW n \in Native, NEW d \in Packets(HostPacket),
         NEW u \in Packets(HashPacket), NEW k \in Seq(Chunk), NEW e2 \in Replica,
         Fits(g, f, issued, q, t, c, o, l, e, n, d, u, k),
         c # <<>> /\ Head(c).type = "checkpoint",
         e2.run = e.run /\ e2.frame = e.frame /\ e2.head = e.head,
         e2.stream = e.stream /\ e2.work = e.work,
         e2.incoming = [id |-> Head(c).id, frame |-> Head(c).frame],
         ~e2.catchingUp
  PROVE  Fits(g, f, issued, q, t, Tail(c), o, l, e2, n, d, u, k)
  <1>0. /\ Replays(f, e, n)
        /\ Checks(e)
        /\ Past(f, t, c, o, e, d)
        /\ Once(g, q, k, e.work)
        /\ Fresh(g, issued, q, t, c, e, k)
        /\ Streams(g, issued, q, c, o, l, e)
        /\ Blames(u, l, e, n)
        /\ Closing(g, q, t, o, l)
        /\ Served(g, f, q, o, l, e, d)
        /\ InOrder(e, d)
    BY DEF Fits
  <1> DEFINE c2 == Tail(c)
  <1>2. /\ \A i \in DOMAIN c2 : i \in Nat /\ 0 < i /\ i + 1 \in DOMAIN c /\ c2[i] = c[i + 1]
        /\ \A i \in DOMAIN c : i \in Nat /\ c[i].id \in Nat
        /\ Head(c) = c[1] /\ 1 \in DOMAIN c
    BY TailAt, EventType
  <1> HIDE DEF c2
  <1>3. e2.incoming.id = c[1].id /\ e2.incoming.frame = c[1].frame /\ c[1].type = "checkpoint" BY <1>2
  <1>4. End(e2, d) = End(e, d) BY DEF End
  <1>5. /\ c[1].id <= issued /\ e.stream < c[1].id /\ ~Late(g, c[1].id, q, k, e.work)
        /\ \A j \in DOMAIN c2 : c2[j].type = "checkpoint" => c[1].id < c2[j].id
    BY <1>0, <1>2, <1>3 DEF Fresh
  <1>8. Replays(f, e2, n) BY <1>0, <1>3, <1>5 DEF Replays, Takes, Late
  <1>9. Checks(e2) BY <1>0, <1>2, <1>3, <1>5, ReplicaType DEF Checks, Takes
  <1>10. Past(f, t, c2, o, e2, d) BY <1>0, <1>2, <1>3 DEF Past
  <1>11. Once(g, q, k, e2.work) BY <1>0
  <1>12. Fresh(g, issued, q, t, c2, e2, k)
    <2>1. \A i \in DOMAIN c2 : c2[i].type = "checkpoint" =>
            /\ c2[i].id <= issued /\ e.stream < c2[i].id /\ c[1].id < c2[i].id
            /\ ~Late(g, c2[i].id, q, k, e.work)
            /\ \A j \in DOMAIN c2 : c2[j].type = "checkpoint" /\ i < j => c2[i].id < c2[j].id
            /\ t # None => c2[i].id <= t.id
            /\ t # None /\ t.frame = None => c2[i].id < t.id
      BY <1>0, <1>2, <1>5 DEF Fresh
    <2>2. /\ t # None => c[1].id <= t.id
          /\ t # None /\ t.frame = None => c[1].id < t.id
      BY <1>0, <1>2, <1>3 DEF Fresh
    <2>3. /\ t # None => t.id <= issued /\ e.stream <= t.id
          /\ t # None /\ t.frame = None => ~t.sending
          /\ t # None /\ ~t.sending => e.stream < t.id /\ ~Late(g, t.id, q, k, e.work)
          /\ \A id \in Nat : Late(g, id, q, k, e.work) => id <= issued
      BY <1>0 DEF Fresh
    <2>4. e.stream <= c[1].id BY <1>2, <1>5, ReplicaType
    <2> QED BY <1>3, <1>5, <2>1, <2>2, <2>3, <2>4 DEF Fresh
  <1>13. Streams(g, issued, q, c2, o, l, e2) BY <1>0, <1>2, <1>3 DEF Streams
  <1>14. Blames(u, l, e2, n) BY <1>0 DEF Blames
  <1>15. Served(g, f, q, o, l, e2, d) BY <1>0, <1>4 DEF Served
  <1>16. InOrder(e2, d) BY <1>0 DEF InOrder
  <1> QED BY <1>0, <1>8, <1>9, <1>10, <1>11, <1>12, <1>13, <1>14,
    <1>15, <1>16 DEF Fits, c2

\* The worker of the guest imported the checkpoint, and the guest follows the stream of that
\* transfer from there.
LEMMA Installed ==
  ASSUME NEW g \in Guest,
         NEW f \in Nat, NEW issued \in Nat, NEW q \in Seq(Event),
         NEW t \in Maybe(Transfers), NEW c \in Seq(Event), NEW o \in Maybe(Outgoing),
         NEW l \in Link, NEW e \in Replica, NEW n \in Native, NEW d \in Packets(HostPacket),
         NEW u \in Packets(HashPacket), NEW k \in Seq(Chunk), NEW id \in Nat,
         NEW e2 \in Replica, NEW n2 \in Native,
         Fits(g, f, issued, q, t, c, o, l, e, n, d, u, k),
         Takes(e, id) /\ e.stream < id,
         ~Late(g, id, q, k, e.work),
         ~Awaits(e.work, "frame"),
         t # None => t.id # id \/ t.sending,
         e2.run /\ e2.frame = e.incoming.frame /\ e2.head = e.incoming.frame,
         e2.stream = id /\ e2.work = e.work /\ e2.incoming = e.incoming,
         n2.at = e.incoming.frame /\ n2.state = "agrees"
  PROVE  Fits(g, f, issued, q, t, c, o, l, e2, n2, d, u, k)
  <1>0. /\ Replays(f, e, n)
        /\ Checks(e)
        /\ Past(f, t, c, o, e, d)
        /\ Once(g, q, k, e.work)
        /\ Fresh(g, issued, q, t, c, e, k)
        /\ Streams(g, issued, q, c, o, l, e)
        /\ Blames(u, l, e, n)
        /\ Closing(g, q, t, o, l)
        /\ Served(g, f, q, o, l, e, d)
        /\ InOrder(e, d)
    BY DEF Fits
  <1>2. e.incoming # None /\ e.incoming.id = id /\ id <= l.stream BY <1>0 DEF Takes, Streams
  <1>3. \A i \in DOMAIN e.work : e.work[i].kind # "frame" BY DEF Awaits
  <1>4. l.stream # e.stream BY <1>2, LinkType, ReplicaType
  <1>5. l.theirs = {} /\ ~l.live BY <1>0, <1>4 DEF Blames, Served
  <1>7. \A i \in DOMAIN d : d[i].stream # id /\ d[i].stream <= id
    BY <1>0, PacketType, ReplicaType DEF Served
  <1>8. \A i \in DOMAIN q : Of(q[i], "catchup", g) => q[i].id # id /\ q[i].id <= id
    BY <1>0, EventType, ReplicaType DEF Served
  <1>11. Replays(f, e2, n2) BY <1>0, <1>2, <1>3, ReplicaType DEF Replays, Takes, Past
  <1>12. Checks(e2) BY <1>0, <1>2, ReplicaType DEF Checks, Takes
  <1>13. Past(f, t, c, o, e2, d) BY <1>0 DEF Past
  <1>14. Once(g, q, k, e2.work) BY <1>0
  <1>15. Fresh(g, issued, q, t, c, e2, k) BY <1>0, <1>2, TransferType DEF Fresh
  <1>16. Streams(g, issued, q, c, o, l, e2) BY <1>0, <1>2 DEF Streams
  <1>17. Blames(u, l, e2, n2) BY <1>0, <1>5, HashType, ReplicaType DEF Blames
  <1>18. Served(g, f, q, o, l, e2, d) BY <1>0, <1>5, <1>4, <1>7, <1>8 DEF Served, Streams
  <1>19. InOrder(e2, d) BY <1>0, <1>7 DEF InOrder
  <1> QED BY <1>0, <1>11, <1>12, <1>13, <1>14, <1>15, <1>16, <1>17,
    <1>18, <1>19 DEF Fits

-----------------------------------------------------------------------------
(* What passes between the host and the guest                              *)

\* The guest reads a packet that is no frame of the stream it follows.
LEMMA PacketRead ==
  ASSUME NEW g \in Guest,
         NEW f \in Nat, NEW issued \in Nat, NEW q \in Seq(Event),
         NEW t \in Maybe(Transfers), NEW c \in Seq(Event), NEW o \in Maybe(Outgoing),
         NEW l \in Link, NEW e \in Replica, NEW n \in Native, NEW d \in Packets(HostPacket),
         NEW u \in Packets(HashPacket), NEW k \in Seq(Chunk),
         Fits(g, f, issued, q, t, c, o, l, e, n, d, u, k),
         d # <<>>,
         ~e.run \/ Head(d).stream # e.stream \/ Head(d).p.kind # "frame"
  PROVE  Fits(g, f, issued, q, t, c, o, l, e, n, Tail(d), u, k)
  <1>0. /\ Replays(f, e, n)
        /\ Checks(e)
        /\ Past(f, t, c, o, e, d)
        /\ Once(g, q, k, e.work)
        /\ Fresh(g, issued, q, t, c, e, k)
        /\ Streams(g, issued, q, c, o, l, e)
        /\ Blames(u, l, e, n)
        /\ Closing(g, q, t, o, l)
        /\ Served(g, f, q, o, l, e, d)
        /\ InOrder(e, d)
    BY DEF Fits
  <1> DEFINE d2 == Tail(d)
  <1>1. /\ \A i \in DOMAIN d2 : i + 1 \in DOMAIN d /\ d2[i] = d[i + 1]
        /\ Head(d) = d[1] /\ 1 \in DOMAIN d
    BY PacketTail
  <1>2. e.run => ~IsFrame(d, e.stream, 1) BY <1>1 DEF IsFrame
  <1>3. InOrder(e, d2) /\ (e.run => End(e, d2) = End(e, d)) BY <1>0, <1>2, OrderTail, ReplicaType
  <1> HIDE DEF d2
  <1>4. Past(f, t, c, o, e, d2) BY <1>0, <1>1 DEF Past
  <1>5. Served(g, f, q, o, l, e, d2) BY <1>0, <1>1, <1>3 DEF Served
  <1>6. InOrder(e, d2) BY <1>3
  <1> QED BY <1>0, <1>4, <1>5, <1>6 DEF Fits, d2

\* The guest reads the next frame of the stream it follows.
LEMMA FrameRead ==
  ASSUME NEW g \in Guest,
         NEW f \in Nat, NEW issued \in Nat, NEW q \in Seq(Event),
         NEW t \in Maybe(Transfers), NEW c \in Seq(Event), NEW o \in Maybe(Outgoing),
         NEW l \in Link, NEW e \in Replica, NEW n \in Native, NEW d \in Packets(HostPacket),
         NEW u \in Packets(HashPacket), NEW k \in Seq(Chunk), NEW e2 \in Replica,
         Fits(g, f, issued, q, t, c, o, l, e, n, d, u, k),
         d # <<>> /\ e.run,
         Head(d).stream = e.stream /\ Head(d).p.kind = "frame" /\ Head(d).p.frame = e.head,
         e2.run = e.run /\ e2.frame = e.frame /\ e2.head = e.head + 1,
         e2.stream = e.stream /\ e2.work = e.work,
         e2.incoming = e.incoming /\ e2.catchingUp = e.catchingUp /\ e2.target = e.target
  PROVE  Fits(g, f, issued, q, t, c, o, l, e2, n, Tail(d), u, k)
  <1>0. /\ Replays(f, e, n)
        /\ Checks(e)
        /\ Past(f, t, c, o, e, d)
        /\ Once(g, q, k, e.work)
        /\ Fresh(g, issued, q, t, c, e, k)
        /\ Streams(g, issued, q, c, o, l, e)
        /\ Blames(u, l, e, n)
        /\ Closing(g, q, t, o, l)
        /\ Served(g, f, q, o, l, e, d)
        /\ InOrder(e, d)
    BY DEF Fits
  <1> DEFINE d2 == Tail(d)
  <1>1. /\ \A i \in DOMAIN d2 : i + 1 \in DOMAIN d /\ d2[i] = d[i + 1]
        /\ Head(d) = d[1] /\ 1 \in DOMAIN d
    BY PacketTail
  <1>2. IsFrame(d, e.stream, 1) BY <1>1 DEF IsFrame
  <1>3. InOrder(e2, d2) /\ End(e2, d2) = End(e, d) BY <1>0, <1>2, OrderTail
  <1> HIDE DEF d2
  <1>4. e.head < f /\ d[1].stream = e.stream BY <1>0, <1>1 DEF Past
  <1>6. Replays(f, e2, n) BY <1>0, <1>4, ReplicaType DEF Replays, Takes
  <1>7. Checks(e2) BY <1>0 DEF Checks, Takes
  <1>8. Past(f, t, c, o, e2, d2) BY <1>0, <1>1 DEF Past
  <1>9. Once(g, q, k, e2.work) BY <1>0
  <1>10. Fresh(g, issued, q, t, c, e2, k) BY <1>0 DEF Fresh
  <1>11. Streams(g, issued, q, c, o, l, e2) BY <1>0 DEF Streams
  <1>12. Blames(u, l, e2, n) BY <1>0 DEF Blames
  <1>13. Served(g, f, q, o, l, e2, d2) BY <1>0, <1>1, <1>3, <1>4 DEF Served
  <1>14. InOrder(e2, d2) BY <1>3
  <1> QED BY <1>0, <1>6, <1>7, <1>8, <1>9, <1>10, <1>11, <1>12,
    <1>13, <1>14 DEF Fits, d2

\* The host sends the guest a hash, or the marker of its boundary, that it does not overtake a
\* frame with.
LEMMA Sent ==
  ASSUME NEW g \in Guest,
         NEW f \in Nat, NEW issued \in Nat, NEW q \in Seq(Event),
         NEW t \in Maybe(Transfers), NEW c \in Seq(Event), NEW o \in Maybe(Outgoing),
         NEW l \in Link, NEW e \in Replica, NEW n \in Native, NEW d \in Packets(HostPacket),
         NEW u \in Packets(HashPacket), NEW k \in Seq(Chunk), NEW pk,
         Fits(g, f, issued, q, t, c, o, l, e, n, d, u, k),
         IsPacket(pk) /\ pk.p.kind # "frame",
         pk.stream <= e.stream,
         e.run /\ pk.stream = e.stream => pk.p.frame <= End(e, d),
         \A i \in DOMAIN q : Of(q[i], "catchup", g) => q[i].id # pk.stream
  PROVE  Fits(g, f, issued, q, t, c, o, l, e, n, Append(d, pk), u, k)
  <1>0. /\ Replays(f, e, n)
        /\ Checks(e)
        /\ Past(f, t, c, o, e, d)
        /\ Once(g, q, k, e.work)
        /\ Fresh(g, issued, q, t, c, e, k)
        /\ Streams(g, issued, q, c, o, l, e)
        /\ Blames(u, l, e, n)
        /\ Closing(g, q, t, o, l)
        /\ Served(g, f, q, o, l, e, d)
        /\ InOrder(e, d)
    BY DEF Fits
  <1> DEFINE d2 == Append(d, pk)
  <1>1. /\ DOMAIN d2 = DOMAIN d \cup {Len(d) + 1}
        /\ \A i \in DOMAIN d : d2[i] = d[i]
        /\ d2[Len(d) + 1] = pk
    BY PacketAppend
  <1>2. InOrder(e, d2) /\ End(e, d2) = End(e, d) + 0 BY <1>0, OrderAppend
  <1>3. End(e, d) \in Nat
    <2>1. FramesOf(e.stream, d, Len(d)) \in Nat BY PacketType, FramesFinite
    <2> QED BY <2>1, ReplicaType DEF End
  <1>4. End(e, d2) = End(e, d) BY <1>2, <1>3
  <1> HIDE DEF d2
  <1>5. Past(f, t, c, o, e, d2) BY <1>0, <1>1 DEF Past
  <1>6. Served(g, f, q, o, l, e, d2) BY <1>0, <1>1, <1>4 DEF Served
  <1>7. InOrder(e, d2) BY <1>2
  <1> QED BY <1>0, <1>5, <1>6, <1>7 DEF Fits, d2

\* The host sends a guest that it serves the next frame.
LEMMA Pumped ==
  ASSUME NEW g \in Guest,
         NEW f \in Nat, NEW issued \in Nat, NEW q \in Seq(Event),
         NEW t \in Maybe(Transfers), NEW c \in Seq(Event), NEW o \in Maybe(Outgoing),
         NEW l \in Link, NEW e \in Replica, NEW n \in Native, NEW d \in Packets(HostPacket),
         NEW u \in Packets(HashPacket), NEW k \in Seq(Chunk), NEW pk, NEW l2 \in Link,
         Fits(g, f, issued, q, t, c, o, l, e, n, d, u, k),
         l.live /\ l.cursor < f,
         IsPacket(pk) /\ pk.stream = l.stream,
         pk.p.kind = "frame" /\ pk.p.frame = l.cursor,
         l2.live = l.live /\ l2.stream = l.stream,
         l2.cursor = l.cursor + 1 /\ l2.theirs = l.theirs
  PROVE  Fits(g, f, issued, q, t, c, o, l2, e, n, Append(d, pk), u, k)
  <1>0. /\ Replays(f, e, n)
        /\ Checks(e)
        /\ Past(f, t, c, o, e, d)
        /\ Once(g, q, k, e.work)
        /\ Fresh(g, issued, q, t, c, e, k)
        /\ Streams(g, issued, q, c, o, l, e)
        /\ Blames(u, l, e, n)
        /\ Closing(g, q, t, o, l)
        /\ Served(g, f, q, o, l, e, d)
        /\ InOrder(e, d)
    BY DEF Fits
  <1> DEFINE d2 == Append(d, pk)
  <1>1. /\ DOMAIN d2 = DOMAIN d \cup {Len(d) + 1}
        /\ \A i \in DOMAIN d : d2[i] = d[i]
        /\ d2[Len(d) + 1] = pk
    BY PacketAppend
  <1>2. pk.stream = e.stream /\ (e.run => l.cursor = End(e, d)) BY <1>0 DEF Served
  <1>3. InOrder(e, d2) /\ End(e, d2) = End(e, d) + 1 BY <1>0, <1>2, OrderAppend
  <1> HIDE DEF d2
  <1>4. Past(f, t, c, o, e, d2) BY <1>0, <1>1 DEF Past
  <1>5. Streams(g, issued, q, c, o, l2, e) BY <1>0 DEF Streams
  <1>6. Blames(u, l2, e, n) BY <1>0 DEF Blames
  <1>7. Closing(g, q, t, o, l2) BY <1>0 DEF Closing, Ends, Stops
  <1>8. Served(g, f, q, o, l2, e, d2) BY <1>0, <1>1, <1>2, ReplicaType, <1>3 DEF Served
  <1>9. InOrder(e, d2) BY <1>3
  <1> QED BY <1>0, <1>4, <1>5, <1>6, <1>7, <1>8, <1>9 DEF Fits, d2

\* The host sends a guest that catches up the next frame.
LEMMA Replayed ==
  ASSUME NEW g \in Guest,
         NEW f \in Nat, NEW issued \in Nat, NEW q \in Seq(Event),
         NEW t \in Maybe(Transfers), NEW c \in Seq(Event), NEW o \in Maybe(Outgoing),
         NEW l \in Link, NEW e \in Replica, NEW n \in Native, NEW d \in Packets(HostPacket),
         NEW u \in Packets(HashPacket), NEW k \in Seq(Chunk), NEW pk,
         NEW o2 \in Maybe(Outgoing),
         Fits(g, f, issued, q, t, c, o, l, e, n, d, u, k),
         o # None /\ o.cursor # None /\ o.boundary # None,
         o.cursor < o.boundary /\ ~o.marked,
         IsPacket(pk) /\ pk.stream = l.stream,
         pk.p.kind = "frame" /\ pk.p.frame = o.cursor,
         o2 # None /\ o2.id = o.id /\ o2.cursor = o.cursor + 1,
         o2.frame = o.frame /\ o2.boundary = o.boundary,
         o2.pending = o.pending /\ o2.marked = o.marked
  PROVE  Fits(g, f, issued, q, t, c, o2, l, e, n, Append(d, pk), u, k)
  <1>0. /\ Replays(f, e, n)
        /\ Checks(e)
        /\ Past(f, t, c, o, e, d)
        /\ Once(g, q, k, e.work)
        /\ Fresh(g, issued, q, t, c, e, k)
        /\ Streams(g, issued, q, c, o, l, e)
        /\ Blames(u, l, e, n)
        /\ Closing(g, q, t, o, l)
        /\ Served(g, f, q, o, l, e, d)
        /\ InOrder(e, d)
    BY DEF Fits
  <1> DEFINE d2 == Append(d, pk)
  <1>1. /\ DOMAIN d2 = DOMAIN d \cup {Len(d) + 1}
        /\ \A i \in DOMAIN d : d2[i] = d[i]
        /\ d2[Len(d) + 1] = pk
    BY PacketAppend
  <1>2. pk.stream = e.stream /\ (e.run => o.cursor = End(e, d)) BY <1>0 DEF Served, Streams
  <1>3. InOrder(e, d2) /\ End(e, d2) = End(e, d) + 1 BY <1>0, <1>2, OrderAppend
  <1> HIDE DEF d2
  <1>4. o.cursor \in Nat /\ o.boundary \in Nat /\ o.boundary <= f BY <1>0, OutgoingType DEF Past
  <1>5. o.cursor < f /\ o.cursor + 1 <= f /\ o.cursor + 1 <= o.boundary /\ o.cursor + 1 # None
    BY <1>4, NoneAssumption
  <1>6. Past(f, t, c, o2, e, d2) BY <1>0, <1>1, <1>5 DEF Past
  <1>7. Streams(g, issued, q, c, o2, l, e) BY <1>0 DEF Streams
  <1>8. Closing(g, q, t, o2, l) BY <1>0 DEF Closing, Ends, Stops
  <1>9. Served(g, f, q, o2, l, e, d2) BY <1>0, <1>1, <1>2, ReplicaType, <1>3, <1>5 DEF Served
  <1>10. InOrder(e, d2) BY <1>3
  <1> QED BY <1>0, <1>6, <1>7, <1>8, <1>9, <1>10 DEF Fits, d2

\* The host marked the boundary of a guest that caught up, and serves it again.
LEMMA Marked ==
  ASSUME NEW g \in Guest,
         NEW f \in Nat, NEW issued \in Nat, NEW q \in Seq(Event),
         NEW t \in Maybe(Transfers), NEW c \in Seq(Event), NEW o \in Maybe(Outgoing),
         NEW l \in Link, NEW e \in Replica, NEW n \in Native, NEW d \in Packets(HostPacket),
         NEW u \in Packets(HashPacket), NEW k \in Seq(Chunk), NEW o2 \in Maybe(Outgoing),
         NEW l2 \in Link,
         Fits(g, f, issued, q, t, c, o, l, e, n, d, u, k),
         o # None /\ o.cursor # None /\ o.boundary # None,
         ~(o.cursor < o.boundary) /\ ~o.marked,
         o2 # None /\ o2.id = o.id /\ o2.cursor = o.cursor,
         o2.frame = o.frame /\ o2.boundary = o.boundary,
         o2.pending = o.pending /\ o2.marked,
         l2.live /\ l2.stream = l.stream,
         l2.cursor = o.boundary /\ l2.theirs = l.theirs
  PROVE  Fits(g, f, issued, q, t, c, o2, l2, e, n, d, u, k)
  <1>0. /\ Replays(f, e, n)
        /\ Checks(e)
        /\ Past(f, t, c, o, e, d)
        /\ Once(g, q, k, e.work)
        /\ Fresh(g, issued, q, t, c, e, k)
        /\ Streams(g, issued, q, c, o, l, e)
        /\ Blames(u, l, e, n)
        /\ Closing(g, q, t, o, l)
        /\ Served(g, f, q, o, l, e, d)
        /\ InOrder(e, d)
    BY DEF Fits
  <1>1. /\ o.cursor \in Nat /\ o.boundary \in Nat /\ o.cursor <= o.boundary
        /\ o.id = e.stream /\ o.id = l.stream /\ (e.run => o.cursor = End(e, d))
    BY <1>0, OutgoingType DEF Served, Streams
  <1>2. o.cursor = o.boundary BY <1>1
  <1>4. Past(f, t, c, o2, e, d) BY <1>0 DEF Past
  <1>5. Streams(g, issued, q, c, o2, l2, e) BY <1>0 DEF Streams
  <1>6. Blames(u, l2, e, n) BY <1>0 DEF Blames
  <1>7. Closing(g, q, t, o2, l2) BY <1>0 DEF Closing, Ends, Stops
  <1>8. Served(g, f, q, o2, l2, e, d) BY <1>0, <1>1, <1>2 DEF Served
  <1> QED BY <1>0, <1>4, <1>5, <1>6, <1>7, <1>8 DEF Fits

\* The host reads a hash of the guest, and may keep it if it is of the stream it serves.
LEMMA Claims ==
  ASSUME NEW g \in Guest,
         NEW f \in Nat, NEW issued \in Nat, NEW q \in Seq(Event),
         NEW t \in Maybe(Transfers), NEW c \in Seq(Event), NEW o \in Maybe(Outgoing),
         NEW l \in Link, NEW e \in Replica, NEW n \in Native, NEW d \in Packets(HostPacket),
         NEW u \in Packets(HashPacket), NEW k \in Seq(Chunk), NEW l2 \in Link,
         Fits(g, f, issued, q, t, c, o, l, e, n, d, u, k),
         u # <<>>,
         l2.live = l.live /\ l2.stream = l.stream /\ l2.cursor = l.cursor,
         \A x \in l2.theirs :
           x \in l.theirs \/ (Head(u).stream = l.stream /\ x.agrees = Head(u).p.agrees)
  PROVE  Fits(g, f, issued, q, t, c, o, l2, e, n, d, Tail(u), k)
  <1>0. /\ Replays(f, e, n)
        /\ Checks(e)
        /\ Past(f, t, c, o, e, d)
        /\ Once(g, q, k, e.work)
        /\ Fresh(g, issued, q, t, c, e, k)
        /\ Streams(g, issued, q, c, o, l, e)
        /\ Blames(u, l, e, n)
        /\ Closing(g, q, t, o, l)
        /\ Served(g, f, q, o, l, e, d)
        /\ InOrder(e, d)
    BY DEF Fits
  <1> DEFINE u2 == Tail(u)
  <1>1. /\ \A i \in DOMAIN u2 : i + 1 \in DOMAIN u /\ u2[i] = u[i + 1]
        /\ Head(u) = u[1] /\ 1 \in DOMAIN u
    <2> DEFINE Whole == [stream : Nat, p : HashPacket]
    <2>1. u \in Seq(Whole) BY DEF Packets
    <2> HIDE DEF Whole
    <2> QED BY <2>1, TailAt
  <1> HIDE DEF u2
  <1>2. Streams(g, issued, q, c, o, l2, e) BY <1>0 DEF Streams
  <1>3. Blames(u2, l2, e, n)
    <2>2. l2.theirs # {} => l2.stream = e.stream
      <3> SUFFICES ASSUME NEW x \in l2.theirs PROVE l.stream = e.stream OBVIOUS
      <3>1. CASE x \in l.theirs BY <1>0, <3>1 DEF Blames
      <3>2. CASE u[1].stream = l.stream
        BY <1>0, <1>1, <3>2, LinkType, ReplicaType DEF Blames, Streams
      <3> QED BY <1>1, <3>1, <3>2
    <2>3. ASSUME e.run, NEW x \in l2.theirs, ~x.agrees PROVE n.state # "agrees"
      BY <2>2, <1>0, <2>3, <1>1 DEF Blames
    <2> QED BY <1>0, <1>1, <2>2, <2>3 DEF Blames
  <1>4. Closing(g, q, t, o, l2) BY <1>0 DEF Closing, Ends, Stops
  <1>5. Served(g, f, q, o, l2, e, d) BY <1>0 DEF Served, End
  <1> QED BY <1>0, <1>2, <1>3, <1>4, <1>5 DEF Fits, u2

\* The guest sends the hash of what it ran.
LEMMA HashSent ==
  ASSUME NEW g \in Guest,
         NEW f \in Nat, NEW issued \in Nat, NEW q \in Seq(Event),
         NEW t \in Maybe(Transfers), NEW c \in Seq(Event), NEW o \in Maybe(Outgoing),
         NEW l \in Link, NEW e \in Replica, NEW n \in Native, NEW d \in Packets(HostPacket),
         NEW u \in Packets(HashPacket), NEW k \in Seq(Chunk), NEW pk,
         Fits(g, f, issued, q, t, c, o, l, e, n, d, u, k),
         pk \in [stream : Nat, p : HashPacket],
         pk.stream = e.stream /\ (~pk.p.agrees => n.state # "agrees")
  PROVE  Fits(g, f, issued, q, t, c, o, l, e, n, d, Append(u, pk), k)
  <1>0. /\ Replays(f, e, n)
        /\ Checks(e)
        /\ Past(f, t, c, o, e, d)
        /\ Once(g, q, k, e.work)
        /\ Fresh(g, issued, q, t, c, e, k)
        /\ Streams(g, issued, q, c, o, l, e)
        /\ Blames(u, l, e, n)
        /\ Closing(g, q, t, o, l)
        /\ Served(g, f, q, o, l, e, d)
        /\ InOrder(e, d)
    BY DEF Fits
  <1> DEFINE u2 == Append(u, pk)
  <1>1. /\ DOMAIN u2 = DOMAIN u \cup {Len(u) + 1}
        /\ \A i \in DOMAIN u : u2[i] = u[i]
        /\ u2[Len(u) + 1] = pk
    <2> DEFINE Whole == [stream : Nat, p : HashPacket]
    <2>1. u \in Seq(Whole) BY DEF Packets
    <2> HIDE DEF Whole
    <2> QED BY <2>1, AppendAt DEF Whole
  <1> HIDE DEF u2
  <1>2. Blames(u2, l, e, n) BY <1>0, <1>1, ReplicaType DEF Blames
  <1> QED BY <1>0, <1>2 DEF Fits, u2

-----------------------------------------------------------------------------
(* The coordinator                                                         *)

\* The fields of the coordinator's game.
LEMMA RoomType ==
  \A r \in Room :
    /\ r.status \in {"playing", "pausing", "paused", "failed"}
    /\ r.frame \in Nat /\ r.issued \in Nat /\ r.owners \in SUBSET Guest
    /\ r.transfer \in [Guest -> Maybe(Transfers)] /\ r.toHost \in Seq(Event)
    /\ r.toGuest \in [Guest -> Seq(Event)]
  BY DEF Room

\* The events about one guest.
LEMMA SyncType ==
  ASSUME NEW type \in {"capture", "checkpoint", "send", "catchup", "syncStop", "live"},
         NEW g \in Guest, NEW id \in Nat, NEW frame \in Nat
  PROVE  /\ SyncEvent(type, g, id, frame) \in Event
         /\ SyncEvent(type, g, id, frame).type = type /\ SyncEvent(type, g, id, frame).guest = g
         /\ SyncEvent(type, g, id, frame).id = id /\ SyncEvent(type, g, id, frame).frame = frame
  BY DEF SyncEvent, Event

\* The events about the run.
LEMMA HostEventType ==
  ASSUME NEW type \in {"freeze", "pauseAt", "stop"}, NEW frame \in Nat
  PROVE  /\ SyncEvent(type, None, 0, frame) \in Event
         /\ SyncEvent(type, None, 0, frame).type = type
         /\ SyncEvent(type, None, 0, frame).guest = None
         /\ SyncEvent(type, None, 0, frame).frame = frame
  BY DEF SyncEvent, Event

\* A queue that an event is appended to extends what it was.
LEMMA ExtendsAppend ==
  ASSUME NEW q \in Seq(Event), NEW ev \in Event
  PROVE  /\ Append(q, ev) \in Seq(Event) /\ Extends(q, Append(q, ev))
         /\ \A i \in DOMAIN Append(q, ev) : i \notin DOMAIN q => Append(q, ev)[i] = ev
  <1> HIDE DEF Append
  <1> QED BY AppendAt DEF Extends

\* Events and transfers that the coordinator made keep the invariant of a guest,
\* whatever the browsers are at.
FitsRoom(h, r, f, o, l, e, n, d, u, k) ==
  Fits(h, f, r.issued, r.toHost, r.transfer[h], r.toGuest[h], o, l, e, n, d, u, k)
KeepsGuest(h, r, s) ==
  \A f \in Nat, o \in Maybe(Outgoing), l \in Link, e \in Replica, n \in Native,
     d \in Packets(HostPacket), u \in Packets(HashPacket), k \in Seq(Chunk) :
    FitsRoom(h, r, f, o, l, e, n, d, u, k) => FitsRoom(h, s, f, o, l, e, n, d, u, k)
KeepsHost(r, s) ==
  /\ \A x \in Host : Stopping(r.status, r.toHost, x) => Stopping(s.status, s.toHost, x)
  /\ \A w \in Seq(Job), out \in [Guest -> Maybe(Outgoing)] :
       Owned(r.toHost, w, r.issued, out) => Owned(s.toHost, w, s.issued, out)
Safe(r, s) == Bounded(s) /\ KeepsHost(r, s) /\ \A h \in Guest : KeepsGuest(h, r, s)

\* To leave the coordinator's game alone is safe for all.
LEMMA SafeSame == \A r : Bounded(r) => Safe(r, r)
  BY DEF Safe, KeepsHost, KeepsGuest

\* So is one safe step after another.
LEMMA SafeBoth == \A r, s, v : Safe(r, s) /\ Safe(s, v) => Safe(r, v)
  BY DEF Safe, KeepsHost, KeepsGuest

\* An event that asks the host for no capture, freeze or fence.
LEMMA HostTold ==
  ASSUME NEW r \in Room, NEW s \in Room, s.issued = r.issued,
         s.status = "playing" => r.status = "playing",
         Extends(r.toHost, s.toHost),
         \A i \in DOMAIN s.toHost : i \notin DOMAIN r.toHost =>
           s.toHost[i].type \notin {"capture", "freeze", "pauseAt"}
  PROVE  KeepsHost(r, s)
BY DEF Extends, Has, Stopping, Owned, KeepsHost

\* What an operation about one transfer leaves.
After(r, s, g, t2, q2, c2) ==
  /\ s \in Room /\ s.status = r.status /\ s.issued = r.issued /\ s.owners = r.owners
  /\ s.frame = r.frame
  /\ s.toHost = q2 /\ s.transfer[g] = t2 /\ s.toGuest[g] = c2
  /\ \A h \in Guest \ {g} : s.transfer[h] = r.transfer[h] /\ s.toGuest[h] = r.toGuest[h]

\* A step for one guest keeps the invariant of every other.
LEMMA AfterBystander ==
  ASSUME NEW r \in Room, NEW s \in Room, NEW g \in Guest, NEW t2, NEW q2, NEW c2,
         After(r, s, g, t2, q2, c2), Extends(r.toHost, q2),
         \A i \in DOMAIN q2 : i \notin DOMAIN r.toHost => q2[i].guest = g,
         NEW h \in Guest, h # g
  PROVE  KeepsGuest(h, r, s)
  <1>1. /\ s.issued = r.issued /\ s.toHost = q2 /\ s.transfer[h] = r.transfer[h]
        /\ s.toGuest[h] = r.toGuest[h]
    BY DEF After
  <1>3. /\ r.issued \in Nat /\ r.toHost \in Seq(Event) /\ r.transfer[h] \in Maybe(Transfers)
        /\ r.toGuest[h] \in Seq(Event) /\ q2 \in Seq(Event)
    BY <1>1, RoomType
  <1> SUFFICES ASSUME NEW f \in Nat, NEW o \in Maybe(Outgoing), NEW l \in Link, NEW e \in Replica,
                      NEW n \in Native, NEW d \in Packets(HostPacket), NEW u \in Packets(HashPacket),
                      NEW k \in Seq(Chunk), FitsRoom(h, r, f, o, l, e, n, d, u, k)
               PROVE  FitsRoom(h, s, f, o, l, e, n, d, u, k)
    BY DEF KeepsGuest
  <1>4. Fits(h, f, r.issued, r.toHost, r.transfer[h], r.toGuest[h], o, l, e, n, d, u, k)
    BY DEF FitsRoom
  <1>5. Fits(h, f, r.issued, q2, r.transfer[h], r.toGuest[h], o, l, e, n, d, u, k)
    BY <1>3, <1>4, TellHarmless DEF Harmless, Of
  <1> QED BY <1>1, <1>5 DEF FitsRoom

\* A transfer that is given up.
LEMMA CancelAfter ==
  ASSUME NEW r \in Room, NEW g \in Guest, NEW type \in {"syncStop", "live"},
         NEW id \in Nat, NEW frame \in Nat
  PROVE  LET ev == SyncEvent(type, g, id, frame)
             s  == Tell(TellHost([r EXCEPT !.transfer[g] = None], ev), g, ev)
         IN After(r, s, g, None, Append(r.toHost, ev), Append(r.toGuest[g], ev))
  <1> DEFINE ev == SyncEvent(type, g, id, frame)
             s == Tell(TellHost([r EXCEPT !.transfer[g] = None], ev), g, ev)
  <1>1. ev \in Event BY SyncType
  <1> HIDE DEF ev
  <1>2. Append(r.toHost, ev) \in Seq(Event) /\ Append(r.toGuest[g], ev) \in Seq(Event)
    BY <1>1, RoomType, AppendAt
  <1>3. None \in Maybe(Transfers) BY DEF Maybe
  <1>4. s = [r EXCEPT !.transfer = [r.transfer EXCEPT ![g] = None],
                      !.toHost = Append(r.toHost, ev),
                      !.toGuest = [r.toGuest EXCEPT ![g] = Append(r.toGuest[g], ev)]]
    BY DEF Tell, TellHost, Room
  <1>5. [r.transfer EXCEPT ![g] = None] \in [Guest -> Maybe(Transfers)] BY <1>3, RoomType
  <1>6. [r.toGuest EXCEPT ![g] = Append(r.toGuest[g], ev)] \in [Guest -> Seq(Event)]
    BY <1>2, RoomType
  <1>7. s \in Room BY <1>2, <1>4, <1>5, <1>6 DEF Room
  <1> HIDE DEF s
  <1>9. After(r, s, g, None, Append(r.toHost, ev), Append(r.toGuest[g], ev))
    BY <1>7, <1>4, RoomType DEF After, Room
  <1> QED BY <1>9 DEF s, ev

\* To cancel a transfer is safe.
LEMMA SafeCancel ==
  ASSUME NEW r, Bounded(r), NEW g \in Guest, r.transfer[g] # None
  PROVE  Safe(r, CancelTransfer(r, g))
  <1> DEFINE id == r.transfer[g].id
             ev == SyncEvent("syncStop", g, id, 0)
             s == CancelTransfer(r, g)
  <1>1. r \in Room /\ id \in Nat BY RoomType, TransferType DEF Bounded
  <1>3. /\ ev \in Event /\ ev.type = "syncStop" /\ ev.guest = g /\ ev.id = id BY <1>1, SyncType
  <1>4. After(r, s, g, None, Append(r.toHost, ev), Append(r.toGuest[g], ev))
    BY <1>1, CancelAfter DEF CancelTransfer
  <1> HIDE DEF s, ev, id
  <1>5. Extends(r.toHost, Append(r.toHost, ev))
        /\ \A i \in DOMAIN Append(r.toHost, ev) : i \notin DOMAIN r.toHost =>
             Append(r.toHost, ev)[i] = ev
    BY <1>1, <1>3, RoomType, ExtendsAppend
  <1>6. s \in Room /\ s.issued = r.issued /\ s.status = r.status /\ s.toHost = Append(r.toHost, ev)
    BY <1>4 DEF After
  <1>7. KeepsHost(r, s) BY <1>1, <1>3, <1>5, <1>6, HostTold
  <1>8. ASSUME NEW h \in Guest, h # g PROVE KeepsGuest(h, r, s)
    BY <1>1, <1>3, <1>4, <1>5, <1>6, <1>8, AfterBystander
  <1>9. KeepsGuest(g, r, s)
    <2> SUFFICES ASSUME NEW f \in Nat, NEW o \in Maybe(Outgoing), NEW l \in Link, NEW e \in Replica,
                        NEW n \in Native, NEW d \in Packets(HostPacket),
                        NEW u \in Packets(HashPacket), NEW k \in Seq(Chunk),
                        FitsRoom(g, r, f, o, l, e, n, d, u, k)
                 PROVE  FitsRoom(g, s, f, o, l, e, n, d, u, k)
      BY DEF KeepsGuest
    <2>1. /\ r.issued \in Nat /\ r.toHost \in Seq(Event) /\ r.transfer[g] \in Maybe(Transfers)
          /\ r.toGuest[g] \in Seq(Event) /\ Append(r.toHost, ev) \in Seq(Event)
          /\ None \in Maybe(Transfers)
      BY <1>1, <1>3, RoomType, AppendAt DEF Maybe
    <2>3. Harmless(ev, g) /\ Stops(ev, g, r.transfer[g].id) BY <1>3 DEF Harmless, Of, Stops, id
    <2>4. Fits(g, f, r.issued, Append(r.toHost, ev), None, r.toGuest[g], o, l, e, n, d, u, k)
      BY <1>3, <2>1, <2>3, Close DEF FitsRoom
    <2>5. Fits(g, f, r.issued, Append(r.toHost, ev), None, Append(r.toGuest[g], ev), o, l, e, n, d,
               u, k)
      BY <1>3, <2>1, <2>4, TellGuest
    <2>6. /\ s.transfer[g] = None /\ s.toGuest[g] = Append(r.toGuest[g], ev) BY <1>4 DEF After
    <2> QED BY <1>6, <2>5, <2>6 DEF FitsRoom
  <1>10. Bounded(s) BY <1>6 DEF Bounded
  <1>11. Safe(r, s) BY <1>7, <1>8, <1>9, <1>10 DEF Safe
  <1> QED BY <1>11 DEF s

\* To stop the run is safe.
LEMMA SafeStopped ==
  ASSUME NEW r, Bounded(r)
  PROVE  Safe(r, Stopped(r))
  <1> DEFINE ev == SyncEvent("stop", None, 0, 0)
             s == Stopped(r)
  <1>1. r \in Room BY DEF Bounded
  <1>2. ev \in Event /\ ev.type = "stop" /\ ev.guest = None BY HostEventType
  <1>3. s = [r EXCEPT !.status = "failed", !.transfer = [m \in Guest |-> None],
                      !.frozen = {}, !.toHost = Append(r.toHost, ev),
                      !.toGuest = [m \in Guest |-> Append(r.toGuest[m], ev)]]
    BY DEF Stopped
  <1> HIDE DEF s, ev
  <1>4. /\ Append(r.toHost, ev) \in Seq(Event)
        /\ [m \in Guest |-> None] \in [Guest -> Maybe(Transfers)]
        /\ [m \in Guest |-> Append(r.toGuest[m], ev)] \in [Guest -> Seq(Event)]
    BY <1>1, <1>2, RoomType, AppendAt DEF Maybe
  <1>5. s \in Room BY <1>1, <1>3, <1>4 DEF Room
  <1>6. /\ s.status = "failed" /\ s.issued = r.issued /\ s.toHost = Append(r.toHost, ev)
        /\ s.transfer = [m \in Guest |-> None]
        /\ s.toGuest = [m \in Guest |-> Append(r.toGuest[m], ev)]
    BY <1>1, <1>3 DEF Room
  <1>7. Extends(r.toHost, Append(r.toHost, ev))
        /\ \A i \in DOMAIN Append(r.toHost, ev) : i \notin DOMAIN r.toHost =>
             Append(r.toHost, ev)[i] = ev
    BY <1>1, <1>2, RoomType, ExtendsAppend
  <1>8. KeepsHost(r, s)
    <2>1. s.status # "playing" /\ s.issued = r.issued /\ s.toHost = Append(r.toHost, ev) BY <1>6
    <2>2. \A i \in DOMAIN s.toHost : i \notin DOMAIN r.toHost => s.toHost[i].type = "stop"
      BY <1>2, <1>7, <2>1
    <2>3. Extends(r.toHost, s.toHost) BY <1>7, <2>1
    <2> QED BY <1>1, <1>5, <2>1, <2>2, <2>3, HostTold
  <1>9. ASSUME NEW g \in Guest PROVE KeepsGuest(g, r, s)
    <2> SUFFICES ASSUME NEW f \in Nat, NEW o \in Maybe(Outgoing), NEW l \in Link, NEW e \in Replica,
                        NEW n \in Native, NEW d \in Packets(HostPacket),
                        NEW u \in Packets(HashPacket), NEW k \in Seq(Chunk),
                        FitsRoom(g, r, f, o, l, e, n, d, u, k)
                 PROVE  FitsRoom(g, s, f, o, l, e, n, d, u, k)
      BY DEF KeepsGuest
    <2>1. /\ r.issued \in Nat /\ r.toHost \in Seq(Event) /\ r.transfer[g] \in Maybe(Transfers)
          /\ r.toGuest[g] \in Seq(Event) /\ None \in Maybe(Transfers)
      BY <1>1, RoomType DEF Maybe
    <2>3. Harmless(ev, g) /\ \A id : Stops(ev, g, id) BY <1>2 DEF Harmless, Of, Stops
    <2>4. Fits(g, f, r.issued, Append(r.toHost, ev), None, r.toGuest[g], o, l, e, n, d, u, k)
      BY <1>2, <2>1, <2>3, Close DEF FitsRoom
    <2>5. Fits(g, f, r.issued, Append(r.toHost, ev), None, Append(r.toGuest[g], ev), o, l, e, n, d,
               u, k)
      BY <1>2, <1>4, <2>1, <2>4, TellGuest
    <2> QED BY <1>6, <2>5 DEF FitsRoom
  <1>10. Bounded(s) BY <1>5, <1>6 DEF Bounded
  <1>11. Safe(r, s) BY <1>8, <1>9, <1>10 DEF Safe
  <1> QED BY <1>11 DEF s

\* To freeze the run is safe.
LEMMA SafeFreeze ==
  ASSUME NEW r, Bounded(r)
  PROVE  Safe(r, Freeze(r))
  <1> SUFFICES ASSUME r.status = "playing" PROVE Safe(r, Freeze(r)) BY SafeSame DEF Freeze
  <1> DEFINE ev == SyncEvent("freeze", None, 0, 0)
             s == Freeze(r)
             q2 == Append(r.toHost, ev)
  <1>1. r \in Room BY DEF Bounded
  <1>2. ev \in Event /\ ev.type = "freeze" /\ ev.guest = None BY HostEventType
  <1>3. s = [[r EXCEPT !.status = "pausing"] EXCEPT !.toHost = q2] BY <1>1 DEF Freeze, TellHost, Room
  <1> HIDE DEF s, ev
  <1>4. /\ q2 \in Seq(Event) /\ Len(r.toHost) \in Nat
        /\ DOMAIN q2 = DOMAIN r.toHost \cup {Len(r.toHost) + 1}
        /\ \A i \in DOMAIN r.toHost : q2[i] = r.toHost[i]
        /\ q2[Len(r.toHost) + 1] = ev
    BY <1>1, <1>2, RoomType, AppendAt
  <1>5. /\ Extends(r.toHost, q2) /\ \A i \in DOMAIN q2 : i \notin DOMAIN r.toHost => q2[i] = ev
    BY <1>1, <1>2, RoomType, ExtendsAppend
  <1> HIDE DEF q2
  <1>6. s \in Room BY <1>1, <1>3, <1>4 DEF Room
  <1>7. /\ s.status = "pausing" /\ s.issued = r.issued /\ s.toHost = q2
        /\ s.transfer = r.transfer /\ s.toGuest = r.toGuest
    BY <1>1, <1>3 DEF Room
  <1>8. KeepsHost(r, s)
    <2>1. ASSUME NEW x \in Host, Stopping(r.status, r.toHost, x)
          PROVE  Stopping(s.status, s.toHost, x)
      BY <2>1, <1>2, <1>4, <1>7 DEF Stopping, Has
    <2>2. ASSUME NEW w \in Seq(Job), NEW out \in [Guest -> Maybe(Outgoing)],
                 Owned(r.toHost, w, r.issued, out)
          PROVE  Owned(s.toHost, w, s.issued, out)
      BY <1>2, <1>4, <1>7, <2>2 DEF Owned
    <2> QED BY <2>1, <2>2 DEF KeepsHost
  <1>9. ASSUME NEW g \in Guest PROVE KeepsGuest(g, r, s)
    <2> SUFFICES ASSUME NEW f \in Nat, NEW o \in Maybe(Outgoing), NEW l \in Link, NEW e \in Replica,
                        NEW n \in Native, NEW d \in Packets(HostPacket),
                        NEW u \in Packets(HashPacket), NEW k \in Seq(Chunk),
                        FitsRoom(g, r, f, o, l, e, n, d, u, k)
                 PROVE  FitsRoom(g, s, f, o, l, e, n, d, u, k)
      BY DEF KeepsGuest
    <2>1. /\ r.issued \in Nat /\ r.toHost \in Seq(Event) /\ r.transfer[g] \in Maybe(Transfers)
          /\ r.toGuest[g] \in Seq(Event)
      BY <1>1, RoomType
    <2>3. \A i \in DOMAIN q2 : i \notin DOMAIN r.toHost => Harmless(q2[i], g)
      BY <1>2, <1>5 DEF Harmless, Of
    <2>4. Fits(g, f, r.issued, q2, r.transfer[g], r.toGuest[g], o, l, e, n, d, u, k)
      BY <1>4, <1>5, <2>1, <2>3, TellHarmless DEF FitsRoom
    <2> QED BY <1>7, <2>4 DEF FitsRoom
  <1>10. Bounded(s) BY <1>6, <1>7 DEF Bounded
  <1>11. Safe(r, s) BY <1>8, <1>9, <1>10 DEF Safe
  <1> QED BY <1>11 DEF s

\* The guests that ask and have no transfer are given one each.
LEMMA SafeEach ==
  ASSUME NEW r, Bounded(r), NEW order \in Seq(Guest),
         \A i, j \in DOMAIN order : order[i] = order[j] => i = j,
         \A i \in DOMAIN order : r.transfer[order[i]] = None
  PROVE  Safe(r, CaptureEach(r, order))
  <1> DEFINE left == MaxTransfer - r.issued
             count == IF Len(order) <= left THEN Len(order) ELSE left
             granted == 1..count
             takes(g) == {i \in granted : order[i] = g}
             given(i) == SyncEvent("capture", order[i], r.issued + i, 0)
             more == [i \in granted |-> given(i)]
             t2 == [g \in Guest |-> IF takes(g) = {} THEN r.transfer[g]
                                    ELSE Transfer(r.issued + CHOOSE i \in takes(g) : TRUE)]
             q == r.toHost
             q2 == q \o more
             s == CaptureEach(r, order)
  <1>1. /\ r \in Room /\ r.issued \in Nat /\ MaxTransfer \in Nat /\ r.issued <= MaxTransfer
        /\ q \in Seq(Event) /\ r.transfer \in [Guest -> Maybe(Transfers)]
        /\ Len(q) \in Nat /\ DOMAIN q = 1..Len(q)
    BY RoomType, TimelineAssumption DEF Bounded
  <1>2. /\ count \in Nat /\ count <= Len(order) /\ r.issued + count <= MaxTransfer
        /\ granted \subseteq DOMAIN order
    BY <1>1
  <1>3. s = [r EXCEPT !.issued = r.issued + count, !.transfer = t2, !.toHost = q2]
    BY <1>1 DEF CaptureEach, Room
  <1>4. \A i \in granted :
          /\ i \in Nat /\ 1 <= i /\ order[i] \in Guest /\ r.issued + i \in Nat
          /\ r.issued < r.issued + i /\ r.issued + i <= r.issued + count
    BY <1>1, <1>2
  <1> HIDE DEF count
  <1>5. \A i \in granted :
          /\ given(i) \in Event /\ given(i).type = "capture" /\ given(i).guest = order[i]
          /\ given(i).id = r.issued + i
    BY <1>4, SyncType
  <1> HIDE DEF given
  <1>6. /\ more \in Seq(Event) /\ Len(more) = count /\ DOMAIN more = granted
        /\ \A i \in granted : more[i] = given(i)
    BY <1>2, <1>5
  <1> HIDE DEF more
  <1>7. /\ q2 \in Seq(Event) /\ DOMAIN q2 = 1..(Len(q) + count)
        /\ \A i \in DOMAIN q : q2[i] = q[i]
        /\ \A i \in DOMAIN q2 : i \notin DOMAIN q => i - Len(q) \in granted /\ q2[i] = more[i - Len(q)]
    <2>1. /\ q2 \in Seq(Event) /\ DOMAIN q2 = 1..(Len(q) + count)
          /\ \A i \in 1..Len(q) : q2[i] = q[i]
          /\ \A i \in 1..(Len(q) + count) : i \notin 1..Len(q) => q2[i] = more[i - Len(q)]
      <3> HIDE DEF q, granted
      <3>1. q \in Seq(Event) /\ more \in Seq(Event) /\ Len(more) = count BY <1>1, <1>6
      <3> QED BY <3>1
    <2>2. \A i \in 1..(Len(q) + count) : i \notin 1..Len(q) => i - Len(q) \in granted BY <1>1, <1>2
    <2> QED BY <1>1, <2>1, <2>2
  <1> HIDE DEF q2
  <1>8. \A i \in DOMAIN q2 : i \notin DOMAIN q =>
          /\ i - Len(q) \in granted /\ i \in Nat /\ Len(q) < i
          /\ q2[i].type = "capture" /\ q2[i].guest = order[i - Len(q)]
          /\ q2[i].id = r.issued + (i - Len(q))
    <2> SUFFICES ASSUME NEW i \in DOMAIN q2, i \notin DOMAIN q
                 PROVE  /\ i - Len(q) \in granted /\ i \in Nat /\ Len(q) < i
                        /\ q2[i].type = "capture" /\ q2[i].guest = order[i - Len(q)]
                        /\ q2[i].id = r.issued + (i - Len(q))
      OBVIOUS
    <2>1. i \in Nat /\ Len(q) < i BY <1>1, <1>2, <1>7
    <2>2. i - Len(q) \in granted /\ q2[i] = given(i - Len(q)) BY <1>6, <1>7
    <2> QED BY <1>5, <2>1, <2>2
  <1>9. Extends(q, q2) BY <1>1, <1>2, <1>7, <1>8 DEF Extends
  <1>10. ASSUME NEW g \in Guest, takes(g) # {}
         PROVE  \E i \in granted : /\ order[i] = g /\ t2[g] = Transfer(r.issued + i)
                                   /\ \A j \in granted : order[j] = g => j = i
    BY <1>10, <1>2
  <1>11. \A g \in Guest : takes(g) = {} => t2[g] = r.transfer[g] OBVIOUS
  <1>12. \A g \in Guest : takes(g) = {} <=> \A i \in granted : order[i] # g OBVIOUS
  <1>13. \A id \in Nat : /\ Transfer(id) \in Transfers /\ Transfer(id).id = id
                         /\ Transfer(id).frame = None /\ ~Transfer(id).sending
                         /\ Transfer(id).boundary = None
    BY DEF Transfer, Transfers, Maybe
  <1>14. t2 \in [Guest -> Maybe(Transfers)]
    <2>1. \A g \in Guest : t2[g] \in Maybe(Transfers) BY <1>1, <1>4, <1>10, <1>11, <1>13 DEF Maybe
    <2>2. t2 = [g \in Guest |-> t2[g]] OBVIOUS
    <2> HIDE DEF t2
    <2> QED BY <2>1, <2>2
  <1> HIDE DEF t2, takes, s
  <1>15. s \in Room
    <2>1. r.issued + count \in Nat BY <1>1, <1>2
    <2> QED BY <1>1, <1>3, <1>7, <1>14, <2>1 DEF Room
  <1>16. /\ s.status = r.status /\ s.issued = r.issued + count /\ s.toHost = q2 /\ s.transfer = t2
         /\ s.toGuest = r.toGuest
    BY <1>1, <1>3 DEF Room
  <1>17. KeepsHost(r, s)
    <2>1. ASSUME NEW x \in Host, Stopping(r.status, q, x) PROVE Stopping(s.status, q2, x)
      BY <1>7, <1>8, <1>9, <1>16, <2>1 DEF Extends, Has, Stopping
    <2>2. ASSUME NEW w \in Seq(Job), NEW out \in [Guest -> Maybe(Outgoing)],
                 Owned(q, w, r.issued, out)
          PROVE  Owned(q2, w, s.issued, out)
      <3>1. /\ \A g \in Guest : out[g] # None => out[g].id \in Nat /\ out[g].id <= r.issued
            /\ \A i \in DOMAIN w : w[i].kind = "boundary" => w[i].id \in Nat /\ w[i].id <= r.issued
            /\ \A i \in DOMAIN q : q[i].type = "capture" => q[i].id \in Nat /\ q[i].id <= r.issued
        <4>1. \A g \in Guest : out[g] # None => out[g].id \in Nat BY OutgoingType
        <4>2. \A j \in Job : j.id \in Nat BY DEF Job
        <4>3. \A i \in DOMAIN w : w[i].id \in Nat BY <4>2
        <4> QED BY <1>1, <2>2, <4>1, <4>3, EventType DEF Owned
      <3>2. \A i \in DOMAIN q2 : q2[i].type = "capture" /\ i \in DOMAIN q =>
              q2[i] = q[i] /\ q2[i].id \in Nat /\ q2[i].id <= r.issued
        BY <1>7, <3>1
      <3>3. \A i \in DOMAIN q2 : i \notin DOMAIN q =>
              /\ q2[i].id \in Nat /\ r.issued < q2[i].id /\ q2[i].id <= s.issued
              /\ q2[i].id - r.issued + Len(q) = i
        BY <1>1, <1>4, <1>8, <1>16
      <3>4. s.issued \in Nat /\ r.issued <= s.issued BY <1>1, <1>2, <1>16
      <3>5. \A i, j \in DOMAIN q2 :
              q2[i].type = "capture" /\ q2[j].type = "capture" /\ q2[i].id = q2[j].id => i = j
        <4> SUFFICES ASSUME NEW i \in DOMAIN q2, NEW j \in DOMAIN q2, q2[i].type = "capture",
                            q2[j].type = "capture", q2[i].id = q2[j].id
                     PROVE  i = j
          OBVIOUS
        <4>1. CASE i \in DOMAIN q /\ j \in DOMAIN q BY <2>2, <3>2, <4>1 DEF Owned
        <4>2. CASE i \notin DOMAIN q /\ j \notin DOMAIN q BY <3>3, <4>2
        <4>3. CASE i \in DOMAIN q /\ j \notin DOMAIN q BY <1>1, <3>2, <3>3, <4>3
        <4>4. CASE i \notin DOMAIN q /\ j \in DOMAIN q BY <1>1, <3>2, <3>3, <4>4
        <4> QED BY <4>1, <4>2, <4>3, <4>4
      <3>6. \A i \in DOMAIN q2 : q2[i].type = "capture" =>
              /\ q2[i].id <= s.issued
              /\ \A g \in Guest : out[g] # None => out[g].id # q2[i].id
              /\ \A j \in DOMAIN w : ~Asks(w[j], q2[i].id)
        <4> SUFFICES ASSUME NEW i \in DOMAIN q2, q2[i].type = "capture"
                     PROVE  /\ q2[i].id <= s.issued
                            /\ \A g \in Guest : out[g] # None => out[g].id # q2[i].id
                            /\ \A j \in DOMAIN w : ~Asks(w[j], q2[i].id)
          OBVIOUS
        <4>1. CASE i \in DOMAIN q BY <1>1, <2>2, <3>2, <3>4, <4>1 DEF Owned
        <4>2. CASE i \notin DOMAIN q BY <1>1, <3>1, <3>3, <4>2 DEF Asks
        <4> QED BY <4>1, <4>2
      <3> QED BY <2>2, <3>5, <3>6, <1>1, <3>1, <3>4 DEF Owned
    <2> QED BY <1>16, <2>1, <2>2 DEF KeepsHost
  <1>18. ASSUME NEW g \in Guest PROVE KeepsGuest(g, r, s)
    <2> SUFFICES ASSUME NEW f \in Nat, NEW o \in Maybe(Outgoing), NEW l \in Link, NEW e \in Replica,
                        NEW n \in Native, NEW d \in Packets(HostPacket),
                        NEW u \in Packets(HashPacket), NEW k \in Seq(Chunk),
                        FitsRoom(g, r, f, o, l, e, n, d, u, k)
                 PROVE  FitsRoom(g, s, f, o, l, e, n, d, u, k)
      BY DEF KeepsGuest
    <2>1. /\ r.transfer[g] \in Maybe(Transfers) /\ r.toGuest[g] \in Seq(Event)
          /\ t2[g] \in Maybe(Transfers) /\ s.issued \in Nat /\ r.issued <= s.issued
      BY <1>1, <1>2, <1>14, <1>16, RoomType
    <2>2. Fits(g, f, r.issued, q, r.transfer[g], r.toGuest[g], o, l, e, n, d, u, k) BY DEF FitsRoom
    <2>3. CASE takes(g) = {}
      <3>1. \A i \in DOMAIN q2 : i \notin DOMAIN q => Harmless(q2[i], g)
        BY <1>8, <1>12, <2>3 DEF Harmless, Of
      <3>2. Fits(g, f, r.issued, q2, r.transfer[g], r.toGuest[g], o, l, e, n, d, u, k)
        BY <1>1, <1>7, <1>9, <2>1, <2>2, <3>1, TellHarmless
      <3>3. Fits(g, f, s.issued, q2, r.transfer[g], r.toGuest[g], o, l, e, n, d, u, k)
        BY <1>1, <1>7, <2>1, <3>2, Numbered
      <3> QED BY <1>11, <1>16, <2>3, <3>3 DEF FitsRoom
    <2>4. CASE takes(g) # {}
      <3>1. PICK i \in granted : /\ order[i] = g /\ t2[g] = Transfer(r.issued + i)
                                 /\ \A j \in granted : order[j] = g => j = i
        BY <1>10, <2>4
      <3>2. /\ r.issued + i \in Nat /\ r.issued < r.issued + i /\ r.issued + i <= s.issued
        BY <1>4, <1>16, <3>1
      <3>3. /\ t2[g].id = r.issued + i /\ t2[g].frame = None /\ ~t2[g].sending
            /\ t2[g].boundary = None /\ t2[g] # None
        BY <1>13, <3>1, <3>2, NoneAssumption
      <3>4. r.transfer[g] = None BY <1>2, <3>1
      <3>5. \A j \in DOMAIN q2 : j \notin DOMAIN q =>
              Harmless(q2[j], g)
                \/ (j = Len(q) + i /\ Of(q2[j], "capture", g) /\ q2[j].id = r.issued + i)
        <4> SUFFICES ASSUME NEW j \in DOMAIN q2, j \notin DOMAIN q, ~Harmless(q2[j], g)
                     PROVE  j = Len(q) + i /\ Of(q2[j], "capture", g) /\ q2[j].id = r.issued + i
          BY DEF Harmless
        <4>1. q2[j].guest = g /\ q2[j].type = "capture" BY <1>8 DEF Harmless, Of
        <4>2. j - Len(q) = i /\ j \in Nat /\ q2[j].id = r.issued + (j - Len(q)) BY <1>8, <3>1, <4>1
        <4>3. j = Len(q) + i
          <5>1. Len(q) \in Nat /\ i \in Nat /\ j \in Nat /\ j - Len(q) = i BY <1>1, <1>4, <3>1, <4>2
          <5> HIDE DEF q
          <5> QED BY <5>1
        <4> QED BY <4>1, <4>2, <4>3 DEF Of
      <3> DEFINE m == Len(q) + i
                 id == r.issued + i
      <3>6. /\ id \in Nat /\ r.issued < id /\ id <= s.issued /\ t2[g].id = id
            /\ Asking(q, q2, g, m, id)
        BY <3>2, <3>3, <3>5 DEF Asking
      <3> HIDE DEF m, id
      <3>7. /\ q \in Seq(Event) /\ q2 \in Seq(Event) /\ Extends(q, q2) /\ r.issued \in Nat
        BY <1>1, <1>7, <1>9
      <3> HIDE DEF q, granted, more, given
      <3>8. /\ t2[g] \in Maybe(Transfers) /\ t2[g] # None /\ t2[g].id = id /\ t2[g].frame = None
            /\ ~t2[g].sending /\ t2[g].boundary = None
            /\ r.transfer[g] \in Maybe(Transfers) /\ r.toGuest[g] \in Seq(Event)
            /\ s.issued \in Nat
        BY <2>1, <3>3, <3>6
      <3>9. Fits(g, f, s.issued, q2, t2[g], r.toGuest[g], o, l, e, n, d, u, k)
        BY <2>2, <3>4, <3>6, <3>7, <3>8, Granted
      <3> QED BY <1>16, <3>9 DEF FitsRoom
    <2> QED BY <2>3, <2>4
  <1>19. Bounded(s) BY <1>2, <1>15, <1>16 DEF Bounded
  <1>20. Safe(r, s) BY <1>17, <1>18, <1>19 DEF Safe
  <1> QED BY <1>20 DEF s

\* To ask for the checkpoint of one guest is safe.
LEMMA SafeCapture ==
  ASSUME NEW r, Bounded(r), NEW g \in Guest
  PROVE  Safe(r, Capture(r, g)) /\ Safe(r, Resynchronize(r, g)) /\ Safe(r, Isolate(r, g))
  <1>1. Safe(r, r) BY SafeSame
  <1>2. ASSUME r.transfer[g] = None PROVE Safe(r, CaptureEach(r, <<g>>))
    <2>1. /\ <<g>> \in Seq(Guest) /\ DOMAIN <<g>> = {1} /\ <<g>>[1] = g OBVIOUS
    <2> QED BY <2>1, <1>2, SafeEach
  <1>3. Safe(r, Capture(r, g)) BY <1>1, <1>2 DEF Capture
  <1> QED BY <1>1, <1>3 DEF Resynchronize, Isolate

\* To report that a transfer failed is safe.
LEMMA SafeFailed ==
  ASSUME NEW r, Bounded(r), NEW g \in Guest
  PROVE  Safe(r, Abort(r, g)) /\ \A id : Safe(r, CheckpointFailed(r, g, id))
BY SafeSame, SafeStopped, SafeCancel DEF Abort, CheckpointFailed, Ours

\* An operation about the transfer of a guest leaves the others alone.
Bystanders(r, s, g) ==
  Bounded(s) /\ KeepsHost(r, s) /\ \A h \in Guest \ {g} : KeepsGuest(h, r, s)

\* A step for one guest that keeps its invariant is safe for all.
LEMMA AfterSafe ==
  ASSUME NEW r, Bounded(r), NEW s, NEW g \in Guest, NEW t2, NEW c2,
         NEW ev \in Event, After(r, s, g, t2, Append(r.toHost, ev), c2), ev.guest = g,
         ev.type \notin {"capture", "freeze", "pauseAt"}
  PROVE  Bystanders(r, s, g)
  <1> DEFINE q2 == Append(r.toHost, ev)
  <1>1. r \in Room /\ r.toHost \in Seq(Event) BY RoomType DEF Bounded
  <1>2. /\ s \in Room /\ s.issued = r.issued /\ s.status = r.status /\ s.toHost = q2 BY DEF After
  <1>3. Extends(r.toHost, q2) /\ \A i \in DOMAIN q2 : i \notin DOMAIN r.toHost => q2[i] = ev
    BY <1>1, ExtendsAppend
  <1>4. After(r, s, g, t2, q2, c2) OBVIOUS
  <1> HIDE DEF q2
  <1>5. KeepsHost(r, s) BY <1>1, <1>2, <1>3, HostTold
  <1>6. ASSUME NEW h \in Guest, h # g PROVE KeepsGuest(h, r, s)
    BY <1>1, <1>2, <1>3, <1>4, <1>6, AfterBystander
  <1> QED BY <1>2, <1>5, <1>6 DEF Bystanders, Bounded

\* What a stage of a transfer is.
LEMMA StageType ==
  ASSUME NEW t \in Maybe(Transfers), t # None, NEW frame \in Nat
  PROVE  /\ [t EXCEPT !.frame = frame] \in Transfers /\ [t EXCEPT !.sending = TRUE] \in Transfers
         /\ [t EXCEPT !.catchingUp = TRUE] \in Transfers
         /\ [t EXCEPT !.boundary = frame] \in Transfers
         /\ \A x \in Transfers : x # None /\ x \in Maybe(Transfers)
         /\ [t EXCEPT !.frame = frame].id = t.id /\ [t EXCEPT !.frame = frame].frame = frame
         /\ [t EXCEPT !.frame = frame].sending = t.sending
         /\ [t EXCEPT !.frame = frame].boundary = t.boundary
         /\ [t EXCEPT !.sending = TRUE].id = t.id /\ [t EXCEPT !.sending = TRUE].frame = t.frame
         /\ [t EXCEPT !.sending = TRUE].sending
         /\ [t EXCEPT !.sending = TRUE].boundary = t.boundary
         /\ [t EXCEPT !.catchingUp = TRUE].id = t.id /\ [t EXCEPT !.catchingUp = TRUE].frame = t.frame
         /\ [t EXCEPT !.catchingUp = TRUE].sending = t.sending
         /\ [t EXCEPT !.catchingUp = TRUE].boundary = t.boundary
         /\ [t EXCEPT !.boundary = frame].id = t.id /\ [t EXCEPT !.boundary = frame].frame = t.frame
         /\ [t EXCEPT !.boundary = frame].sending = t.sending
         /\ [t EXCEPT !.boundary = frame].boundary = frame
BY NoneAssumption DEF Maybe, Transfers

\* A room that differs in one transfer and in what its guest and the host are told.
LEMMA StageAfter ==
  ASSUME NEW r \in Room, NEW s, NEW g \in Guest, NEW t2 \in Maybe(Transfers), NEW q2 \in Seq(Event),
         NEW c2 \in Seq(Event),
         s = [r EXCEPT !.transfer = [r.transfer EXCEPT ![g] = t2], !.toHost = q2,
                       !.toGuest = [r.toGuest EXCEPT ![g] = c2]]
  PROVE  After(r, s, g, t2, q2, c2)
BY RoomType DEF Room, After

\* The export of the host is announced as the checkpoint of the transfer.
LEMMA CapturedKeeps ==
  ASSUME NEW r, Bounded(r), NEW g \in Guest, NEW id \in Nat, NEW frame \in Nat
  PROVE  LET s == Captured(r, g, id, frame)
         IN /\ Bystanders(r, s, g)
            /\ \A f \in Nat, o \in Maybe(Outgoing), l \in Link, e \in Replica, n \in Native,
               d \in Packets(HostPacket), u \in Packets(HashPacket), k \in Seq(Chunk) :
              FitsRoom(g, r, f, o, l, e, n, d, u, k)
              /\ o # None /\ o.id = id /\ frame <= f => FitsRoom(g, s, f, o, l, e, n, d, u, k)
  <1> DEFINE s == Captured(r, g, id, frame)
             t == r.transfer[g]
             t2 == [t EXCEPT !.frame = frame]
             ev == SyncEvent("checkpoint", g, id, frame)
             c2 == Append(r.toGuest[g], ev)
  <1>1. r \in Room /\ t \in Maybe(Transfers) BY RoomType DEF Bounded
  <1>2. CASE ~Ours(r, g, id) \/ t.frame # None BY <1>2, SafeSame DEF Captured, Safe, Bystanders
  <1>3. CASE ~(~Ours(r, g, id) \/ t.frame # None)
    <2>1. t # None /\ t.id = id BY <1>3 DEF Ours
    <2>2. ev \in Event /\ ev.type = "checkpoint" /\ ev.guest = g /\ ev.id = id /\ ev.frame = frame
      BY SyncType
    <2>3. t2 \in Maybe(Transfers) /\ t2 # None BY <1>1, <2>1, StageType
    <2>4. Append(r.toHost, ev) \in Seq(Event) /\ c2 \in Seq(Event) BY <1>1, <2>2, RoomType, AppendAt
    <2>5. s = [r EXCEPT !.transfer = [r.transfer EXCEPT ![g] = t2], !.toHost = Append(r.toHost, ev),
                        !.toGuest = [r.toGuest EXCEPT ![g] = c2]]
      BY <1>1, <1>3, RoomType DEF Captured, Tell, TellHost, Room
    <2>6. After(r, s, g, t2, Append(r.toHost, ev), c2)
      <3> HIDE DEF s, t2, ev, c2
      <3> QED BY <1>1, <2>3, <2>4, <2>5, StageAfter
    <2>7. Bystanders(r, s, g)
      <3> HIDE DEF s, t2, ev, c2
      <3> QED BY <2>2, <2>6, AfterSafe
    <2>9. /\ t2.id = t.id /\ t2.frame = frame /\ t2.sending = t.sending /\ t2.boundary = t.boundary
          /\ frame # None /\ t.frame = None
      BY <1>1, <1>3, <2>1, StageType, NoneAssumption
    <2> HIDE DEF s, t2, ev
    <2>10. ASSUME NEW f \in Nat, NEW o \in Maybe(Outgoing), NEW l \in Link, NEW e \in Replica,
                  NEW n \in Native, NEW d \in Packets(HostPacket), NEW u \in Packets(HashPacket),
                  NEW k \in Seq(Chunk), FitsRoom(g, r, f, o, l, e, n, d, u, k),
                  o # None /\ o.id = id,
                  frame <= f
           PROVE  FitsRoom(g, s, f, o, l, e, n, d, u, k)
      <3>1. /\ r.issued \in Nat /\ r.toHost \in Seq(Event) /\ r.toGuest[g] \in Seq(Event)
        BY <1>1, RoomType
      <3>2. Fits(g, f, r.issued, r.toHost, t, r.toGuest[g], o, l, e, n, d, u, k)
        BY <2>10 DEF FitsRoom
      <3>9. Fits(g, f, r.issued, Append(r.toHost, ev), t2, c2, o, l, e, n, d, u, k)
        <4>1. Fits(g, f, r.issued, r.toHost, t2, c2, o, l, e, n, d, u, k)
          BY <1>1, <2>1, <2>2, <2>3, <2>9, <2>10, <3>1, <3>2, Staged
        <4>2. Harmless(ev, g) BY <2>2 DEF Harmless, Of
        <4>3. /\ Extends(r.toHost, Append(r.toHost, ev))
              /\ \A i \in DOMAIN Append(r.toHost, ev) : i \notin DOMAIN r.toHost =>
                   Harmless(Append(r.toHost, ev)[i], g)
          BY <2>2, <3>1, <4>2, ExtendsAppend
        <4> HIDE DEF c2
        <4> QED BY <2>3, <2>4, <3>1, <4>1, <4>3, TellHarmless
      <3> QED BY <2>6, <3>9 DEF FitsRoom, After
    <2> QED BY <2>7, <2>10 DEF s
  <1> QED BY <1>2, <1>3

\* The guest holds: the host may send the checkpoint.
LEMMA ReadyKeeps ==
  ASSUME NEW r, Bounded(r), NEW g \in Guest, NEW id \in Nat
  PROVE  LET s == CheckpointReady(r, g, id)
         IN /\ Bystanders(r, s, g)
            /\ \A f \in Nat, o \in Maybe(Outgoing), l \in Link, e \in Replica, n \in Native,
               d \in Packets(HostPacket), u \in Packets(HashPacket), k \in Seq(Chunk) :
              FitsRoom(g, r, f, o, l, e, n, d, u, k)
              /\ ~e.run /\ Takes(e, id) => FitsRoom(g, s, f, o, l, e, n, d, u, k)
  <1> DEFINE s == CheckpointReady(r, g, id)
             t == r.transfer[g]
             t2 == [t EXCEPT !.sending = TRUE]
             ev == SyncEvent("send", g, id, 0)
             c2 == r.toGuest[g]
  <1>1. r \in Room /\ t \in Maybe(Transfers) BY RoomType DEF Bounded
  <1>2. CASE ~Ours(r, g, id) \/ t.sending BY <1>2, SafeSame DEF CheckpointReady, Safe, Bystanders
  <1>3. CASE ~(~Ours(r, g, id) \/ t.sending)
    <2>1. t # None /\ t.id = id BY <1>3 DEF Ours
    <2>2. ev \in Event /\ ev.type = "send" /\ ev.guest = g /\ ev.id = id /\ ev.frame = 0 BY SyncType
    <2>3. t2 \in Maybe(Transfers) /\ t2 # None BY <1>1, <2>1, StageType
    <2>4. Append(r.toHost, ev) \in Seq(Event) /\ c2 \in Seq(Event) BY <1>1, <2>2, RoomType, AppendAt
    <2>5. s = [r EXCEPT !.transfer = [r.transfer EXCEPT ![g] = t2], !.toHost = Append(r.toHost, ev),
                        !.toGuest = [r.toGuest EXCEPT ![g] = c2]]
      BY <1>1, <1>3, RoomType DEF CheckpointReady, Tell, TellHost, Room
    <2>6. After(r, s, g, t2, Append(r.toHost, ev), c2)
      <3> HIDE DEF s, t2, ev, c2
      <3> QED BY <1>1, <2>3, <2>4, <2>5, StageAfter
    <2>7. Bystanders(r, s, g)
      <3> HIDE DEF s, t2, ev, c2
      <3> QED BY <2>2, <2>6, AfterSafe
    <2>9. /\ t2.id = t.id /\ t2.frame = t.frame /\ t2.sending /\ t2.boundary = t.boundary
          /\ ~t.sending
      BY <1>1, <1>3, <2>1, StageType
    <2> HIDE DEF s, t2, ev
    <2>10. ASSUME NEW f \in Nat, NEW o \in Maybe(Outgoing), NEW l \in Link, NEW e \in Replica,
                  NEW n \in Native, NEW d \in Packets(HostPacket), NEW u \in Packets(HashPacket),
                  NEW k \in Seq(Chunk), FitsRoom(g, r, f, o, l, e, n, d, u, k),
                  ~e.run /\ Takes(e, id)
           PROVE  FitsRoom(g, s, f, o, l, e, n, d, u, k)
      <3>1. /\ r.issued \in Nat /\ r.toHost \in Seq(Event) /\ r.toGuest[g] \in Seq(Event)
        BY <1>1, RoomType
      <3>2. Fits(g, f, r.issued, r.toHost, t, r.toGuest[g], o, l, e, n, d, u, k)
        BY <2>10 DEF FitsRoom
      <3>3. Of(ev, "send", g) BY <2>2 DEF Of
      <3>9. Fits(g, f, r.issued, Append(r.toHost, ev), t2, c2, o, l, e, n, d, u, k)
        BY <1>1, <2>1, <2>2, <2>3, <2>9, <2>10, <3>1, <3>2, <3>3, Holding
      <3> QED BY <2>6, <3>9 DEF FitsRoom, After
    <2> QED BY <2>7, <2>10 DEF s
  <1> QED BY <1>2, <1>3

\* The guest installed the checkpoint: the host is told where it catches up from.
LEMMA AckKeeps ==
  ASSUME NEW r, Bounded(r), NEW g \in Guest, NEW id \in Nat, NEW frame \in Nat
  PROVE  LET s == CheckpointAck(r, g, id, frame)
         IN /\ Bystanders(r, s, g)
            /\ \A f \in Nat, o \in Maybe(Outgoing), l \in Link, e \in Replica, n \in Native,
               d \in Packets(HostPacket), u \in Packets(HashPacket), k \in Seq(Chunk) :
              FitsRoom(g, r, f, o, l, e, n, d, u, k)
              /\ frame <= f /\ e.stream = id /\ ~l.live /\ (\A i \in DOMAIN d : d[i].stream # id) /\ (o # None /\ o.id = id => o.cursor = None) /\ (e.run => frame = e.head) /\ (\A i \in DOMAIN r.toHost : Of(r.toHost[i], "catchup", g) => r.toHost[i].id # id) => FitsRoom(g, s, f, o, l, e, n, d, u, k)
  <1> DEFINE s == CheckpointAck(r, g, id, frame)
             t == r.transfer[g]
             t2 == [t EXCEPT !.catchingUp = TRUE]
             ev == SyncEvent("catchup", g, id, frame)
             c2 == r.toGuest[g]
  <1>1. r \in Room /\ t \in Maybe(Transfers) BY RoomType DEF Bounded
  <1>2. CASE ~Ours(r, g, id) \/ t.catchingUp BY <1>2, SafeSame DEF CheckpointAck, Safe, Bystanders
  <1>3. CASE ~(~Ours(r, g, id) \/ t.catchingUp)
    <2>1. t # None /\ t.id = id BY <1>3 DEF Ours
    <2>2. ev \in Event /\ ev.type = "catchup" /\ ev.guest = g /\ ev.id = id /\ ev.frame = frame
      BY SyncType
    <2>3. t2 \in Maybe(Transfers) /\ t2 # None BY <1>1, <2>1, StageType
    <2>4. Append(r.toHost, ev) \in Seq(Event) /\ c2 \in Seq(Event) BY <1>1, <2>2, RoomType, AppendAt
    <2>5. s = [r EXCEPT !.transfer = [r.transfer EXCEPT ![g] = t2], !.toHost = Append(r.toHost, ev),
                        !.toGuest = [r.toGuest EXCEPT ![g] = c2]]
      BY <1>1, <1>3, RoomType DEF CheckpointAck, Tell, TellHost, Room
    <2>6. After(r, s, g, t2, Append(r.toHost, ev), c2)
      <3> HIDE DEF s, t2, ev, c2
      <3> QED BY <1>1, <2>3, <2>4, <2>5, StageAfter
    <2>7. Bystanders(r, s, g)
      <3> HIDE DEF s, t2, ev, c2
      <3> QED BY <2>2, <2>6, AfterSafe
    <2>9. /\ t2.id = t.id /\ t2.frame = t.frame /\ t2.sending = t.sending
          /\ t2.boundary = t.boundary
      BY <1>1, <1>3, <2>1, StageType
    <2> HIDE DEF s, t2, ev
    <2>10. ASSUME NEW f \in Nat, NEW o \in Maybe(Outgoing), NEW l \in Link, NEW e \in Replica,
                  NEW n \in Native, NEW d \in Packets(HostPacket), NEW u \in Packets(HashPacket),
                  NEW k \in Seq(Chunk), FitsRoom(g, r, f, o, l, e, n, d, u, k),
                  frame <= f /\ e.stream = id /\ ~l.live,
                  \A i \in DOMAIN d : d[i].stream # id,
                  o # None /\ o.id = id => o.cursor = None,
                  e.run => frame = e.head,
                  \A i \in DOMAIN r.toHost : Of(r.toHost[i], "catchup", g) => r.toHost[i].id # id
           PROVE  FitsRoom(g, s, f, o, l, e, n, d, u, k)
      <3>1. /\ r.issued \in Nat /\ r.toHost \in Seq(Event) /\ r.toGuest[g] \in Seq(Event)
        BY <1>1, RoomType
      <3>2. Fits(g, f, r.issued, r.toHost, t, r.toGuest[g], o, l, e, n, d, u, k)
        BY <2>10 DEF FitsRoom
      <3>3. Of(ev, "catchup", g) BY <2>2 DEF Of
      <3>9. Fits(g, f, r.issued, Append(r.toHost, ev), t2, c2, o, l, e, n, d, u, k)
        BY <1>1, <2>1, <2>2, <2>3, <2>9, <2>10, <3>1, <3>2, <3>3, Acked
      <3> QED BY <2>6, <3>9 DEF FitsRoom, After
    <2> QED BY <2>7, <2>10 DEF s
  <1> QED BY <1>2, <1>3

\* The boundary is confirmed: the transfer is over for everybody.
LEMMA ObservedKeeps ==
  ASSUME NEW r, Bounded(r), NEW g \in Guest, NEW id \in Nat, NEW frame \in Nat,
         Confirms(r, g, id, frame)
  PROVE  Safe(r, Observed(r, g, id, frame))
  <1> DEFINE s == Observed(r, g, id, frame)
             t == r.transfer[g]
             ev == SyncEvent("live", g, id, frame)
  <1>1. r \in Room /\ t \in Maybe(Transfers) BY RoomType DEF Bounded
  <1>3. ev \in Event /\ ev.type = "live" /\ ev.guest = g /\ ev.id = id /\ ev.frame = frame
    BY SyncType
  <1>4. After(r, s, g, None, Append(r.toHost, ev), Append(r.toGuest[g], ev))
    BY <1>1, CancelAfter DEF Observed
  <1> HIDE DEF s, ev
  <1>5. Bystanders(r, s, g) BY <1>3, <1>4, AfterSafe
  <1>8. KeepsGuest(g, r, s)
    <2> SUFFICES ASSUME NEW f \in Nat, NEW o \in Maybe(Outgoing), NEW l \in Link, NEW e \in Replica,
                        NEW n \in Native, NEW d \in Packets(HostPacket),
                        NEW u \in Packets(HashPacket), NEW k \in Seq(Chunk),
                        FitsRoom(g, r, f, o, l, e, n, d, u, k)
                 PROVE  FitsRoom(g, s, f, o, l, e, n, d, u, k)
      BY DEF KeepsGuest
    <2>1. /\ r.issued \in Nat /\ r.toHost \in Seq(Event) /\ r.toGuest[g] \in Seq(Event)
          /\ Append(r.toHost, ev) \in Seq(Event) /\ None \in Maybe(Transfers)
      BY <1>1, <1>3, RoomType, AppendAt DEF Maybe
    <2>2. Fits(g, f, r.issued, r.toHost, t, r.toGuest[g], o, l, e, n, d, u, k) BY DEF FitsRoom
    <2>3. Fits(g, f, r.issued, Append(r.toHost, ev), None, r.toGuest[g], o, l, e, n, d, u, k)
      BY <1>1, <1>3, NoneAssumption, <2>1, <2>2, Close DEF Confirms, Ours, Of, Harmless
    <2>4. Fits(g, f, r.issued, Append(r.toHost, ev), None, Append(r.toGuest[g], ev), o, l, e, n, d,
               u, k)
      BY <1>3, <2>1, <2>3, TellGuest
    <2> QED BY <1>4, <2>4 DEF FitsRoom, After
  <1>9. Safe(r, s) BY <1>5, <1>8 DEF Safe, Bystanders
  <1> QED BY <1>9 DEF s

\* The boundary of what the host sends is the boundary of its transfer.
LEMMA BoundaryKeeps ==
  ASSUME NEW r, Bounded(r), NEW g \in Guest, NEW f \in Nat, NEW o \in Maybe(Outgoing),
         o # None /\ o.cursor # None /\ o.boundary = None,
         NEW o2 \in Maybe(Outgoing), o2 # None /\ o2.id = o.id /\ o2.cursor = o.cursor,
         o2.frame = o.frame /\ o2.boundary = f /\ o2.marked = o.marked
  PROVE  LET s == CatchupBoundary(r, g, o.id, f)
         IN /\ Bystanders(r, s, g) /\ s.status = r.status /\ s.toHost = r.toHost
            /\ \A l \in Link, e \in Replica, n \in Native, d \in Packets(HostPacket),
                  u \in Packets(HashPacket), k \in Seq(Chunk) :
                 FitsRoom(g, r, f, o, l, e, n, d, u, k) => FitsRoom(g, s, f, o2, l, e, n, d, u, k)
  <1> DEFINE s == CatchupBoundary(r, g, o.id, f)
             t == r.transfer[g]
             t2 == IF Ours(r, g, o.id) THEN [t EXCEPT !.boundary = f] ELSE t
  <1>1. r \in Room /\ t \in Maybe(Transfers) /\ o.id \in Nat BY RoomType, OutgoingType DEF Bounded
  <1>2. t2 \in Maybe(Transfers) BY <1>1, StageType DEF Ours
  <1>3. /\ t2 = None <=> t = None
        /\ t # None => t2.id = t.id /\ t2.frame = t.frame /\ t2.sending = t.sending
        /\ t # None /\ t.id = o.id => t2.boundary = f
        /\ t # None /\ t.id # o.id => t2.boundary = t.boundary
    BY <1>1, StageType DEF Ours
  <1>4. After(r, s, g, t2, r.toHost, r.toGuest[g])
    <2>1. CASE Ours(r, g, o.id)
      <3>1. s = [r EXCEPT !.transfer = [r.transfer EXCEPT ![g] = t2]]
        BY <1>1, <2>1, RoomType DEF CatchupBoundary, Room
      <3> HIDE DEF s, t2
      <3>3. s \in Room BY <1>1, <3>1, <1>2, RoomType DEF Room
      <3> QED BY <1>1, <3>3, <3>1, RoomType DEF After, Room
    <2>2. CASE ~Ours(r, g, o.id) BY <2>2, <1>1 DEF CatchupBoundary, After
    <2> QED BY <2>1, <2>2
  <1> HIDE DEF s, t2
  <1>5. /\ s \in Room /\ s.issued = r.issued /\ s.status = r.status /\ s.toHost = r.toHost
        /\ s.transfer[g] = t2 /\ s.toGuest[g] = r.toGuest[g]
    BY <1>4 DEF After
  <1>6. ASSUME NEW h \in Guest, h # g PROVE KeepsGuest(h, r, s)
    BY <1>4, <1>6, <1>5 DEF After, KeepsGuest, FitsRoom
  <1>7. KeepsHost(r, s) BY <1>5 DEF KeepsHost
  <1>8. Bystanders(r, s, g) BY <1>5, <1>6, <1>7 DEF Bystanders, Bounded
  <1>9. ASSUME NEW l \in Link, NEW e \in Replica, NEW n \in Native, NEW d \in Packets(HostPacket),
               NEW u \in Packets(HashPacket), NEW k \in Seq(Chunk),
               FitsRoom(g, r, f, o, l, e, n, d, u, k)
        PROVE  FitsRoom(g, s, f, o2, l, e, n, d, u, k)
    <2>2. Fits(g, f, r.issued, r.toHost, t, r.toGuest[g], o, l, e, n, d, u, k) BY <1>9 DEF FitsRoom
    <2>3. Fits(g, f, r.issued, r.toHost, t2, r.toGuest[g], o2, l, e, n, d, u, k)
      <3> o # None /\ o.cursor # None /\ o.boundary = None OBVIOUS
      <3> o2 # None /\ o2.id = o.id /\ o2.cursor = o.cursor OBVIOUS
      <3> o2.frame = o.frame /\ o2.boundary = f /\ o2.marked = o.marked OBVIOUS
      <3> t2 = None <=> t = None BY <1>3
      <3> t # None => t2.id = t.id /\ t2.frame = t.frame BY <1>3
      <3> t # None => t2.sending = t.sending BY <1>3
      <3> t # None /\ t.id = o.id => t2.boundary = f BY <1>3
      <3> t # None /\ t.id # o.id => t2.boundary = t.boundary BY <1>3
      <3> t \in Maybe(Transfers) BY <1>1
      <3> HIDE DEF t
      <3> QED BY <1>2, <1>1, RoomType, <2>2, Known
    <2> QED BY <1>5, <2>3 DEF FitsRoom
  <1> QED BY <1>5, <1>8, <1>9 DEF s

\* The host froze: everybody is told where.
LEMMA FrozenKeeps ==
  ASSUME NEW r, Bounded(r), NEW frame \in Nat
  PROVE  LET s == Frozen(r, frame)
         IN /\ Bounded(s) /\ s.issued = r.issued /\ s.status = "paused"
            /\ s.toHost = Append(r.toHost, SyncEvent("pauseAt", None, 0, frame))
            /\ \A h \in Guest : KeepsGuest(h, r, s)
            /\ \A w \in Seq(Job), out \in [Guest -> Maybe(Outgoing)] :
                 Owned(r.toHost, w, r.issued, out) => Owned(s.toHost, w, s.issued, out)
  <1> DEFINE ev == SyncEvent("pauseAt", None, 0, frame)
             s == Frozen(r, frame)
             q2 == Append(r.toHost, ev)
  <1>1. r \in Room BY DEF Bounded
  <1>2. ev \in Event /\ ev.type = "pauseAt" /\ ev.guest = None BY HostEventType
  <1>3. s = [r EXCEPT !.status = "paused", !.frame = frame, !.toHost = q2,
                      !.toGuest = [m \in Guest |-> Append(r.toGuest[m], ev)]]
    BY DEF Frozen
  <1> HIDE DEF s, ev
  <1>4. /\ q2 \in Seq(Event)
        /\ [m \in Guest |-> Append(r.toGuest[m], ev)] \in [Guest -> Seq(Event)]
    BY <1>1, <1>2, RoomType, AppendAt
  <1>5. Extends(r.toHost, q2) /\ \A i \in DOMAIN q2 : i \notin DOMAIN r.toHost => q2[i] = ev
    BY <1>1, <1>2, RoomType, ExtendsAppend
  <1> HIDE DEF q2
  <1>6. s \in Room BY <1>1, <1>3, <1>4 DEF Room
  <1>7. /\ s.status = "paused" /\ s.issued = r.issued /\ s.toHost = q2
        /\ s.transfer = r.transfer /\ s.toGuest = [m \in Guest |-> Append(r.toGuest[m], ev)]
    BY <1>1, <1>3 DEF Room
  <1>8. ASSUME NEW g \in Guest PROVE KeepsGuest(g, r, s)
    <2> SUFFICES ASSUME NEW f \in Nat, NEW o \in Maybe(Outgoing), NEW l \in Link, NEW e \in Replica,
                        NEW n \in Native, NEW d \in Packets(HostPacket),
                        NEW u \in Packets(HashPacket), NEW k \in Seq(Chunk),
                        FitsRoom(g, r, f, o, l, e, n, d, u, k)
                 PROVE  FitsRoom(g, s, f, o, l, e, n, d, u, k)
      BY DEF KeepsGuest
    <2>1. /\ r.issued \in Nat /\ r.toHost \in Seq(Event) /\ r.transfer[g] \in Maybe(Transfers)
          /\ r.toGuest[g] \in Seq(Event)
      BY <1>1, RoomType
    <2>3. \A i \in DOMAIN q2 : i \notin DOMAIN r.toHost => Harmless(q2[i], g)
      BY <1>2, <1>5 DEF Harmless, Of
    <2>4. Fits(g, f, r.issued, q2, r.transfer[g], r.toGuest[g], o, l, e, n, d, u, k)
      BY <1>4, <1>5, <2>1, <2>3, TellHarmless DEF FitsRoom
    <2>5. Fits(g, f, r.issued, q2, r.transfer[g], Append(r.toGuest[g], ev), o, l, e, n, d, u, k)
      BY <1>2, <1>4, <2>1, <2>4, TellGuest
    <2> QED BY <1>7, <2>5 DEF FitsRoom
  <1>9. ASSUME NEW w \in Seq(Job), NEW out \in [Guest -> Maybe(Outgoing)],
               Owned(r.toHost, w, r.issued, out)
        PROVE  Owned(s.toHost, w, s.issued, out)
    BY <1>2, <1>5, <1>7, <1>9 DEF Owned, Extends
  <1>10. Bounded(s) BY <1>6, <1>7 DEF Bounded
  <1>11. q2 = Append(r.toHost, ev) BY DEF q2
  <1> QED BY <1>7, <1>8, <1>9, <1>10, <1>11 DEF s, ev

-----------------------------------------------------------------------------
(* What a guest does with its scheduler                                    *)

\* What the emulator answers first is what the scheduler still waits for.
LEMMA Answered ==
  ASSUME NEW g \in Guest,
         NEW f \in Nat, NEW issued \in Nat, NEW q \in Seq(Event),
         NEW t \in Maybe(Transfers), NEW c \in Seq(Event), NEW o \in Maybe(Outgoing),
         NEW l \in Link, NEW e \in Replica, NEW n \in Native, NEW d \in Packets(HostPacket),
         NEW u \in Packets(HashPacket), NEW k \in Seq(Chunk),
         Fits(g, f, issued, q, t, c, o, l, e, n, d, u, k),
         e.work # <<>>
  PROVE  LET asked == Head(e.work) IN
         /\ asked \in Job /\ asked.id \in Nat /\ Tail(e.work) \in Seq(Job)
         /\ asked.kind = "frame" => ~Awaits(Tail(e.work), "frame")
         /\ asked.kind = "frame" /\ e.run => asked.id = e.frame /\ e.frame < e.head
         /\ asked.kind = "import" /\ Takes(e, asked.id) =>
              /\ ~e.run /\ e.stream < asked.id /\ ~Awaits(Tail(e.work), "frame")
              /\ ~Late(g, asked.id, q, k, Tail(e.work))
              /\ t # None => t.id # asked.id \/ t.sending
         /\ asked.kind = "check" /\ Takes(e, asked.id) /\ e.run => e.target # None
  <1> DEFINE w == e.work
             v == Tail(w)
  <1>0. /\ Replays(f, e, n) /\ Checks(e) /\ Once(g, q, k, w) /\ Fresh(g, issued, q, t, c, e, k)
    BY DEF Fits
  <1>1. /\ w \in Seq(Job) /\ e.frame \in Nat /\ e.head \in Nat /\ e.stream \in Nat
        /\ e.incoming # None => e.incoming.id \in Nat
    BY ReplicaType
  <1>2. /\ v \in Seq(Job) /\ Head(w) \in Job /\ Head(w) = w[1] /\ 1 \in DOMAIN w
        /\ \A i \in DOMAIN w : i \in Nat /\ 1 <= i
        /\ \A i \in DOMAIN v : i \in Nat /\ i + 1 \in DOMAIN w /\ v[i] = w[i + 1] /\ i + 1 # 1
    <2>0. w # <<>> OBVIOUS
    <2> HIDE DEF w
    <2>1. /\ v \in Seq(Job) /\ Head(w) \in Job /\ Head(w) = w[1] /\ 1 \in DOMAIN w
          /\ \A i \in DOMAIN w : i \in Nat /\ 1 <= i
          /\ \A i \in DOMAIN v : i + 1 \in DOMAIN w /\ v[i] = w[i + 1]
      BY <1>1, <2>0, TailAt
    <2>2. \A i \in DOMAIN v : i \in Nat BY <2>1
    <2>3. \A i \in DOMAIN v : i \in Nat /\ i + 1 # 1
      <3> SUFFICES ASSUME NEW i \in DOMAIN v PROVE i \in Nat /\ i + 1 # 1 OBVIOUS
      <3>1. v \in Seq(Job) BY <2>1
      <3> HIDE DEF v
      <3> QED BY <3>1
    <2> QED BY <2>1, <2>2, <2>3
  <1>3. Head(w).id \in Nat BY <1>2 DEF Job
  <1>4. ASSUME Head(w).kind = "frame" PROVE ~Awaits(v, "frame")
    BY <1>0, <1>2, <1>4 DEF Replays, Awaits
  <1>5. ASSUME Head(w).kind = "frame", e.run PROVE Head(w).id = e.frame /\ e.frame < e.head
    BY <1>0, <1>2, <1>5 DEF Replays
  <1>6. ASSUME Head(w).kind = "check", Takes(e, Head(w).id), e.run PROVE e.target # None
    BY <1>0, <1>2, <1>6 DEF Checks
  <1>7. ASSUME Head(w).kind = "import", Takes(e, Head(w).id)
        PROVE  /\ ~e.run /\ e.stream < Head(w).id /\ ~Awaits(v, "frame")
               /\ ~Late(g, Head(w).id, q, k, v)
               /\ t # None => t.id # Head(w).id \/ t.sending
    <2>1. e.incoming # None /\ e.incoming.id = Head(w).id BY <1>7 DEF Takes
    <2>2. Late(g, Head(w).id, q, k, w) BY <1>2, <1>7 DEF Late
    <2>3. ~e.run /\ e.stream # Head(w).id /\ e.stream <= Head(w).id BY <1>0, <2>1, <2>2 DEF Fresh
    <2>4. e.stream < Head(w).id BY <1>1, <1>3, <2>3
    <2>5. ~Awaits(v, "frame")
      <3> SUFFICES ASSUME NEW i \in DOMAIN v, v[i].kind = "frame" PROVE FALSE BY DEF Awaits
      <3>1. i + 1 \in DOMAIN w /\ w[i + 1].kind = "frame" /\ i \in Nat BY <1>2
      <3>2. w[1].kind = "import" /\ Takes(e, w[1].id) /\ 1 \in DOMAIN w BY <1>2, <1>7
      <3>3. i + 1 < 1 BY <1>0, <3>1, <3>2 DEF Replays
      <3> QED BY <3>1, <3>3
    <2>6. ~Late(g, Head(w).id, q, k, v)
      <3>1. \A i \in DOMAIN v : v[i].kind = "import" => v[i].id # Head(w).id
        <4> SUFFICES ASSUME NEW i \in DOMAIN v, v[i].kind = "import", v[i].id = Head(w).id
                     PROVE  FALSE
          OBVIOUS
        <4> QED BY <1>0, <1>2, <1>7 DEF Once
      <3> QED BY <1>0, <1>2, <1>7, <3>1 DEF Once, Late
    <2>7. t # None => t.id # Head(w).id \/ t.sending BY <1>0, <2>2 DEF Fresh
    <2> QED BY <2>3, <2>4, <2>5, <2>6, <2>7
  <1> QED BY <1>2, <1>3, <1>4, <1>5, <1>6, <1>7

\* What ends a synchronization or the run leaves the rest of the scheduler alone.
LEMMA Given ==
  ASSUME NEW e \in Replica
  PROVE  /\ Cancelled(e) \in Replica /\ Halted(e) \in Replica /\ Cleared(e) \in Replica
         /\ \A x \in {Cancelled(e), Halted(e), Cleared(e)} :
              /\ x.frame = e.frame /\ x.head = e.head /\ x.stream = e.stream /\ x.work = e.work
              /\ x.incoming = None /\ ~x.catchingUp /\ (x.run => e.run)
         /\ Cancelled(e).run = e.run /\ ~Halted(e).run /\ ~Cleared(e).run
  <1>1. /\ Cancelled(e) \in Replica /\ Cancelled(e).run = e.run
        /\ Cancelled(e).frame = e.frame /\ Cancelled(e).head = e.head
        /\ Cancelled(e).stream = e.stream /\ Cancelled(e).work = e.work
        /\ Cancelled(e).incoming = None /\ ~Cancelled(e).catchingUp
    BY DEF Cancelled, Replica, Maybe
  <1> DEFINE x == Cancelled(e)
  <1>2. /\ Halted(e) \in Replica /\ ~Halted(e).run
        /\ Halted(e).frame = e.frame /\ Halted(e).head = e.head
        /\ Halted(e).stream = e.stream /\ Halted(e).work = e.work
        /\ Halted(e).incoming = None /\ ~Halted(e).catchingUp
    <2>1. Halted(e) = [x EXCEPT !.run = FALSE] BY DEF Halted
    <2> HIDE DEF x
    <2>2. x \in Replica BY <1>1 DEF x
    <2> QED BY <1>1, <2>1, <2>2 DEF x, Replica
  <1> DEFINE y == Halted(e)
  <1>3. /\ Cleared(e) \in Replica /\ ~Cleared(e).run
        /\ Cleared(e).frame = e.frame /\ Cleared(e).head = e.head
        /\ Cleared(e).stream = e.stream /\ Cleared(e).work = e.work
        /\ Cleared(e).incoming = None /\ ~Cleared(e).catchingUp
    <2>1. Cleared(e) = [y EXCEPT !.fence = None, !.frozen = FALSE, !.hashing = FALSE,
                                  !.asked = FALSE] BY DEF Cleared
    <2> HIDE DEF y
    <2>2. y \in Replica BY <1>2 DEF y
    <2>3. /\ Cleared(e) \in Replica /\ Cleared(e).run = y.run /\ Cleared(e).frame = y.frame
          /\ Cleared(e).head = y.head /\ Cleared(e).stream = y.stream /\ Cleared(e).work = y.work
          /\ Cleared(e).incoming = y.incoming /\ Cleared(e).catchingUp = y.catchingUp
      BY <2>1, <2>2 DEF Replica, Maybe
    <2> QED BY <1>2, <2>3 DEF y
  <1> QED BY <1>1, <1>2, <1>3

\* A guest that gives its synchronization or its run up keeps its invariant.
LEMMA GivesUp ==
  ASSUME NEW g \in Guest,
         NEW f \in Nat, NEW issued \in Nat, NEW q \in Seq(Event),
         NEW t \in Maybe(Transfers), NEW c \in Seq(Event), NEW o \in Maybe(Outgoing),
         NEW l \in Link, NEW e \in Replica, NEW n \in Native, NEW d \in Packets(HostPacket),
         NEW u \in Packets(HashPacket), NEW k \in Seq(Chunk),
         Fits(g, f, issued, q, t, c, o, l, e, n, d, u, k)
  PROVE  \A x \in {Cancelled(e), Halted(e), Cleared(e)} :
           x \in Replica /\ Fits(g, f, issued, q, t, c, o, l, x, n, d, u, k)
  <1> SUFFICES ASSUME NEW x \in {Cancelled(e), Halted(e), Cleared(e)}
               PROVE  x \in Replica /\ Fits(g, f, issued, q, t, c, o, l, x, n, d, u, k)
    OBVIOUS
  <1>1. /\ x \in Replica /\ x.frame = e.frame /\ x.head = e.head /\ x.stream = e.stream
        /\ x.work = e.work /\ x.incoming = None /\ ~x.catchingUp /\ (x.run => e.run)
    BY Given
  <1> QED BY <1>1, Rests

\* Work that says nothing of the run.
LEMMA Asked ==
  ASSUME NEW g \in Guest,
         NEW f \in Nat, NEW issued \in Nat, NEW q \in Seq(Event),
         NEW t \in Maybe(Transfers), NEW c \in Seq(Event), NEW o \in Maybe(Outgoing),
         NEW l \in Link, NEW e \in Replica, NEW n \in Native, NEW d \in Packets(HostPacket),
         NEW u \in Packets(HashPacket), NEW k \in Seq(Chunk), NEW e2 \in Replica, NEW kind,
         NEW id \in Nat,
         Fits(g, f, issued, q, t, c, o, l, e, n, d, u, k),
         kind \in {"interval", "hold", "pause", "check"},
         Alike(e, e2) /\ e2.work = e.work,
         kind = "check" => id = e.stream /\ e.target # None
  PROVE  Ask(e2, kind, id) \in Replica /\ Fits(g, f, issued, q, t, c, o, l, Ask(e2, kind, id), n, d, u, k)
  <1> DEFINE job == [kind |-> kind, id |-> id]
             x == Ask(e2, kind, id)
  <1>1. job \in Job /\ job.kind = kind /\ job.id = id BY DEF Job
  <1>2. e2.work \in Seq(Job) /\ e.stream \in Nat BY ReplicaType
  <1> HIDE DEF job
  <1>3. Append(e2.work, job) \in Seq(Job) BY <1>1, <1>2, AppendAt
  <1>4. x = [e2 EXCEPT !.work = Append(e2.work, job)] BY DEF Ask, job
  <1> HIDE DEF x
  <1>5. /\ x \in Replica /\ x.work = Append(e.work, job) /\ Alike(e, x)
    BY <1>3, <1>4 DEF Replica, Alike
  <1>6. job.kind = "check" => job.id <= e.stream BY <1>1, <1>2
  <1>8. job.kind \notin {"frame", "import"} BY <1>1
  <1>9. Fits(g, f, issued, q, t, c, o, l, x, n, d, u, k) BY <1>1, <1>5, <1>6, <1>8, Works
  <1> QED BY <1>5, <1>9 DEF x

\* Fields of a scheduler that the run does not depend on.
LEMMA Aside ==
  ASSUME NEW g \in Guest,
         NEW f \in Nat, NEW issued \in Nat, NEW q \in Seq(Event),
         NEW t \in Maybe(Transfers), NEW c \in Seq(Event), NEW o \in Maybe(Outgoing),
         NEW l \in Link, NEW e \in Replica, NEW n \in Native, NEW d \in Packets(HostPacket),
         NEW u \in Packets(HashPacket), NEW k \in Seq(Chunk), NEW e2 \in Replica,
         Fits(g, f, issued, q, t, c, o, l, e, n, d, u, k),
         Alike(e, e2) /\ e2.work = e.work
  PROVE  Fits(g, f, issued, q, t, c, o, l, e2, n, d, u, k)
  BY Rests DEF Alike

\* A guest that settles at its pause keeps its invariant.
LEMMA PauseSent ==
  ASSUME NEW g \in Guest,
         NEW f \in Nat, NEW issued \in Nat, NEW q \in Seq(Event),
         NEW t \in Maybe(Transfers), NEW c \in Seq(Event), NEW o \in Maybe(Outgoing),
         NEW l \in Link, NEW e \in Replica, NEW n \in Native, NEW d \in Packets(HostPacket),
         NEW u \in Packets(HashPacket), NEW k \in Seq(Chunk),
         Fits(g, f, issued, q, t, c, o, l, e, n, d, u, k)
  PROVE  /\ GuestFinishesPause(e) \in Replica
         /\ Fits(g, f, issued, q, t, c, o, l, GuestFinishesPause(e), n, d, u, k)
  <1>1. CASE e.pausedSent BY <1>1 DEF GuestFinishesPause
  <1>2. CASE ~e.pausedSent
    <2> DEFINE x == [e EXCEPT !.pausedSent = TRUE, !.hashing = FALSE]
    <2>1. x \in Replica /\ Alike(e, x) /\ x.work = e.work BY DEF Replica, Alike
    <2>2. GuestFinishesPause(e) = Ask(x, "pause", 0) BY <1>2 DEF GuestFinishesPause
    <2> HIDE DEF x
    <2> QED BY <2>1, <2>2, Asked
  <1> QED BY <1>1, <1>2

\* So does one that asks for the hash of a boundary.
LEMMA CatchupFinished ==
  ASSUME NEW g \in Guest,
         NEW f \in Nat, NEW issued \in Nat, NEW q \in Seq(Event),
         NEW t \in Maybe(Transfers), NEW c \in Seq(Event), NEW o \in Maybe(Outgoing),
         NEW l \in Link, NEW e \in Replica, NEW n \in Native, NEW d \in Packets(HostPacket),
         NEW u \in Packets(HashPacket), NEW k \in Seq(Chunk),
         Fits(g, f, issued, q, t, c, o, l, e, n, d, u, k)
  PROVE  FinishCatchup(e) \in Replica /\ Fits(g, f, issued, q, t, c, o, l, FinishCatchup(e), n, d, u, k)
  <1> DEFINE due == e.catchingUp /\ e.run /\ e.target = e.frame /\ ~e.hashing /\ ~e.checking
             x == [e EXCEPT !.checking = TRUE]
  <1>1. CASE ~due BY <1>1 DEF FinishCatchup
  <1>2. CASE due
    <2>1. x \in Replica /\ Alike(e, x) /\ x.work = e.work /\ x.incoming = e.incoming
      BY DEF Replica, Alike
    <2>2. FinishCatchup(e) = Ask(x, "check", e.incoming.id) BY <1>2 DEF FinishCatchup
    <2>3. e.incoming # None /\ e.incoming.id = e.stream BY <1>2 DEF Fits, Checks
    <2>4. e.incoming.id \in Nat /\ e.target # None /\ "check" \in {"interval", "hold", "pause", "check"}
      BY <1>2, <2>3, ReplicaType, NoneAssumption
    <2> HIDE DEF x
    <2>5. Ask(x, "check", e.incoming.id) \in Replica
          /\ Fits(g, f, issued, q, t, c, o, l, Ask(x, "check", e.incoming.id), n, d, u, k)
      BY <2>1, <2>3, <2>4, Asked
    <2> QED BY <2>2, <2>5
  <1> QED BY <1>1, <1>2

\* committed() of a guest.
LEMMA Committed ==
  ASSUME NEW g \in Guest,
         NEW f \in Nat, NEW issued \in Nat, NEW q \in Seq(Event),
         NEW t \in Maybe(Transfers), NEW c \in Seq(Event), NEW o \in Maybe(Outgoing),
         NEW l \in Link, NEW e \in Replica, NEW n \in Native, NEW d \in Packets(HostPacket),
         NEW u \in Packets(HashPacket), NEW k \in Seq(Chunk), NEW n2 \in Native,
         Fits(g, f, issued, q, t, c, o, l, e, n, d, u, k),
         e.run /\ e.frame < e.head,
         ~Awaits(e.work, "frame"),
         n2.at = n.at + 1 /\ n2.state = n.state
  PROVE  GuestCommit(e) \in Replica /\ Fits(g, f, issued, q, t, c, o, l, GuestCommit(e), n2, d, u, k)
  <1> DEFINE x == [e EXCEPT !.frame = e.frame + 1]
  <1>1. /\ x \in Replica /\ x.run = e.run /\ x.frame = e.frame + 1 /\ x.head = e.head
        /\ x.stream = e.stream /\ x.work = e.work /\ x.incoming = e.incoming
        /\ x.catchingUp = e.catchingUp /\ x.target = e.target
    <2>1. e.frame + 1 \in Nat BY ReplicaType
    <2> QED BY <2>1 DEF Replica
  <1> HIDE DEF x
  <1>2. Fits(g, f, issued, q, t, c, o, l, x, n2, d, u, k) BY <1>1, Advanced
  <1>3. CASE x.fence = x.frame BY <1>3, <1>1, <1>2, PauseSent DEF GuestCommit, x
  <1>4. CASE x.fence # x.frame /\ At(x.frame)
    <2> DEFINE y == [x EXCEPT !.hashing = TRUE]
    <2>1. y \in Replica /\ Alike(x, y) /\ y.work = x.work BY <1>1 DEF Replica, Alike
    <2>2. GuestCommit(e) = Ask(y, "interval", 0) BY <1>4 DEF GuestCommit, x
    <2> HIDE DEF y
    <2>3. Ask(y, "interval", 0) \in Replica
          /\ Fits(g, f, issued, q, t, c, o, l, Ask(y, "interval", 0), n2, d, u, k)
      BY <1>1, <1>2, <2>1, Asked
    <2> QED BY <2>2, <2>3
  <1>5. CASE x.fence # x.frame /\ ~At(x.frame)
    BY <1>5, <1>1, <1>2, CatchupFinished DEF GuestCommit, x
  <1> QED BY <1>3, <1>4, <1>5

\* gamePauseAt of a guest.
LEMMA Fenced ==
  ASSUME NEW g \in Guest,
         NEW f \in Nat, NEW issued \in Nat, NEW q \in Seq(Event),
         NEW t \in Maybe(Transfers), NEW c \in Seq(Event), NEW o \in Maybe(Outgoing),
         NEW l \in Link, NEW e \in Replica, NEW n \in Native, NEW d \in Packets(HostPacket),
         NEW u \in Packets(HashPacket), NEW k \in Seq(Chunk), NEW frame \in Nat,
         Fits(g, f, issued, q, t, c, o, l, e, n, d, u, k)
  PROVE  PauseAt(e, frame) \in Replica /\ Fits(g, f, issued, q, t, c, o, l, PauseAt(e, frame), n, d, u, k)
  <1> DEFINE x == [e EXCEPT !.fence = frame, !.frozen = FALSE]
  <1>1. x \in Replica /\ Alike(e, x) /\ x.work = e.work BY DEF Replica, Alike, Maybe
  <1>2. PauseAt(e, frame) = IF e.run /\ e.frame = frame THEN GuestFinishesPause(x) ELSE x
    BY DEF PauseAt
  <1> HIDE DEF x
  <1>3. Fits(g, f, issued, q, t, c, o, l, x, n, d, u, k) BY <1>1, Aside
  <1>4. GuestFinishesPause(x) \in Replica /\ Fits(g, f, issued, q, t, c, o, l, GuestFinishesPause(x), n, d, u, k)
    BY <1>1, <1>3, PauseSent
  <1> QED BY <1>1, <1>2, <1>3, <1>4

\* Nothing was sent on a stream that the guest has yet to begin.
Silent(g, q, o, l, d, id) ==
  /\ ~l.live /\ \A i \in DOMAIN d : d[i].stream # id
  /\ o # None => o.cursor = None
  /\ \A i \in DOMAIN q : Of(q[i], "catchup", g) => q[i].id # id

\* Until the guest installs the checkpoint, the host sends nothing on its stream.
LEMMA Unsent ==
  ASSUME NEW g \in Guest,
         NEW f \in Nat, NEW issued \in Nat, NEW q \in Seq(Event),
         NEW t \in Maybe(Transfers), NEW c \in Seq(Event), NEW o \in Maybe(Outgoing),
         NEW l \in Link, NEW e \in Replica, NEW n \in Native, NEW d \in Packets(HostPacket),
         NEW u \in Packets(HashPacket), NEW k \in Seq(Chunk),
         Fits(g, f, issued, q, t, c, o, l, e, n, d, u, k),
         e.incoming # None,
         e.stream < e.incoming.id
  PROVE  Silent(g, q, o, l, d, e.incoming.id)
  <1>0. Streams(g, issued, q, c, o, l, e) /\ Served(g, f, q, o, l, e, d) BY DEF Fits
  <1>1. e.incoming.id <= l.stream BY <1>0 DEF Streams
  <1>2. l.stream # e.stream BY <1>1, LinkType, ReplicaType
  <1>3. ~l.live BY <1>0, <1>2 DEF Served
  <1>4. o # None => o.cursor = None BY <1>0, <1>2 DEF Served, Streams
  <1>5. \A i \in DOMAIN d : d[i].stream # e.incoming.id BY <1>0, PacketType, ReplicaType DEF Served
  <1> QED BY <1>3, <1>4, <1>5, <1>0, EventType, ReplicaType DEF Silent, Served

-----------------------------------------------------------------------------
(* What one action leaves alone                                            *)

\* The pieces of the state that concern one guest have their types.
LEMMA Pieces ==
  ASSUME TypeOK, NEW g \in Guest
  PROVE  /\ host.frame \in Nat /\ host.work \in Seq(Job) /\ host \in Host /\ room \in Room
         /\ room.issued \in Nat /\ room.toHost \in Seq(Event)
         /\ room.transfer[g] \in Maybe(Transfers) /\ room.toGuest[g] \in Seq(Event)
         /\ outgoing[g] \in Maybe(Outgoing) /\ link[g] \in Link /\ guest[g] \in Replica
         /\ native[g] \in Native /\ down[g] \in Packets(HostPacket) /\ up[g] \in Packets(HashPacket)
         /\ chunks[g] \in Seq(Chunk)
BY RoomType DEF TypeOK, Host

\* The browsers of a guest, and what is on its way to and from it, stay as they are.
Untouched(g) ==
  /\ outgoing'[g] = outgoing[g] /\ link'[g] = link[g] /\ guest'[g] = guest[g]
  /\ native'[g] = native[g] /\ down'[g] = down[g] /\ up'[g] = up[g] /\ chunks'[g] = chunks[g]

\* What a step for one guest leaves alone.
LEMMA Rest ==
  ASSUME Inv, NEW g \in Guest, Untouched(g), host'.frame = host.frame, KeepsGuest(g, room, room')
  PROVE  FitsNow(g)'
BY Pieces DEF Inv, FitsNow, FitsRoom, KeepsGuest, Untouched

\* The type of everything the coordinator does not hold.
Typed ==
  /\ host \in Host
  /\ link \in [Guest -> Link] /\ outgoing \in [Guest -> Maybe(Outgoing)]
  /\ down \in [Guest -> Packets(HostPacket)] /\ up \in [Guest -> Packets(HashPacket)]
  /\ chunks \in [Guest -> Seq(Chunk)]
  /\ guest \in [Guest -> Replica] /\ native \in [Guest -> Native]

\* What the invariant says of the types.
LEMMA TypedNow == Inv => Typed /\ TypeOK /\ room \in Room /\ Bounded(room)
  BY DEF Inv, TypeOK, Typed

\* An action about one guest.
LEMMA Aimed ==
  ASSUME Inv, NEW g \in Guest, Typed', \A h \in Guest \ {g} : Untouched(h),
         host'.frame = host.frame, Bounded(room'),
         \A h \in Guest \ {g} : KeepsGuest(h, room, room'),
         FitsNow(g)',
         ~host'.over => Stopping(room'.status, room'.toHost, host'),
         Owned(room'.toHost, host'.work, room'.issued, outgoing')
  PROVE  Inv'
BY Rest DEF Typed, Bounded, TypeOK, Inv

\* An action on the side of a guest.
LEMMA GuestSide ==
  ASSUME Inv, NEW g \in Guest, Typed', \A h \in Guest \ {g} : Untouched(h),
         host' = host, outgoing' = outgoing, Bystanders(room, room', g), FitsNow(g)'
  PROVE  Inv'
BY Aimed DEF Inv, TypeOK, Host, Bystanders, KeepsHost

\* What is safe for all is so for those a step is not about.
LEMMA SafeBystanders == \A r, s : \A g \in Guest : Safe(r, s) => Bystanders(r, s, g)
  BY DEF Safe, Bystanders

\* What a guest does to its own scheduler and emulator, and what the coordinator
\* makes of it.
LEMMA Acts ==
  ASSUME Inv, NEW g \in Guest, NEW e \in Replica, NEW n \in Native, NEW d \in Packets(HostPacket),
         NEW u \in Packets(HashPacket), NEW k \in Seq(Chunk),
         guest' = [guest EXCEPT ![g] = e], native' = [native EXCEPT ![g] = n],
         down' = [down EXCEPT ![g] = d], up' = [up EXCEPT ![g] = u],
         chunks' = [chunks EXCEPT ![g] = k],
         host' = host, outgoing' = outgoing, link' = link, Bystanders(room, room', g),
         FitsRoom(g, room', host.frame, outgoing[g], link[g], e, n, d, u, k)
  PROVE  Inv'
  <1>1. Typed BY TypedNow
  <1>2. /\ guest' \in [Guest -> Replica] /\ guest'[g] = e
        /\ \A h \in Guest \ {g} : guest'[h] = guest[h]
    BY <1>1 DEF Typed
  <1>3. /\ native' \in [Guest -> Native] /\ native'[g] = n
        /\ \A h \in Guest \ {g} : native'[h] = native[h]
    BY <1>1 DEF Typed
  <1>4. /\ down' \in [Guest -> Packets(HostPacket)] /\ down'[g] = d
        /\ \A h \in Guest \ {g} : down'[h] = down[h]
    BY <1>1 DEF Typed
  <1>5. /\ up' \in [Guest -> Packets(HashPacket)] /\ up'[g] = u
        /\ \A h \in Guest \ {g} : up'[h] = up[h]
    BY <1>1 DEF Typed
  <1>6. /\ chunks' \in [Guest -> Seq(Chunk)] /\ chunks'[g] = k
        /\ \A h \in Guest \ {g} : chunks'[h] = chunks[h]
    BY <1>1 DEF Typed
  <1>7. Typed' BY <1>1, <1>2, <1>3, <1>4, <1>5, <1>6 DEF Typed
  <1>8. \A h \in Guest \ {g} : Untouched(h) BY <1>2, <1>3, <1>4, <1>5, <1>6 DEF Untouched
  <1>9. FitsNow(g)' BY <1>2, <1>3, <1>4, <1>5, <1>6 DEF FitsNow, FitsRoom
  <1> QED BY <1>7, <1>8, <1>9, GuestSide

\* What an action does not change is set to what it is.
LEMMA Same ==
  ASSUME Inv, NEW g \in Guest
  PROVE  /\ guest = [guest EXCEPT ![g] = guest[g]] /\ native = [native EXCEPT ![g] = native[g]]
         /\ down = [down EXCEPT ![g] = down[g]] /\ up = [up EXCEPT ![g] = up[g]]
         /\ chunks = [chunks EXCEPT ![g] = chunks[g]] /\ link = [link EXCEPT ![g] = link[g]]
         /\ outgoing = [outgoing EXCEPT ![g] = outgoing[g]]
  BY TypedNow DEF Typed

\* The invariant of a guest, read against the coordinator's game.
LEMMA FitsHere ==
  ASSUME Inv, NEW g \in Guest
  PROVE  FitsRoom(g, room, host.frame, outgoing[g], link[g], guest[g], native[g], down[g], up[g],
                  chunks[g])
  BY DEF Inv, FitsNow, FitsRoom

-----------------------------------------------------------------------------
(* The actions of a guest                                                  *)

\* Everything but the scheduler of the guest and the coordinator's game.
Around(g, n, d, u, k) ==
  /\ native' = [native EXCEPT ![g] = n] /\ down' = [down EXCEPT ![g] = d]
  /\ up' = [up EXCEPT ![g] = u] /\ chunks' = [chunks EXCEPT ![g] = k]
  /\ host' = host /\ outgoing' = outgoing /\ link' = link

\* A guest's step that leaves the coordinator alone keeps the invariant.
LEMMA Sets ==
  ASSUME Inv, NEW g \in Guest, NEW e \in Replica, NEW n \in Native, NEW d \in Packets(HostPacket),
         NEW u \in Packets(HashPacket), NEW k \in Seq(Chunk), Around(g, n, d, u, k),
         FitsRoom(g, room, host.frame, outgoing[g], link[g], e, n, d, u, k),
         SetGuest(g, e), room' = room
  PROVE  Inv'
BY TypedNow, SafeSame, SafeBystanders, Acts DEF Around, SetGuest

\* The coordinator's game goes on in a way that keeps the invariant of everybody.
LEMMA SetsSafe ==
  ASSUME Inv, NEW g \in Guest, NEW e \in Replica, NEW n \in Native, NEW d \in Packets(HostPacket),
         NEW u \in Packets(HashPacket), NEW k \in Seq(Chunk), Around(g, n, d, u, k),
         FitsRoom(g, room, host.frame, outgoing[g], link[g], e, n, d, u, k),
         SetGuest(g, e), Safe(room, room')
  PROVE  Inv'
BY SafeBystanders, TypedNow, Pieces, Acts DEF Safe, KeepsGuest, Around, SetGuest

\* What a guest gives up leaves an invariant of it.
LEMMA Halts ==
  ASSUME Inv, NEW g \in Guest, NEW e \in Replica, NEW n \in Native, NEW d \in Packets(HostPacket),
         NEW u \in Packets(HashPacket), NEW k \in Seq(Chunk), Around(g, n, d, u, k),
         FitsRoom(g, room, host.frame, outgoing[g], link[g], e, n, d, u, k)
  PROVE  \A x \in {Cancelled(e), Halted(e), Cleared(e)} :
           x \in Replica /\ FitsRoom(g, room, host.frame, outgoing[g], link[g], x, n, d, u, k)
  <1>1. TypeOK BY TypedNow
  <1>3. Fits(g, host.frame, room.issued, room.toHost, room.transfer[g], room.toGuest[g],
             outgoing[g], link[g], e, n, d, u, k)
    BY DEF FitsRoom
  <1>4. ASSUME NEW x \in {Cancelled(e), Halted(e), Cleared(e)}
        PROVE  x \in Replica /\ FitsRoom(g, room, host.frame, outgoing[g], link[g], x, n, d, u, k)
    <2>1. /\ x \in Replica /\ x.frame = e.frame /\ x.head = e.head /\ x.stream = e.stream
          /\ x.work = e.work /\ x.incoming = None /\ ~x.catchingUp /\ (x.run => e.run)
      BY Given
    <2> QED BY <1>1, Pieces, <1>3, <2>1, Rests DEF FitsRoom
  <1> QED BY <1>4

\* The guest gives its synchronization up.
LEMMA FailsIncoming ==
  ASSUME Inv, NEW g \in Guest, NEW e \in Replica, NEW n \in Native, NEW d \in Packets(HostPacket),
         NEW u \in Packets(HashPacket), NEW k \in Seq(Chunk), Around(g, n, d, u, k),
         FitsRoom(g, room, host.frame, outgoing[g], link[g], e, n, d, u, k),
         FailIncoming(g, e)
  PROVE  Inv'
BY Halts, TypedNow, SafeFailed, SetsSafe DEF FailIncoming

\* The guest gives its synchronization or its run up.
LEMMA Fails ==
  ASSUME Inv, NEW g \in Guest, NEW e \in Replica, NEW n \in Native, NEW d \in Packets(HostPacket),
         NEW u \in Packets(HashPacket), NEW k \in Seq(Chunk), Around(g, n, d, u, k),
         FitsRoom(g, room, host.frame, outgoing[g], link[g], e, n, d, u, k),
         Fail(g, e)
  PROVE  Inv'
BY FailsIncoming, Halts, TypedNow, SafeFailed, SetsSafe DEF Fail

\* The guest asks its emulator for the next frame.
LEMMA AskedFrame ==
  ASSUME NEW g \in Guest,
         NEW f \in Nat, NEW issued \in Nat, NEW q \in Seq(Event),
         NEW t \in Maybe(Transfers), NEW c \in Seq(Event), NEW o \in Maybe(Outgoing),
         NEW l \in Link, NEW e \in Replica, NEW n \in Native, NEW d \in Packets(HostPacket),
         NEW u \in Packets(HashPacket), NEW k \in Seq(Chunk),
         Fits(g, f, issued, q, t, c, o, l, e, n, d, u, k),
         e.run /\ e.frame < e.head,
         ~Awaits(e.work, "frame")
  PROVE  Ask(e, "frame", e.frame) \in Replica /\ Fits(g, f, issued, q, t, c, o, l, Ask(e, "frame", e.frame), n, d, u, k)
  <1> DEFINE job == [kind |-> "frame", id |-> e.frame]
             x == Ask(e, "frame", e.frame)
  <1>1. job \in Job /\ job.kind = "frame" /\ job.id = e.frame /\ e.work \in Seq(Job)
    BY ReplicaType DEF Job
  <1>2. x = [e EXCEPT !.work = Append(e.work, job)] BY DEF Ask
  <1> HIDE DEF job, x
  <1>3. Append(e.work, job) \in Seq(Job) BY <1>1, AppendAt
  <1>4. x \in Replica /\ x.work = Append(e.work, job) /\ Alike(e, x)
    BY <1>2, <1>3 DEF Replica, Alike
  <1>5. Fits(g, f, issued, q, t, c, o, l, x, n, d, u, k) BY <1>1, <1>4, Runs
  <1> QED BY <1>4, <1>5 DEF x

\* The pieces of a guest, for the actions that leave its channels alone.
LEMMA Here ==
  ASSUME Inv, NEW g \in Guest
  PROVE  /\ guest[g] \in Replica /\ native[g] \in Native /\ down[g] \in Packets(HostPacket)
         /\ up[g] \in Packets(HashPacket) /\ chunks[g] \in Seq(Chunk)
         /\ host' = host /\ outgoing' = outgoing /\ link' = link /\ native' = native /\ down' = down
              /\ up' = up /\ chunks' = chunks
            => Around(g, native[g], down[g], up[g], chunks[g])
         /\ FitsRoom(g, room, host.frame, outgoing[g], link[g], guest[g], native[g], down[g],
                     up[g], chunks[g])
BY TypedNow, Pieces, Same, FitsHere DEF Around

\* The guest runs the next frame or settles.
LEMMA GuestDispatchKeeps ==
  ASSUME Inv, NEW g \in Guest, GuestDispatch(g)
  PROVE  Inv'
  <1> DEFINE e == guest[g]
  <1>0. TypeOK BY TypedNow
  <1>1. e \in Replica /\ Around(g, native[g], down[g], up[g], chunks[g]) /\ room' = room
    BY Here DEF GuestDispatch
  <1>2. /\ FitsRoom(g, room, host.frame, outgoing[g], link[g], e, native[g], down[g], up[g],
                  chunks[g])
        /\ native[g] \in Native /\ down[g] \in Packets(HostPacket)
        /\ up[g] \in Packets(HashPacket) /\ chunks[g] \in Seq(Chunk)
    BY Here
  <1>3. CASE SetGuest(g, GuestFinishesPause(e))
    BY <1>0, <1>2, Pieces, PauseSent, <1>1, <1>3, Sets DEF FitsRoom
  <1>4. CASE SetGuest(g, Ask(e, "frame", e.frame)) /\ e.run /\ e.frame < e.head /\ ~Awaits(e.work, "frame")
    BY <1>0, <1>2, <1>4, Pieces, AskedFrame, <1>1, Sets DEF FitsRoom
  <1> QED BY <1>3, <1>4 DEF GuestDispatch

\* The guest receives a checkpoint.
LEMMA GuestChunksKeeps ==
  ASSUME Inv, NEW g \in Guest, GuestChunks(g)
  PROVE  Inv'
  <1> DEFINE e == guest[g]
             k == chunks[g]
             id == Head(k).id
             x == Ask(e, "import", id)
  <1>0. TypeOK BY TypedNow
  <1>1. /\ e \in Replica /\ k \in Seq(Chunk) /\ k # <<>> /\ Tail(k) \in Seq(Chunk) /\ id \in Nat
        /\ native[g] \in Native /\ down[g] \in Packets(HostPacket) /\ up[g] \in Packets(HashPacket)
    <2>1. e \in Replica /\ k \in Seq(Chunk) BY Here
    <2>2. k # <<>> BY DEF GuestChunks
    <2>3. Tail(k) \in Seq(Chunk) /\ Head(k) \in Chunk BY <2>1, <2>2, TailAt
    <2>4. id \in Nat BY <2>3 DEF Chunk
    <2> QED BY <2>1, <2>2, <2>3, <2>4, Here
  <1>2. Around(g, native[g], down[g], up[g], Tail(k)) /\ room' = room BY Same DEF GuestChunks, Around
  <1>3. FitsRoom(g, room, host.frame, outgoing[g], link[g], e, native[g], down[g], up[g], k) BY Here
  <1>4. CASE Takes(e, id)
    <2> DEFINE job == [kind |-> "import", id |-> id]
    <2>1. job \in Job /\ job.kind = "import" /\ job.id = Head(k).id BY <1>1 DEF Job
    <2>2. x = [e EXCEPT !.work = Append(e.work, job)] BY DEF Ask
    <2>3. SetGuest(g, x) BY <1>4 DEF GuestChunks
    <2> HIDE DEF job, x, e, k
    <2>4. x \in Replica /\ x.work = Append(e.work, job) /\ Alike(e, x)
      BY <1>1, <2>1, ReplicaType, AppendAt, <2>2 DEF Replica, Alike
    <2>5. Takes(e, job.id) BY <1>4, <2>1
    <2>6. FitsRoom(g, room, host.frame, outgoing[g], link[g], x, native[g], down[g], up[g],
                   Tail(k))
      BY <1>3, <1>0, <1>1, <2>1, <2>4, <2>5, Pieces, Imported DEF FitsRoom
    <2> QED BY <1>1, <1>2, <2>3, <2>4, <2>6, Sets
  <1>5. CASE ~Takes(e, id)
    BY <1>0, <1>1, <1>3, Pieces, ChunkRead, <1>5, <1>2, Sets DEF FitsRoom, GuestChunks
  <1> QED BY <1>4, <1>5

\* A member begins to watch.
LEMMA ObserveKeeps ==
  ASSUME Inv, NEW g \in Guest, Observe(g)
  PROVE  Inv'
BY TypedNow, SafeCapture, Here, Same, SetsSafe DEF Observe, SetGuest

\* A transfer runs out of time.
LEMMA ExpireKeeps ==
  ASSUME Inv, NEW g \in Guest, Expire(g)
  PROVE  Inv'
BY TypedNow, SafeCancel, Here, Same, SetsSafe DEF Expire, SetGuest

\* A guest that plays pauses.
LEMMA GuestPauseKeeps ==
  ASSUME Inv, NEW g \in Guest, GuestPause(g)
  PROVE  Inv'
  <1> DEFINE e == guest[g]
             x == [e EXCEPT !.frozen = TRUE]
  <1>0. TypeOK BY TypedNow
  <1>1. Safe(room, room') BY TypedNow, SafeFreeze DEF GuestPause
  <1>2. Around(g, native[g], down[g], up[g], chunks[g]) BY Here DEF GuestPause
  <1>3. SetGuest(g, x) BY DEF GuestPause
  <1>4. e \in Replica /\ x \in Replica /\ Alike(e, x) /\ x.work = e.work BY Here DEF Replica, Alike
  <1> HIDE DEF x
  <1>5. FitsRoom(g, room, host.frame, outgoing[g], link[g], x, native[g], down[g], up[g],
                 chunks[g])
    BY <1>0, <1>4, Here, Pieces, Aside DEF FitsRoom
  <1> QED BY <1>1, <1>2, <1>3, <1>4, <1>5, Here, SetsSafe

\* A guest runs out of patience.
LEMMA GiveUpKeeps ==
  ASSUME Inv, NEW g \in Guest, GiveUp(g)
  PROVE  Inv'
BY Here, Fails DEF GiveUp

\* To ask for the frozen state is safe for all.
LEMMA SafeObserved ==
  ASSUME NEW r, Bounded(r), NEW g \in Guest
  PROVE  Safe(r, ObserveFrozen(r, g))
  <1> DEFINE s == [r EXCEPT !.frozen = @ \cup {g}]
  <1>1. r \in Room BY DEF Bounded
  <1>2. /\ s \in Room /\ s.status = r.status /\ s.issued = r.issued /\ s.toHost = r.toHost
        /\ s.transfer = r.transfer /\ s.toGuest = r.toGuest
    BY <1>1 DEF Room
  <1>3. ObserveFrozen(r, g) = r \/ ObserveFrozen(r, g) = s BY DEF ObserveFrozen
  <1> HIDE DEF s
  <1>4. Safe(r, s) BY <1>2 DEF Bounded, Safe, KeepsHost, KeepsGuest, FitsRoom
  <1> QED BY <1>3, <1>4, SafeSame

\* A guest that asked keeps its run.
LEMMA AskedIs ==
  ASSUME NEW e \in Replica
  PROVE  LET x == [e EXCEPT !.asked = TRUE] IN
         x \in Replica /\ Alike(e, x) /\ x.work = e.work /\ x.run = e.run
BY DEF Replica, Alike

\* A guest asks for the frozen state.
LEMMA AskFrozenKeeps ==
  ASSUME Inv, NEW g \in Guest, AskFrozen(g)
  PROVE  Inv'
  <1> DEFINE e == guest[g]
             x == [e EXCEPT !.asked = TRUE]
  <1>0. TypeOK BY TypedNow
  <1>1. Around(g, native[g], down[g], up[g], chunks[g]) BY Here DEF AskFrozen
  <1>2. Fail(g, x) \/ (SetGuest(g, x) /\ room' = ObserveFrozen(room, g)) BY DEF AskFrozen
  <1>3. e \in Replica /\ x \in Replica /\ Alike(e, x) /\ x.work = e.work BY Here, AskedIs
  <1> HIDE DEF x
  <1>4. FitsRoom(g, room, host.frame, outgoing[g], link[g], x, native[g], down[g], up[g],
                 chunks[g])
    BY <1>0, <1>3, Here, Pieces, Aside DEF FitsRoom
  <1>5. Safe(room, ObserveFrozen(room, g)) BY TypedNow, SafeObserved
  <1> QED BY <1>1, <1>2, <1>3, <1>4, <1>5, Here, Fails, SetsSafe

\* The frozen state comes, or the game is stopped.
LEMMA FrozenTransferKeeps ==
  ASSUME Inv, NEW g \in Guest, FrozenTransfer(g)
  PROVE  Inv'
  <1>1. CASE SetGuest(g, Halted(guest[g])) /\ room' = room
    BY <1>1, Here, Halts, Sets DEF FrozenTransfer
  <1>2. CASE room' = Stopped(room) /\ guest' = guest
    BY <1>2, TypedNow, SafeStopped, Here, Same, SetsSafe DEF FrozenTransfer, SetGuest
  <1> QED BY <1>1, <1>2 DEF FrozenTransfer

\* An emulator strays.
LEMMA StrayKeeps ==
  ASSUME Inv, NEW g \in Guest, Stray(g)
  PROVE  Inv'
  <1> DEFINE n == native[g]
             n2 == [n EXCEPT !.state = "strayed"]
  <1>0. TypeOK BY TypedNow
  <1>1. n \in Native /\ n2 \in Native /\ n2.at = n.at /\ n2.state # "agrees" BY Here DEF Native
  <1>2. native' = [native EXCEPT ![g] = n2] BY DEF Stray
  <1> HIDE DEF n2
  <1>3. Around(g, n2, down[g], up[g], chunks[g]) /\ room' = room BY <1>2, Same DEF Stray, Around
  <1>4. SetGuest(g, guest[g]) BY Same DEF Stray, SetGuest
  <1>5. FitsRoom(g, room, host.frame, outgoing[g], link[g], guest[g], n2, down[g], up[g],
                 chunks[g])
    BY <1>0, <1>1, Here, Pieces, Strays DEF FitsRoom
  <1> QED BY <1>1, <1>3, <1>4, <1>5, Here, Sets

\* The guest reads an event.
LEMMA GuestEventKeeps ==
  ASSUME Inv, NEW g \in Guest, GuestEvent(g)
  PROVE  Inv'
  <1> DEFINE c == room.toGuest[g]
             e == guest[g]
             ev == Head(c)
             y == [Cancelled(e) EXCEPT !.incoming = [id |-> ev.id, frame |-> ev.frame],
                                       !.frozen = TRUE]
  <1>0. TypeOK /\ Bounded(room) BY TypedNow
  <1>1. /\ c \in Seq(Event) /\ c # <<>> /\ Tail(c) \in Seq(Event) /\ ev \in Event
        /\ ev.id \in Nat /\ ev.frame \in Nat
    <2>1. c \in Seq(Event) BY <1>0, Pieces
    <2>2. c # <<>> BY DEF GuestEvent
    <2>3. Tail(c) \in Seq(Event) /\ ev \in Event BY <2>1, <2>2, TailAt
    <2>4. ev.id \in Nat /\ ev.frame \in Nat BY <2>3 DEF Event
    <2> QED BY <2>1, <2>2, <2>3, <2>4
  <1>2. /\ room' = [room EXCEPT !.toGuest = [room.toGuest EXCEPT ![g] = Tail(c)]]
        /\ Around(g, native[g], down[g], up[g], chunks[g])
    BY Here DEF GuestEvent
  <1>3. /\ After(room, room', g, room.transfer[g], room.toHost, Tail(c))
        /\ room'.toHost = room.toHost /\ room'.issued = room.issued
        /\ room'.transfer[g] = room.transfer[g] /\ room'.toGuest[g] = Tail(c)
        /\ room'.status = room.status
    BY <1>0, Pieces, RoomType, <1>2, <1>1, StageAfter DEF Room, After
  <1>4. Bystanders(room, room', g)
    <2>1. ASSUME NEW h \in Guest \ {g} PROVE KeepsGuest(h, room, room')
      BY <1>3 DEF After, KeepsGuest, FitsRoom
    <2>2. KeepsHost(room, room') BY <1>3 DEF KeepsHost
    <2>3. Bounded(room') BY <1>0, <1>3 DEF Bounded, After
    <2> QED BY <2>1, <2>2, <2>3 DEF Bystanders
  <1> DEFINE Good(x) == /\ x \in Replica
                        /\ Fits(g, host.frame, room.issued, room.toHost, room.transfer[g], Tail(c),
                                outgoing[g], link[g], x, native[g], down[g], up[g], chunks[g])
  <1>5. /\ Fits(g, host.frame, room.issued, room.toHost, room.transfer[g], c,
                outgoing[g], link[g], e, native[g], down[g], up[g], chunks[g])
        /\ e \in Replica
    BY Here DEF FitsRoom
  <1> HIDE DEF e, c, ev
  <1>6. Good(e) BY <1>0, <1>1, <1>5, Pieces, GuestReads
  <1>7. CASE ev.type = "checkpoint"
    <2>1. SetGuest(g, Ask(y, "hold", ev.id)) BY <1>7 DEF GuestEvent, e, c, ev
    <2>2. /\ y \in Replica /\ y.run = e.run /\ y.frame = e.frame /\ y.head = e.head
          /\ y.stream = e.stream /\ y.work = e.work
          /\ y.incoming = [id |-> ev.id, frame |-> ev.frame] /\ ~y.catchingUp
      <3> DEFINE x == Cancelled(e)
                 ch == [id |-> ev.id, frame |-> ev.frame]
      <3>1. /\ x \in Replica /\ x.run = e.run /\ x.frame = e.frame /\ x.head = e.head
            /\ x.stream = e.stream /\ x.work = e.work /\ ~x.catchingUp
        BY <1>5, Given
      <3>2. ch \in Maybe(Chunk) BY <1>1 DEF Chunk, Maybe
      <3>3. y = [x EXCEPT !.incoming = ch, !.frozen = TRUE] OBVIOUS
      <3> HIDE DEF x, y, ch
      <3> QED BY <3>1, <3>2, <3>3 DEF ch, Replica
    <2> HIDE DEF y
    <2>3. Good(y) BY <1>0, <1>1, <1>5, <1>7, <2>2, Pieces, Begun DEF ev
    <2>4. Good(Ask(y, "hold", ev.id)) BY <1>0, <1>1, <2>3, Pieces, Asked DEF Alike
    <2>5. FitsRoom(g, room', host.frame, outgoing[g], link[g], Ask(y, "hold", ev.id), native[g],
                   down[g], up[g], chunks[g])
      BY <1>3, <2>4 DEF FitsRoom
    <2> QED BY <1>2, <1>4, <2>1, <2>4, <2>5, Here, Acts DEF Around, SetGuest
  <1> DEFINE CaseOf(x) == SetGuest(g, x) /\ Good(x)
  <1>8. CASE ev.type # "checkpoint"
    <2>2. Good(Halted(e)) /\ Good(Cancelled(e)) /\ Good(Cleared(e))
      BY <1>0, <1>1, <1>6, Pieces, GivesUp
    <2>3. Good(PauseAt(e, ev.frame)) BY <1>0, <1>1, <1>6, Pieces, Fenced
    <2>4. PICK x : SetGuest(g, x) /\ Good(x) BY <1>6, <1>8, <2>2, <2>3 DEF GuestEvent, e, c, ev
    <2>5. FitsRoom(g, room', host.frame, outgoing[g], link[g], x, native[g], down[g], up[g],
                   chunks[g])
      BY <1>3, <2>4 DEF FitsRoom
    <2> QED BY <1>2, <1>4, <2>4, <2>5, Here, Acts DEF Around, SetGuest
  <1> QED BY <1>7, <1>8

\* A guest that fails, once what it read is gone.
LEMMA FailsReading ==
  ASSUME Inv, NEW g \in Guest, NEW e \in Replica, NEW n \in Native, NEW d \in Packets(HostPacket),
         NEW u \in Packets(HashPacket), NEW k \in Seq(Chunk), d # <<>>, Around(g, n, Tail(d), u, k),
         FitsRoom(g, room, host.frame, outgoing[g], link[g], e, n, d, u, k),
         Fail(g, e)
  PROVE  Inv'
  <1>0. /\ host.frame \in Nat /\ room.issued \in Nat /\ room.toHost \in Seq(Event)
        /\ room.transfer[g] \in Maybe(Transfers) /\ room.toGuest[g] \in Seq(Event)
        /\ outgoing[g] \in Maybe(Outgoing) /\ link[g] \in Link
    BY TypedNow, Pieces
  <1>1. Tail(d) \in Packets(HostPacket) BY PacketTail
  <1>3. ASSUME NEW x \in {Halted(e), Cleared(e)}
        PROVE  x \in Replica /\ FitsRoom(g, room, host.frame, outgoing[g], link[g], x, n, Tail(d), u, k)
    <2>1. /\ x \in Replica /\ x.frame = e.frame /\ x.head = e.head /\ x.stream = e.stream
          /\ x.work = e.work /\ x.incoming = None /\ ~x.catchingUp /\ ~x.run
      BY Given
    <2>2. Fits(g, host.frame, room.issued, room.toHost, room.transfer[g], room.toGuest[g],
               outgoing[g], link[g], x, n, d, u, k)
      BY <1>0, <2>1, Rests DEF FitsRoom
    <2> QED BY <2>1, <1>0, <2>2, PacketRead DEF FitsRoom
  <1>4. CASE e.incoming # None
    BY TypedNow, SafeFailed, <1>4, <1>1, <1>3, SetsSafe DEF Fail, FailIncoming
  <1>5. CASE e.incoming = None BY TypedNow, SafeFailed, <1>5, <1>1, <1>3, SetsSafe DEF Fail
  <1> QED BY <1>4, <1>5

\* The guest reads a packet.
LEMMA GuestReceiveKeeps ==
  ASSUME Inv, NEW g \in Guest, GuestReceive(g)
  PROVE  Inv'
  <1> DEFINE e == guest[g]
             d == down[g]
             p == Head(d).p
  <1>0. /\ host.frame \in Nat /\ room.issued \in Nat /\ room.toHost \in Seq(Event)
        /\ room.transfer[g] \in Maybe(Transfers) /\ room.toGuest[g] \in Seq(Event)
        /\ outgoing[g] \in Maybe(Outgoing) /\ link[g] \in Link
    BY TypedNow, Pieces
  <1>1. /\ e \in Replica /\ native[g] \in Native /\ d \in Packets(HostPacket) /\ d # <<>>
        /\ up[g] \in Packets(HashPacket) /\ chunks[g] \in Seq(Chunk)
        /\ Tail(d) \in Packets(HostPacket)
    BY Here, PacketTail DEF GuestReceive
  <1>2. p.frame \in Nat /\ p.kind \in {"live", "frame", "hash"}
    BY <1>1, PacketTail DEF IsPacket, HostPacket, HashPacket
  <1>3. Around(g, native[g], Tail(d), up[g], chunks[g]) BY Same DEF GuestReceive, Around
  <1>4. FitsRoom(g, room, host.frame, outgoing[g], link[g], e,
                 native[g], d, up[g], chunks[g]) BY Here
  <1>5. Fits(g, host.frame, room.issued, room.toHost, room.transfer[g], room.toGuest[g],
             outgoing[g], link[g], e, native[g], d, up[g], chunks[g])
    BY <1>4 DEF FitsRoom
  <1> DEFINE Good(x) == /\ x \in Replica
                        /\ Fits(g, host.frame, room.issued, room.toHost, room.transfer[g],
                                room.toGuest[g], outgoing[g], link[g], x, native[g], Tail(d), up[g],
                                chunks[g])
  <1>6. ASSUME NEW x, Good(x), SetGuest(g, x), room' = room PROVE Inv'
    BY <1>6, <1>1, <1>3, Sets DEF FitsRoom
  <1>7. ASSUME Fail(g, e) PROVE Inv' BY <1>1, <1>3, <1>4, <1>7, FailsReading
  <1>8. ASSUME ~e.run \/ Head(d).stream # e.stream \/ p.kind # "frame" PROVE Good(e)
    BY <1>0, <1>1, <1>5, <1>8, PacketRead
  <1>9. CASE p.kind = "live"
    <2> DEFINE x == [e EXCEPT !.target = p.frame]
    <2>1. \/ Fail(g, e)
          \/ SetGuest(g, FinishCatchup(x)) /\ room' = room
      BY <1>9 DEF GuestReceive
    <2>2. Good(e) BY <1>8, <1>9
    <2>3. /\ x \in Replica /\ x.run = e.run /\ x.frame = e.frame /\ x.head = e.head
          /\ x.stream = e.stream /\ x.work = e.work /\ x.incoming = e.incoming
          /\ x.catchingUp = e.catchingUp /\ x.target = p.frame
      BY <1>1, <1>2 DEF Replica, Maybe
    <2>4. p.frame # None BY <1>2, NoneAssumption
    <2> HIDE DEF x, p, d, e
    <2>5. Good(x) BY <1>0, <1>1, <2>2, <2>3, <2>4, Rests
    <2>6. Good(FinishCatchup(x)) BY <1>0, <1>1, <2>5, CatchupFinished
    <2> QED BY <1>6, <1>7, <2>1, <2>6
  <1>10. CASE p.kind # "live" /\ (~e.run \/ Head(d).stream # e.stream)
    BY <1>10, Same, <1>6, <1>8 DEF GuestReceive, SetGuest
  <1>11. CASE p.kind = "frame" /\ e.run /\ Head(d).stream = e.stream
    <2> DEFINE x == [e EXCEPT !.head = e.head + 1]
    <2>1. \/ Fail(g, e)
          \/ p.frame = e.head /\ SetGuest(g, x) /\ room' = room
      BY <1>11 DEF GuestReceive
    <2>2. /\ x \in Replica /\ x.run = e.run /\ x.frame = e.frame /\ x.head = e.head + 1
          /\ x.stream = e.stream /\ x.work = e.work /\ x.incoming = e.incoming
          /\ x.catchingUp = e.catchingUp /\ x.target = e.target
      <3>1. e.head + 1 \in Nat BY <1>1, ReplicaType
      <3> QED BY <1>1, <3>1 DEF Replica
    <2> HIDE DEF x
    <2>3. ASSUME p.frame = e.head PROVE Good(x) BY <1>0, <1>1, <1>5, <1>11, <2>2, <2>3, FrameRead
    <2> QED BY <1>6, <1>7, <2>1, <2>3
  <1>12. CASE p.kind = "hash" /\ e.run /\ Head(d).stream = e.stream
    <2> DEFINE ts == IF p.frame \in {o.frame : o \in e.ours} THEN e.theirs ELSE e.theirs \cup {p.frame}
               x == [e EXCEPT !.received = p.frame, !.theirs = ts]
    <2>1. \/ Fail(g, e)
          \/ SetGuest(g, e) /\ room' = room
          \/ SetGuest(g, x) /\ room' = room
      BY <1>12, Same DEF GuestReceive, SetGuest
    <2>2. Good(e) BY <1>8, <1>12
    <2>3. ts \in SUBSET Nat BY <1>1, <1>2 DEF Replica
    <2> HIDE DEF ts
    <2>4. x \in Replica /\ Alike(e, x) /\ x.work = e.work BY <1>1, <1>2, <2>3 DEF Replica, Alike
    <2> HIDE DEF x
    <2>5. Good(x) BY <1>0, <1>1, <2>2, <2>4, Aside
    <2> QED BY <1>6, <1>7, <2>1, <2>2, <2>5
  <1> QED BY <1>2, <1>9, <1>10, <1>11, <1>12

\* The answer of the emulator is read, and the scheduler goes on.
LEMMA GuestAnswerKeeps ==
  ASSUME Inv, NEW g \in Guest, GuestAnswer(g)
  PROVE  Inv'
  <1> DEFINE e0 == guest[g]
             asked == Head(e0.work)
             e == [e0 EXCEPT !.work = Tail(e0.work)]
             n == native[g]
  <1>0. /\ host.frame \in Nat /\ room.issued \in Nat /\ room.toHost \in Seq(Event)
        /\ room.transfer[g] \in Maybe(Transfers) /\ room.toGuest[g] \in Seq(Event)
        /\ outgoing[g] \in Maybe(Outgoing) /\ link[g] \in Link
    BY TypedNow, Pieces
  <1>1. /\ e0 \in Replica /\ n \in Native /\ down[g] \in Packets(HostPacket) /\ e0.work # <<>>
        /\ up[g] \in Packets(HashPacket) /\ chunks[g] \in Seq(Chunk)
        /\ Fits(g, host.frame, room.issued, room.toHost, room.transfer[g], room.toGuest[g],
                outgoing[g], link[g], e0, n, down[g], up[g], chunks[g])
    BY Here DEF GuestAnswer, FitsRoom
  <1>2. /\ asked \in Job /\ asked.id \in Nat /\ Tail(e0.work) \in Seq(Job)
        /\ asked.kind = "frame" => ~Awaits(Tail(e0.work), "frame")
        /\ asked.kind = "frame" /\ e0.run => asked.id = e0.frame /\ e0.frame < e0.head
        /\ asked.kind = "import" /\ Takes(e0, asked.id) =>
             /\ ~e0.run /\ e0.stream < asked.id /\ ~Awaits(Tail(e0.work), "frame")
             /\ ~Late(g, asked.id, room.toHost, chunks[g], Tail(e0.work))
             /\ room.transfer[g] # None =>
                  room.transfer[g].id # asked.id \/ room.transfer[g].sending
        /\ asked.kind = "check" /\ Takes(e0, asked.id) /\ e0.run => e0.target # None
    <2> HIDE DEF e0, n
    <2> QED BY <1>0, <1>1, Answered
  <1>3. /\ e \in Replica /\ Alike(e0, e) /\ e.work = Tail(e0.work)
        /\ e.frame = e0.frame /\ e.head = e0.head /\ e.stream = e0.stream
        /\ e.run = e0.run /\ e.incoming = e0.incoming /\ e.target = e0.target
    BY <1>1, <1>2 DEF Replica, Alike
  <1> DEFINE Good(x, m, u) == /\ x \in Replica /\ m \in Native /\ u \in Packets(HashPacket)
                              /\ Fits(g, host.frame, room.issued, room.toHost, room.transfer[g],
                                      room.toGuest[g], outgoing[g], link[g], x, m, down[g], u,
                                      chunks[g])
             Only(m, u) == Around(g, m, down[g], u, chunks[g])
  <1>4. Good(e, n, up[g])
    <2> HIDE DEF e0, e, n
    <2> QED BY <1>0, <1>1, <1>3, Popped
  <1>5. ASSUME NEW x, NEW m, NEW u, Good(x, m, u), Only(m, u)
        PROVE  /\ SetGuest(g, x) /\ room' = room => Inv'
               /\ SetGuest(g, x) /\ Safe(room, room') => Inv'
               /\ FailIncoming(g, x) => Inv'
               /\ Fail(g, x) => Inv'
    BY <1>5, <1>1, Sets, SetsSafe, FailsIncoming, Fails DEF FitsRoom
  <1>6. /\ native' = native /\ up' = up => Only(n, up[g])
        /\ up' = up => \A m : native' = [native EXCEPT ![g] = m] => Only(m, up[g])
        /\ native' = native => \A u : up' = [up EXCEPT ![g] = u] => Only(n, u)
    BY Same DEF GuestAnswer, Around
  <1>7. CASE asked.kind = "frame"
    <2> DEFINE m == Ran(n, asked.id)
    <2>1. /\ native' = [native EXCEPT ![g] = m] /\ room' = room /\ up' = up
          /\ SetGuest(g, IF e.run THEN GuestCommit(e) ELSE e)
      BY <1>7 DEF GuestAnswer
    <2>2. m \in Native /\ m.at = n.at + 1 /\ (n.at = asked.id => m.state = n.state)
      BY <1>1 DEF Native, Ran
    <2> HIDE DEF m, e, e0, asked, n
    <2>3. CASE e.run
      <3>1. n.at = asked.id /\ e.frame < e.head /\ ~Awaits(e.work, "frame")
        BY <1>1, <1>2, <1>3, <1>7, <2>3 DEF Fits, Replays
      <3>2. Good(GuestCommit(e), m, up[g]) BY <1>0, <1>1, <1>4, <2>2, <2>3, <3>1, Committed
      <3> QED BY <1>5, <1>6, <2>1, <2>3, <3>2
    <2>4. CASE ~e.run BY <1>0, <1>1, <1>4, <2>2, <2>4, Unwatched, <1>5, <1>6, <2>1
    <2> QED BY <2>3, <2>4
  <1>8. CASE asked.kind = "interval"
    <2> DEFINE own == Hash(e.frame, n.state = "agrees")
               pk == Packet(e.stream, own)
               u == Append(up[g], pk)
               os == IF e.frame \in e.theirs THEN e.ours
                     ELSE e.ours \cup {[frame |-> e.frame, agrees |-> own.agrees]}
               x == [e EXCEPT !.hashing = FALSE, !.theirs = e.theirs \ {e.frame}, !.ours = os]
    <2>1. GuestHash(g, e) /\ native' = native BY <1>8 DEF GuestAnswer
    <2>2. \/ SetGuest(g, e) /\ room' = room /\ up' = up
          \/ /\ up' = [up EXCEPT ![g] = u]
             /\ Fail(g, e) \/ (SetGuest(g, FinishCatchup(x)) /\ room' = room)
      BY <2>1 DEF GuestHash
    <2>3. pk \in [stream : Nat, p : HashPacket] /\ pk.stream = e.stream /\ own.agrees \in BOOLEAN
      BY <1>3 DEF Packet, Hash, HashPacket, Replica
    <2>4. ~pk.p.agrees => n.state # "agrees" BY DEF Packet, Hash
    <2>5. u \in Packets(HashPacket) BY <1>1, <2>3, AppendAt DEF Packets
    <2>6. x \in Replica /\ Alike(e, x) /\ x.work = e.work
      <3>1. os \in SUBSET Claim BY <1>3, <2>3 DEF Replica, Claim
      <3>2. e.theirs \ {e.frame} \in SUBSET Nat BY <1>3 DEF Replica
      <3> HIDE DEF os, e
      <3> QED BY <1>3, <3>1, <3>2 DEF Replica, Alike
    <2> HIDE DEF pk, e, e0, asked, n, x, own
    <2>7. Good(e, n, u) BY <1>4, <1>0, <1>1, <2>3, <2>4, <2>5, HashSent
    <2> HIDE DEF u
    <2>8. Good(x, n, u) BY <1>0, <1>1, <2>6, <2>7, Aside
    <2>9. Good(FinishCatchup(x), n, u) BY <1>0, <1>1, <2>8, CatchupFinished
    <2>10. CASE SetGuest(g, e) /\ room' = room /\ up' = up BY <1>4, <1>5, <1>6, <2>1, <2>10
    <2>11. CASE /\ up' = [up EXCEPT ![g] = u]
                /\ Fail(g, e) \/ (SetGuest(g, FinishCatchup(x)) /\ room' = room)
      BY <1>6, <2>1, <2>11, <1>5, <2>7, <2>9
    <2> QED BY <2>2, <2>10, <2>11
  <1>9. CASE asked.kind = "check"
    <2> DEFINE x == [e EXCEPT !.catchingUp = FALSE, !.checking = FALSE]
    <2>1. CheckBoundary(g, e, asked.id) /\ native' = native /\ up' = up BY <1>9 DEF GuestAnswer
    <2>2. Only(n, up[g]) BY <1>6, <2>1
    <2>3. \/ SetGuest(g, e) /\ room' = room
          \/ /\ SetGuest(g, x) /\ Takes(e, asked.id) /\ e.run
             /\ Confirms(room, g, asked.id, e.target) /\ room' = Observed(room, g, asked.id, e.target)
          \/ FailIncoming(g, e)
      BY <2>1 DEF CheckBoundary
    <2>4. /\ x \in Replica /\ x.run = e.run /\ x.frame = e.frame /\ x.head = e.head
          /\ x.stream = e.stream /\ x.work = e.work /\ x.incoming = e.incoming
          /\ ~x.catchingUp /\ x.target = e.target
      BY <1>3 DEF Replica
    <2> HIDE DEF x, e, e0, asked, n
    <2>5. Good(x, n, up[g]) BY <1>0, <1>1, <1>4, <2>4, Rests
    <2>6. ASSUME Takes(e, asked.id), e.run, Confirms(room, g, asked.id, e.target),
                 room' = Observed(room, g, asked.id, e.target)
          PROVE  Safe(room, room')
      BY <1>2, <1>3, <1>9, <2>6, ReplicaType, TypedNow, ObservedKeeps DEF Takes
    <2> QED BY <1>4, <1>5, <2>2, <2>3, <2>5, <2>6
  <1>10. CASE asked.kind = "hold"
    <2> DEFINE x == [e EXCEPT !.run = FALSE]
    <2>1. /\ native' = native /\ up' = up
          /\ \/ SetGuest(g, e) /\ room' = room
             \/ /\ SetGuest(g, x) /\ Takes(e, asked.id)
                /\ room' = CheckpointReady(room, g, asked.id)
      BY <1>10 DEF GuestAnswer
    <2>2. Only(n, up[g]) BY <1>6, <2>1
    <2>3. /\ x \in Replica /\ ~x.run /\ x.frame = e.frame /\ x.head = e.head
          /\ x.stream = e.stream /\ x.work = e.work /\ x.incoming = e.incoming
          /\ x.catchingUp = e.catchingUp /\ x.target = e.target
      BY <1>3 DEF Replica
    <2> HIDE DEF x, e, e0, asked, n
    <2>4. Good(x, n, up[g]) BY <1>0, <1>1, <1>4, <2>3, Rests
    <2>5. ASSUME SetGuest(g, x), Takes(e, asked.id), room' = CheckpointReady(room, g, asked.id)
          PROVE  Inv'
      BY <2>3, <2>5, <2>4, TypedNow, <1>0, <1>1, <1>2, ReadyKeeps, <2>2, Acts DEF Takes, FitsRoom,
         Around, SetGuest
    <2> QED BY <1>4, <1>5, <2>1, <2>2, <2>5
  <1>11. CASE asked.kind = "import"
    <2> DEFINE from == e.incoming.frame
               m == [at |-> from, state |-> "agrees"]
               x == [e EXCEPT !.run = TRUE, !.frame = from, !.head = from, !.stream = asked.id,
                              !.catchingUp = TRUE, !.target = None, !.checking = FALSE,
                              !.frozen = FALSE, !.hashing = FALSE, !.pausedSent = FALSE,
                              !.ours = {}, !.theirs = {}, !.received = 0]
    <2>1. Install(g, e, asked.id) /\ up' = up BY <1>11 DEF GuestAnswer
    <2>2. CASE ~Takes(e, asked.id) BY <2>1, <2>2, <1>4, <1>5, <1>6 DEF Install
    <2>3. CASE Takes(e, asked.id)
      <3>1. /\ native' = [native EXCEPT ![g] = m] /\ SetGuest(g, x)
            /\ room' = CheckpointAck(room, g, asked.id, from)
        BY <2>1, <2>3 DEF Install
      <3>2. e.incoming # None /\ e.incoming.id = asked.id /\ from \in Nat
        BY <1>3, <2>3, ReplicaType DEF Takes
      <3>3. /\ x \in Replica /\ x.run /\ x.frame = from /\ x.head = from /\ x.stream = asked.id
            /\ x.work = e.work /\ x.incoming = e.incoming
        BY <1>2, <1>3, <3>2 DEF Replica, Maybe
      <3>4. m \in Native /\ m.at = from /\ m.state = "agrees" BY <3>2 DEF Native
      <3>5. from <= host.frame BY <1>4, <3>2 DEF Fits, Past
      <3>6. Takes(e0, asked.id) BY <1>3, <3>2 DEF Takes
      <3> HIDE DEF x, m, e, e0, n, asked
      <3>7. /\ e.stream < asked.id /\ ~Awaits(e.work, "frame")
            /\ ~Late(g, asked.id, room.toHost, chunks[g], e.work)
            /\ room.transfer[g] # None =>
                 room.transfer[g].id # asked.id \/ room.transfer[g].sending
        BY <1>2, <1>3, <1>11, <3>6
      <3>8. /\ Fits(g, host.frame, room.issued, room.toHost, room.transfer[g], room.toGuest[g],
                    outgoing[g], link[g], x, m, down[g], up[g], chunks[g])
            /\ ~link[g].live /\ \A i \in DOMAIN down[g] : down[g][i].stream # asked.id
            /\ outgoing[g] # None => outgoing[g].cursor = None
            /\ \A i \in DOMAIN room.toHost :
                 Of(room.toHost[i], "catchup", g) => room.toHost[i].id # asked.id
        <4>1. x.run /\ x.frame = e.incoming.frame /\ x.head = e.incoming.frame BY <3>3
        <4>2. m.at = e.incoming.frame BY <3>4
        <4>3. /\ e \in Replica /\ x \in Replica /\ m \in Native /\ asked.id \in Nat
              /\ x.stream = asked.id /\ x.work = e.work /\ x.incoming = e.incoming
              /\ m.state = "agrees"
          BY <1>2, <1>3, <3>3, <3>4
        <4>4. Fits(g, host.frame, room.issued, room.toHost, room.transfer[g], room.toGuest[g],
                   outgoing[g], link[g], e, n, down[g], up[g], chunks[g])
          BY <1>4
        <4> HIDE DEF from
        <4>5. Fits(g, host.frame, room.issued, room.toHost, room.transfer[g], room.toGuest[g],
                   outgoing[g], link[g], x, m, down[g], up[g], chunks[g])
          BY <1>0, <1>1, <2>3, <3>7, <4>1, <4>2, <4>3, <4>4, Installed
        <4>6. Silent(g, room.toHost, outgoing[g], link[g], down[g], e.incoming.id)
          BY <1>0, <1>1, <3>2, <3>7, <4>3, <4>4, Unsent
        <4> QED BY <3>2, <4>5, <4>6 DEF Silent
      <3>9. /\ FitsRoom(g, room, host.frame, outgoing[g], link[g], x, m, down[g], up[g], chunks[g])
            /\ Good(x, m, up[g])
        BY <1>1, <3>3, <3>4, <3>8 DEF FitsRoom
      <3>10. Bounded(room) BY TypedNow
      <3>11. /\ Bystanders(room, room', g)
             /\ FitsRoom(g, room', host.frame, outgoing[g], link[g], x, m, down[g], up[g], chunks[g])
        <4> HIDE DEF from
        <4> QED BY <1>0, <1>1, <1>2, <3>1, <3>2, <3>3, <3>4, <3>5, <3>8, <3>9, <3>10, AckKeeps
      <3>12. Only(m, up[g]) BY <1>6, <2>1, <3>1
      <3> QED BY <1>1, <3>1, <3>9, <3>11, <3>12, Acts DEF Around, SetGuest
    <2> QED BY <2>2, <2>3
  <1>12. CASE asked.kind = "pause"
    <2> DEFINE x == [e EXCEPT !.paused = TRUE]
    <2>1. /\ SetGuest(g, IF e.run THEN FinishCatchup(x) ELSE e)
          /\ room' = room /\ up' = up /\ native' = native
      BY <1>12 DEF GuestAnswer
    <2>2. x \in Replica /\ Alike(e, x) /\ x.work = e.work BY <1>3 DEF Replica, Alike
    <2>3. Only(n, up[g]) BY <1>6, <2>1
    <2> HIDE DEF x, e, e0, n, asked
    <2>4. Good(x, n, up[g]) BY <1>0, <1>1, <1>4, <2>2, Aside
    <2>5. Good(FinishCatchup(x), n, up[g]) BY <1>0, <1>1, <2>4, CatchupFinished
    <2> QED BY <1>4, <1>5, <2>1, <2>3, <2>5
  <1> QED BY <1>7, <1>8, <1>9, <1>10, <1>11, <1>12 DEF GuestAnswer

-----------------------------------------------------------------------------
(* The queues of the host                                                  *)

\* The fields of the host's scheduler.
LEMMA HostType ==
  \A h \in Host :
    /\ h.frame \in Nat /\ h.work \in Seq(Job) /\ h.hashing \in BOOLEAN /\ h.frozen \in BOOLEAN
    /\ h.fence \in Maybe(Nat) /\ h.pausedSent \in BOOLEAN /\ h.over \in BOOLEAN
    /\ h.hashes \in SUBSET Nat
  BY DEF Host

\* What the emulator was asked is answered in order.
LEMMA StoppingPopped ==
  ASSUME NEW status, NEW q, NEW h \in Host, h.work # <<>>, Stopping(status, q, h),
         NEW h2 \in Host, h2.work = Tail(h.work), h2.pausedSent = h.pausedSent, h2.frozen = h.frozen
  PROVE  /\ Stopping(status, q, h2)
         /\ Head(h.work).kind \in {"frame", "hold"} => ~Awaits(h2.work, "frame")
         /\ Head(h.work).kind = "hold" =>
              ~Awaits(h2.work, "hold") /\ ~Has(q, "freeze") /\ ~Has(q, "pauseAt") /\ h.frozen
  <1> DEFINE w == h.work
             v == h2.work
  <1>1. /\ w \in Seq(Job) /\ v \in Seq(Job) /\ Head(w) = w[1] /\ 1 \in DOMAIN w
        /\ \A i \in DOMAIN v : i \in Nat /\ i + 1 \in DOMAIN w /\ v[i] = w[i + 1]
    <2>1. w \in Seq(Job) /\ w # <<>> /\ v = Tail(w) BY HostType
    <2> HIDE DEF w, v
    <2>2. v \in Seq(Job) BY <2>1, TailAt
    <2> QED BY <2>1, <2>2, TailAt
  <1>2. \A i, j \in DOMAIN v : v[i].kind = "frame" /\ v[j].kind = "frame" => i = j
    <2> SUFFICES ASSUME NEW i \in DOMAIN v, NEW j \in DOMAIN v, v[i].kind = "frame",
                        v[j].kind = "frame"
                 PROVE  i = j
      OBVIOUS
    <2>1. i + 1 = j + 1 BY <1>1 DEF Stopping
    <2> QED BY <1>1, <2>1
  <1>3. \A i, j \in DOMAIN v : v[i].kind = "hold" /\ v[j].kind = "hold" => i = j
    <2> SUFFICES ASSUME NEW i \in DOMAIN v, NEW j \in DOMAIN v, v[i].kind = "hold",
                        v[j].kind = "hold"
                 PROVE  i = j
      OBVIOUS
    <2>1. i + 1 = j + 1 BY <1>1 DEF Stopping
    <2> QED BY <1>1, <2>1
  <1>4. \A i, j \in DOMAIN v : v[i].kind = "hold" /\ v[j].kind = "frame" => j < i
    <2> SUFFICES ASSUME NEW i \in DOMAIN v, NEW j \in DOMAIN v, v[i].kind = "hold",
                        v[j].kind = "frame"
                 PROVE  j < i
      OBVIOUS
    <2>1. j + 1 < i + 1 BY <1>1 DEF Stopping
    <2> QED BY <1>1, <2>1
  <1>5. \A kind : Awaits(v, kind) => Awaits(w, kind) BY <1>1 DEF Awaits
  <1>6. Stopping(status, q, h2) BY <1>2, <1>3, <1>4, <1>5 DEF Stopping
  <1>7. ASSUME NEW i \in DOMAIN v PROVE i + 1 # 1 /\ ~(i + 1 < 1) BY <1>1
  <1>8. ASSUME w[1].kind = "frame" PROVE ~Awaits(v, "frame")
    BY <1>1, <1>7, <1>8 DEF Stopping, Awaits
  <1>9. ASSUME w[1].kind = "hold" PROVE ~Awaits(v, "frame") /\ ~Awaits(v, "hold")
    BY <1>1, <1>7, <1>9 DEF Stopping, Awaits
  <1>10. ASSUME w[1].kind = "hold" PROVE ~Has(q, "freeze") /\ ~Has(q, "pauseAt") /\ h.frozen
    BY <1>1, <1>10 DEF Awaits, Stopping
  <1> QED BY <1>1, <1>6, <1>8, <1>9, <1>10

\* An answer of the worker disturbs no transfer.
LEMMA OwnedPopped ==
  ASSUME NEW q, NEW w \in Seq(Job), w # <<>>, NEW issued, NEW out, Owned(q, w, issued, out)
  PROVE  /\ Owned(q, Tail(w), issued, out)
         /\ Head(w).kind = "boundary" => \A j \in DOMAIN Tail(w) : ~Asks(Tail(w)[j], Head(w).id)
  <1> DEFINE v == Tail(w)
  <1>1. /\ v \in Seq(Job) /\ Head(w) = w[1] /\ 1 \in DOMAIN w
        /\ \A i \in DOMAIN v : i \in Nat /\ i + 1 \in DOMAIN w /\ v[i] = w[i + 1]
    BY TailAt
  <1> HIDE DEF v
  <1>2. ASSUME NEW i \in DOMAIN v, v[i].kind = "boundary", NEW j \in DOMAIN v, Asks(v[j], v[i].id)
        PROVE  i = j
    BY <1>1, <1>2 DEF Owned
  <1>3. ASSUME Head(w).kind = "boundary", NEW j \in DOMAIN v PROVE ~Asks(v[j], Head(w).id)
    BY <1>1, <1>3 DEF Owned
  <1>4. ASSUME NEW i \in DOMAIN v, v[i].kind = "boundary"
        PROVE  /\ v[i].id <= issued
               /\ \A g \in Guest : out[g] # None /\ out[g].id = v[i].id =>
                    out[g].boundary = None /\ out[g].pending
    BY <1>1, <1>4 DEF Owned
  <1>6. Owned(q, v, issued, out) BY <1>2, <1>4, <1>1 DEF Owned
  <1> QED BY <1>3, <1>6 DEF v

\* The emulator is asked for something that is no frame.
LEMMA StoppingAsked ==
  ASSUME NEW status, NEW q, NEW h \in Host, Stopping(status, q, h),
         NEW kind \in {"interval", "export", "boundary", "pause"}, NEW id \in Nat
  PROVE  /\ Ask(h, kind, id) \in Host /\ Stopping(status, q, Ask(h, kind, id))
         /\ Ask(h, kind, id).frame = h.frame /\ Ask(h, kind, id).over = h.over
         /\ Ask(h, kind, id).fence = h.fence /\ Ask(h, kind, id).pausedSent = h.pausedSent
         /\ Ask(h, kind, id).work = Append(h.work, [kind |-> kind, id |-> id])
         /\ ~Awaits(h.work, "frame") => ~Awaits(Ask(h, kind, id).work, "frame")
  <1> DEFINE job == [kind |-> kind, id |-> id]
             x == Ask(h, kind, id)
             w == h.work
  <1>1. job \in Job /\ job.kind = kind /\ h.work \in Seq(Job) BY HostType DEF Job
  <1>2. x = [h EXCEPT !.work = Append(h.work, job)] BY DEF Ask
  <1> HIDE DEF job
  <1>3. /\ Append(w, job) \in Seq(Job) /\ DOMAIN Append(w, job) = DOMAIN w \cup {Len(w) + 1}
        /\ \A i \in DOMAIN w : Append(w, job)[i] = w[i]
        /\ Append(w, job)[Len(w) + 1] = job
    BY <1>1, AppendAt
  <1> HIDE DEF x
  <1>4. /\ x \in Host /\ x.frame = h.frame /\ x.over = h.over /\ x.fence = h.fence
        /\ x.pausedSent = h.pausedSent /\ x.frozen = h.frozen /\ x.work = Append(w, job)
    BY <1>2, <1>3 DEF Host
  <1>5. \A i \in DOMAIN x.work : x.work[i].kind \in {"frame", "hold"} =>
          i \in DOMAIN w /\ w[i] = x.work[i]
    BY <1>1, <1>3, <1>4
  <1>6. \A k \in {"frame", "hold"} : Awaits(x.work, k) <=> Awaits(w, k)
    BY <1>3, <1>4, <1>5 DEF Awaits
  <1>7. Stopping(status, q, x) BY <1>4, <1>5, <1>6 DEF Stopping
  <1> QED BY <1>4, <1>6, <1>7 DEF x, job

\* Nor does a question that is about none.
LEMMA OwnedAsked ==
  ASSUME NEW q, NEW w \in Seq(Job), NEW issued, NEW out, Owned(q, w, issued, out),
         NEW job \in Job, job.kind # "boundary"
  PROVE  Owned(q, Append(w, job), issued, out)
  <1> DEFINE v == Append(w, job)
  <1>1. /\ v \in Seq(Job) /\ DOMAIN v = DOMAIN w \cup {Len(w) + 1} /\ v[Len(w) + 1] = job
        /\ \A i \in DOMAIN w : v[i] = w[i]
    BY AppendAt
  <1> HIDE DEF v
  <1>2. \A i \in DOMAIN v : v[i].kind = "boundary" => i \in DOMAIN w /\ w[i] = v[i] BY <1>1
  <1>4. Owned(q, v, issued, out) BY <1>2 DEF Owned, Asks
  <1> QED BY <1>4 DEF v

\* Transfers that the host gives up, or whose boundary does not change.
LEMMA OwnedLess ==
  ASSUME NEW q, NEW w, NEW issued, NEW out, Owned(q, w, issued, out), NEW out2,
         \A g \in Guest : out2[g] # None =>
           /\ out[g] # None /\ out2[g].id = out[g].id
           /\ out2[g].boundary = out[g].boundary /\ out2[g].pending = out[g].pending
  PROVE  Owned(q, w, issued, out2)
  BY DEF Owned

\* Nor does the end of them all.
LEMMA OwnedNone ==
  ASSUME NEW q, NEW w, NEW issued, NEW out, Owned(q, w, issued, out), NEW out2,
         \A g \in Guest : out2[g] = None
  PROVE  Owned(q, <<>>, issued, out2)
  BY DEF Owned, Asks

\* The host reads what it was told.
LEMMA HostReads ==
  ASSUME NEW status, NEW q \in Seq(Event), q # <<>>, NEW h \in Host, Stopping(status, q, h)
  PROVE  /\ Stopping(status, Tail(q), h)
         /\ Head(q).type = "freeze" =>
              /\ status # "playing" /\ ~Awaits(h.work, "hold") /\ ~Has(Tail(q), "freeze")
              /\ ~Has(Tail(q), "pauseAt")
         /\ Head(q).type = "pauseAt" =>
              /\ status # "playing" /\ ~Awaits(h.work, "hold") /\ ~Has(Tail(q), "freeze")
              /\ ~Has(Tail(q), "pauseAt") /\ ~Awaits(h.work, "frame")
  <1> DEFINE v == Tail(q)
  <1>1. /\ v \in Seq(Event) /\ Head(q) = q[1] /\ 1 \in DOMAIN q
        /\ \A i \in DOMAIN v : i \in Nat /\ i + 1 \in DOMAIN q /\ v[i] = q[i + 1]
    BY TailAt
  <1> HIDE DEF v
  <1>2. \A type : Has(v, type) => Has(q, type) BY <1>1 DEF Has
  <1>3. ASSUME NEW type \in {"freeze", "pauseAt"},
               NEW i \in DOMAIN v, NEW j \in DOMAIN v, v[i].type = type, v[j].type = type
        PROVE  i = j
    BY <1>1, <1>3 DEF Stopping
  <1>4. Stopping(status, v, h) BY <1>2, <1>3 DEF Stopping
  <1>5. ASSUME NEW type \in {"freeze", "pauseAt"}, q[1].type = type PROVE ~Has(v, type) /\ Has(q, type)
    <2>1. Has(q, type) BY <1>1, <1>5 DEF Has
    <2>2. ASSUME NEW i \in DOMAIN v, v[i].type = type PROVE FALSE BY <1>1, <2>2, <1>5 DEF Stopping
    <2> QED BY <2>1, <2>2 DEF Has
  <1>6. ASSUME q[1].type = "freeze"
        PROVE  /\ status # "playing" /\ ~Awaits(h.work, "hold") /\ ~Has(v, "freeze")
               /\ ~Has(v, "pauseAt")
    BY <1>5, <1>6, <1>2 DEF Stopping
  <1>7. ASSUME q[1].type = "pauseAt"
        PROVE  /\ status # "playing" /\ ~Awaits(h.work, "hold") /\ ~Has(v, "freeze")
               /\ ~Has(v, "pauseAt") /\ ~Awaits(h.work, "frame")
    BY <1>5, <1>7, <1>2 DEF Stopping
  <1> QED BY <1>1, <1>4, <1>6, <1>7 DEF v

\* An event read leaves the transfers their owners.
LEMMA OwnedReads ==
  ASSUME NEW q \in Seq(Event), q # <<>>, NEW w, NEW issued, NEW out, Owned(q, w, issued, out)
  PROVE  /\ Owned(Tail(q), w, issued, out)
         /\ Head(q).type = "capture" =>
              /\ Head(q).id <= issued
              /\ \A g \in Guest : out[g] # None => out[g].id # Head(q).id
              /\ \A j \in DOMAIN w : ~Asks(w[j], Head(q).id)
              /\ \A i \in DOMAIN Tail(q) : Tail(q)[i].type = "capture" => Tail(q)[i].id # Head(q).id
  <1> DEFINE v == Tail(q)
  <1>1. /\ v \in Seq(Event) /\ Head(q) = q[1] /\ 1 \in DOMAIN q
        /\ \A i \in DOMAIN v : i \in Nat /\ i + 1 \in DOMAIN q /\ v[i] = q[i + 1]
    BY TailAt
  <1> HIDE DEF v
  <1>2. ASSUME NEW i \in DOMAIN v, NEW j \in DOMAIN v, v[i].type = "capture", v[j].type = "capture",
               v[i].id = v[j].id
        PROVE  i = j
    BY <1>1, <1>2 DEF Owned
  <1>3. Owned(v, w, issued, out) BY <1>1, <1>2 DEF Owned
  <1>4. ASSUME q[1].type = "capture", NEW i \in DOMAIN v, v[i].type = "capture"
        PROVE  v[i].id # q[1].id
    BY <1>1, <1>4 DEF Owned
  <1>5. ASSUME q[1].type = "capture"
        PROVE  /\ q[1].id <= issued
               /\ \A g \in Guest : out[g] # None => out[g].id # q[1].id
               /\ \A j \in DOMAIN w : ~Asks(w[j], q[1].id)
    BY <1>1, <1>5 DEF Owned
  <1> QED BY <1>1, <1>3, <1>4, <1>5 DEF v

\* finishPause of the host, once no frame is left to run.
LEMMA HostPauseSent ==
  ASSUME NEW status, NEW q, NEW h \in Host, Stopping(status, q, h), ~Awaits(h.work, "frame"),
         NEW issued, NEW out, Owned(q, h.work, issued, out)
  PROVE  /\ FinishPause(h) \in Host /\ Stopping(status, q, FinishPause(h))
         /\ FinishPause(h).frame = h.frame /\ FinishPause(h).over = h.over
         /\ Owned(q, FinishPause(h).work, issued, out)
  <1>1. CASE h.pausedSent BY <1>1 DEF FinishPause
  <1>2. CASE ~h.pausedSent
    <2> DEFINE x == [h EXCEPT !.pausedSent = TRUE, !.hashing = FALSE]
               job == [kind |-> "pause", id |-> 0]
    <2>1. /\ x \in Host /\ x.work = h.work /\ x.frame = h.frame /\ x.over = h.over
          /\ x.frozen = h.frozen
      BY DEF Host
    <2>2. FinishPause(h) = Ask(x, "pause", 0) BY <1>2 DEF FinishPause
    <2> HIDE DEF x
    <2>3. Stopping(status, q, x) BY <2>1 DEF Stopping
    <2>4. /\ Ask(x, "pause", 0) \in Host /\ Stopping(status, q, Ask(x, "pause", 0))
          /\ Ask(x, "pause", 0).frame = x.frame /\ Ask(x, "pause", 0).over = x.over
          /\ Ask(x, "pause", 0).work = Append(x.work, job)
      BY <2>1, <2>3, StoppingAsked
    <2>5. job \in Job /\ job.kind # "boundary" /\ h.work \in Seq(Job) BY HostType DEF Job
    <2> HIDE DEF job
    <2>6. Owned(q, Append(h.work, job), issued, out) BY <2>5, OwnedAsked
    <2> QED BY <2>1, <2>2, <2>4, <2>6
  <1> QED BY <1>1, <1>2

-----------------------------------------------------------------------------
(* How the host serves a guest                                             *)

\* What the host keeps of one guest, and what is on its way between them.
Serves(g, o, l, d, u, k) ==
  /\ outgoing' = [outgoing EXCEPT ![g] = o] /\ link' = [link EXCEPT ![g] = l]
  /\ down' = [down EXCEPT ![g] = d] /\ up' = [up EXCEPT ![g] = u]
  /\ chunks' = [chunks EXCEPT ![g] = k]
  /\ guest' = guest /\ native' = native

\* The state has its type after the host served a guest.
LEMMA ServesTyped ==
  ASSUME Inv, NEW g \in Guest, NEW o \in Maybe(Outgoing), NEW l \in Link,
         NEW d \in Packets(HostPacket), NEW u \in Packets(HashPacket), NEW k \in Seq(Chunk),
         Serves(g, o, l, d, u, k), host' \in Host
  PROVE  /\ Typed' /\ \A h \in Guest \ {g} : Untouched(h)
         /\ outgoing'[g] = o /\ link'[g] = l /\ down'[g] = d /\ up'[g] = u /\ chunks'[g] = k
         /\ guest'[g] = guest[g] /\ native'[g] = native[g]
  <1>1. Typed BY TypedNow
  <1>2. /\ outgoing' \in [Guest -> Maybe(Outgoing)] /\ outgoing'[g] = o
        /\ \A h \in Guest \ {g} : outgoing'[h] = outgoing[h]
    BY <1>1 DEF Typed, Serves
  <1>3. /\ link' \in [Guest -> Link] /\ link'[g] = l
        /\ \A h \in Guest \ {g} : link'[h] = link[h]
    BY <1>1 DEF Typed, Serves
  <1>4. /\ down' \in [Guest -> Packets(HostPacket)] /\ down'[g] = d
        /\ \A h \in Guest \ {g} : down'[h] = down[h]
    BY <1>1 DEF Typed, Serves
  <1>5. /\ up' \in [Guest -> Packets(HashPacket)] /\ up'[g] = u
        /\ \A h \in Guest \ {g} : up'[h] = up[h]
    BY <1>1 DEF Typed, Serves
  <1>6. /\ chunks' \in [Guest -> Seq(Chunk)] /\ chunks'[g] = k
        /\ \A h \in Guest \ {g} : chunks'[h] = chunks[h]
    BY <1>1 DEF Typed, Serves
  <1>7. guest' = guest /\ native' = native BY DEF Serves
  <1>8. Typed' BY <1>1, <1>2, <1>3, <1>4, <1>5, <1>6, <1>7 DEF Typed
  <1>9. \A h \in Guest \ {g} : Untouched(h) BY <1>2, <1>3, <1>4, <1>5, <1>6, <1>7 DEF Untouched
  <1> QED BY <1>2, <1>3, <1>4, <1>5, <1>6, <1>7, <1>8, <1>9

\* A host that serves one guest well keeps the invariant of everybody.
LEMMA ServesKeeps ==
  ASSUME Inv, NEW g \in Guest, NEW o \in Maybe(Outgoing), NEW l \in Link,
         NEW d \in Packets(HostPacket), NEW u \in Packets(HashPacket), NEW k \in Seq(Chunk),
         Serves(g, o, l, d, u, k), host' \in Host, host'.frame = host.frame,
         Bystanders(room, room', g),
         ~host'.over => Stopping(room.status, room.toHost, host'),
         Owned(room.toHost, host'.work, room.issued, outgoing'),
         FitsRoom(g, room', host.frame, o, l, guest[g], native[g], d, u, k)
  PROVE  Inv'
BY ServesTyped, HostType, Aimed DEF FitsNow, FitsRoom, Typed, Bystanders, KeepsHost

\* The host itself goes on as before, and sends no other transfer.
LEMMA ServesAlone ==
  ASSUME Inv, NEW g \in Guest, NEW o \in Maybe(Outgoing), NEW l \in Link,
         NEW d \in Packets(HostPacket), NEW u \in Packets(HashPacket), NEW k \in Seq(Chunk),
         Serves(g, o, l, d, u, k), host' = host,
         Bystanders(room, room', g),
         o # None => /\ outgoing[g] # None /\ o.id = outgoing[g].id
                     /\ o.boundary = outgoing[g].boundary /\ o.pending = outgoing[g].pending,
         FitsRoom(g, room', host.frame, o, l, guest[g], native[g], d, u, k)
  PROVE  Inv'
BY TypedNow, OwnedLess, ServesKeeps DEF Typed, Serves, Inv

\* The invariant, for one guest.
LEMMA Standing ==
  ASSUME Inv, NEW g \in Guest
  PROVE  /\ outgoing[g] \in Maybe(Outgoing) /\ link[g] \in Link /\ guest[g] \in Replica
         /\ native[g] \in Native /\ down[g] \in Packets(HostPacket)
         /\ up[g] \in Packets(HashPacket) /\ chunks[g] \in Seq(Chunk)
         /\ host \in Host /\ host.frame \in Nat /\ host.work \in Seq(Job)
         /\ room.issued \in Nat /\ room.toHost \in Seq(Event)
         /\ room.transfer[g] \in Maybe(Transfers) /\ room.toGuest[g] \in Seq(Event)
         /\ Fits(g, host.frame, room.issued, room.toHost, room.transfer[g], room.toGuest[g],
                 outgoing[g], link[g], guest[g], native[g], down[g], up[g], chunks[g])
BY TypedNow, FitsHere, Pieces DEF FitsRoom

\* The digest of a checkpoint is ready.
LEMMA HostCapturedKeeps ==
  ASSUME Inv, NEW g \in Guest, HostCaptured(g)
  PROVE  Inv'
  <1> DEFINE o == outgoing[g]
             x == [o EXCEPT !.capture = "held"]
             r == Captured(room, g, o.id, o.frame)
  <1>1. o # None /\ outgoing' = [outgoing EXCEPT ![g] = x] /\ room' = r /\ host' = host
    BY Standing DEF HostCaptured
  <1>2. o \in Outgoing /\ o.id \in Nat /\ o.frame \in Nat BY <1>1, Standing, OutgoingType
  <1>3. /\ x \in Outgoing /\ x # None /\ x.id = o.id /\ x.cursor = o.cursor /\ x.boundary = o.boundary
        /\ x.marked = o.marked /\ x.pending = o.pending /\ x.frame = o.frame
    BY <1>2, NoneAssumption DEF Outgoing
  <1>4. x \in Maybe(Outgoing) BY <1>3 DEF Maybe
  <1>5. Serves(g, x, link[g], down[g], up[g], chunks[g]) BY <1>1, Same DEF HostCaptured, Serves
  <1> HIDE DEF x
  <1>6. o.frame <= host.frame /\ (o.pending => o.cursor # None)
    BY <1>1, Standing DEF Fits, Past, Served
  <1>8. /\ Bystanders(room, r, g)
        /\ FitsRoom(g, r, host.frame, x, link[g], guest[g], native[g], down[g], up[g], chunks[g])
    <2>1. FitsRoom(g, room, host.frame, x, link[g], guest[g], native[g], down[g], up[g], chunks[g])
      BY <1>1, <1>3, <1>4, <1>6, Standing, Prepared DEF FitsRoom
    <2> HIDE DEF r
    <2>2. Bounded(room) BY TypedNow
    <2> QED BY <1>2, <1>3, <1>4, <1>6, <2>1, <2>2, Standing, CapturedKeeps DEF r
  <1> QED BY <1>1, <1>3, <1>4, <1>5, <1>8, Standing, ServesAlone

\* A link that is no longer served.
LEMMA IsolatedType ==
  ASSUME NEW l \in Link
  PROVE  /\ Isolated(l) \in Link /\ Isolated(l).stream = l.stream /\ Isolated(l).cursor = l.cursor
         /\ ~Isolated(l).live /\ Isolated(l).theirs = {}
  BY DEF Isolated, Link

\* The link of a guest is no longer served, and a checkpoint is asked for.
LEMMA IsolateKeeps ==
  ASSUME Inv, NEW g \in Guest, NEW r, Bounded(r), Safe(room, r), NEW u \in Packets(HashPacket),
         Serves(g, outgoing[g], Isolated(link[g]), down[g], u, chunks[g]), host' = host,
         room' = Isolate(r, g),
         Fits(g, host.frame, room.issued, room.toHost, room.transfer[g], room.toGuest[g],
              outgoing[g], link[g], guest[g], native[g], down[g], u, chunks[g])
  PROVE  Inv'
  <1> DEFINE l == Isolated(link[g])
  <1>1. l \in Link /\ l.stream = link[g].stream /\ l.cursor = link[g].cursor /\ ~l.live /\ l.theirs = {}
    BY Standing, IsolatedType
  <1> HIDE DEF l
  <1>3. Safe(room, room') BY SafeCapture, SafeBoth
  <1>4. FitsRoom(g, room', host.frame, outgoing[g], l, guest[g], native[g], down[g], u, chunks[g])
    BY <1>1, Standing, Unserved, <1>3 DEF FitsRoom, Safe, KeepsGuest
  <1> QED BY <1>1, <1>3, <1>4, Standing, SafeBystanders, ServesAlone DEF l

\* A guest fell out of the history.
LEMMA LoseLinkKeeps ==
  ASSUME Inv, NEW g \in Guest, LoseLink(g)
  PROVE  Inv'
BY Same, Standing, TypedNow, SafeSame, IsolateKeeps DEF LoseLink, Serves

\* An observer takes a controller.
LEMMA ReassignKeeps ==
  ASSUME Inv, NEW g \in Guest, Reassign(g)
  PROVE  Inv'
  <1> DEFINE r == [room EXCEPT !.owners = room.owners \cup {g}]
  <1>2. host' = host /\ room' = Isolate(r, g) BY DEF Reassign
  <1>3. /\ r \in Room /\ r.issued = room.issued /\ r.status = room.status /\ r.toHost = room.toHost
        /\ r.transfer = room.transfer /\ r.toGuest = room.toGuest
    BY TypedNow DEF Room
  <1>4. Bounded(r) BY <1>3, TypedNow DEF Bounded
  <1> HIDE DEF r
  <1>5. Safe(room, r) BY <1>3, <1>4 DEF Safe, KeepsHost, KeepsGuest, FitsRoom
  <1> QED BY Same, Standing, <1>2, <1>4, <1>5, IsolateKeeps DEF Reassign, Serves

\* A frame goes out, and its hash after it when that is known.
Sends(d, v, pk, hash, stream, frame) ==
  /\ IsPacket(pk) /\ pk.stream = stream /\ pk.p.kind = "frame" /\ pk.p.frame = frame
  /\ IsPacket(hash) /\ hash.stream = stream /\ hash.p.kind = "hash" /\ hash.p.frame = frame + 1
  /\ v = Append(d, pk) \/ v = Append(Append(d, pk), hash)

\* A frame and its hash are sent.
LEMMA FrameSent ==
  ASSUME NEW d \in Packets(HostPacket), NEW h, NEW stream \in Nat, NEW frame \in Nat
  PROVE  Sends(d, d \o WithHash(h, stream, frame), Packet(stream, Frame(frame)),
               Packet(stream, Hash(frame + 1, TRUE)), stream, frame)
  <1> DEFINE pk   == Packet(stream, Frame(frame))
             hash == Packet(stream, Hash(frame + 1, TRUE))
             T    == [stream : Nat, p : HostPacket]
  <1>1. /\ IsPacket(pk) /\ pk.stream = stream /\ pk.p.kind = "frame" /\ pk.p.frame = frame
    BY DEF IsPacket, Packet, Frame, HostPacket
  <1>2. /\ IsPacket(hash) /\ hash.stream = stream /\ hash.p.kind = "hash"
        /\ hash.p.frame = frame + 1
    BY DEF Hash, HostPacket, HashPacket, IsPacket, Packet
  <1>3. \/ WithHash(h, stream, frame) = <<pk>> \o <<>>
        \/ WithHash(h, stream, frame) = <<pk>> \o <<hash>>
    BY DEF WithHash
  <1>4. d \in Seq(T) /\ pk \in T /\ hash \in T BY <1>1, <1>2 DEF IsPacket, Packets
  <1> HIDE DEF T, pk, hash
  <1>5. d \o (<<pk>> \o <<>>) = Append(d, pk) BY <1>4
  <1>6. d \o (<<pk>> \o <<hash>>) = Append(Append(d, pk), hash) BY <1>4
  <1>7. \/ d \o WithHash(h, stream, frame) = Append(d, pk)
        \/ d \o WithHash(h, stream, frame) = Append(Append(d, pk), hash)
    BY <1>3, <1>5, <1>6
  <1> QED BY <1>1, <1>2, <1>7 DEF pk, hash, Sends

\* The host sends the next frame.
LEMMA PumpLinkKeeps ==
  ASSUME Inv, NEW g \in Guest, PumpLink(g)
  PROVE  Inv'
  <1> DEFINE l == link[g]
             x == [l EXCEPT !.cursor = l.cursor + 1]
             d == down[g]
             v == d \o WithHash(host, l.stream, l.cursor)
             pk == Packet(l.stream, Frame(l.cursor))
             hash == Packet(l.stream, Hash(l.cursor + 1, TRUE))
             Good(w) == /\ w \in Packets(HostPacket)
                        /\ Fits(g, host.frame, room.issued, room.toHost, room.transfer[g],
                                room.toGuest[g], outgoing[g], x, guest[g], native[g], w, up[g],
                                chunks[g])
  <1>1. /\ l.live /\ l.cursor < host.frame /\ host' = host /\ room' = room
        /\ Serves(g, outgoing[g], x, v, up[g], chunks[g])
    BY Same, Standing DEF PumpLink, Serves
  <1>2. /\ x \in Link /\ x.live = l.live /\ x.stream = l.stream /\ x.cursor = l.cursor + 1
        /\ x.theirs = l.theirs /\ l.stream \in Nat /\ l.cursor \in Nat
    <2>1. l \in Link BY Standing
    <2>2. l.stream \in Nat /\ l.cursor \in Nat BY <2>1, LinkType
    <2> HIDE DEF l
    <2> QED BY <2>1, <2>2 DEF Link
  <1> HIDE DEF x
  <1>3. /\ IsPacket(pk) /\ pk.stream = l.stream /\ pk.p.kind = "frame" /\ pk.p.frame = l.cursor
        /\ IsPacket(hash) /\ hash.stream = l.stream /\ hash.p.kind = "hash"
        /\ hash.p.frame = l.cursor + 1
        /\ v = Append(d, pk) \/ v = Append(Append(d, pk), hash)
    <2>1. d \in Packets(HostPacket) BY Standing
    <2> HIDE DEF d, l
    <2>2. Sends(d, v, pk, hash, l.stream, l.cursor) BY <1>2, <2>1, FrameSent
    <2> HIDE DEF v, pk, hash
    <2> QED BY <2>2 DEF Sends
  <1> HIDE DEF pk, hash, v
  <1>4. Good(Append(d, pk)) BY <1>3, Standing, PacketAppend, <1>1, <1>2, Pumped
  <1>5. Good(Append(Append(d, pk), hash))
    <2> DEFINE w == Append(d, pk)
    <2>1. w \in Packets(HostPacket) BY <1>4
    <2>2. /\ l.stream = guest[g].stream
          /\ \A i \in DOMAIN room.toHost :
               Of(room.toHost[i], "catchup", g) => room.toHost[i].id # l.stream
      BY <1>1, Standing DEF Fits, Served
    <2>3. guest[g].run => x.cursor = End(guest[g], w) BY <1>1, <1>2, <1>4 DEF Fits, Served
    <2>4. hash.stream <= guest[g].stream BY <1>2, <1>3, <2>2
    <2>5. guest[g].run => hash.p.frame <= End(guest[g], w) BY <1>2, <1>3, <2>3
    <2>6. Append(w, hash) \in Packets(HostPacket) BY <1>3, <2>1, PacketAppend
    <2> HIDE DEF w
    <2> QED BY <1>2, <1>3, <1>4, <2>1, <2>2, <2>4, <2>5, <2>6, Standing, Sent DEF w
  <1>6. Good(v) BY <1>3, <1>4, <1>5
  <1>7. Bystanders(room, room', g) BY <1>1, TypedNow, SafeSame, SafeBystanders
  <1> QED BY <1>1, <1>2, <1>6, <1>7, Standing, ServesAlone DEF FitsRoom

\* The host reads a hash of a guest.
LEMMA HostReceiveKeeps ==
  ASSUME Inv, NEW g \in Guest, HostReceive(g)
  PROVE  Inv'
  <1> DEFINE l == link[g]
             u == up[g]
             v == Tail(u)
             p == Head(u).p
             x == [l EXCEPT !.received = p.frame]
             y == [l EXCEPT !.received = p.frame,
                            !.theirs = l.theirs \cup {[frame |-> p.frame, agrees |-> p.agrees]}]
             Moves(z) == Serves(g, outgoing[g], z, down[g], v, chunks[g])
             Good(z) == /\ z \in Link
                        /\ Fits(g, host.frame, room.issued, room.toHost, room.transfer[g],
                                room.toGuest[g], outgoing[g], z, guest[g], native[g], down[g], v,
                                chunks[g])
  <1>1. u # <<>> /\ l \in Link /\ u \in Packets(HashPacket) BY Standing DEF HostReceive
  <1>2. v \in Packets(HashPacket) /\ p \in HashPacket
    <2> DEFINE T == [stream : Nat, p : HashPacket]
    <2>1. u \in Seq(T) BY <1>1 DEF Packets
    <2> HIDE DEF T
    <2>2. Tail(u) \in Seq(T) /\ Head(u) \in T BY <1>1, <2>1, TailAt
    <2> QED BY <2>2 DEF T, Packets
  <1>3. p.frame \in Nat /\ p.agrees \in BOOLEAN BY <1>2 DEF HashPacket
  <1>4. \/ room' = room /\ Moves(l)
        \/ Head(u).stream = l.stream /\ room' = room /\ (Moves(x) \/ Moves(y))
        \/ room' = Isolate(room, g) /\ Moves(Isolated(l))
    BY Same, Standing DEF HostReceive, Serves
  <1>5. host' = host BY DEF HostReceive
  <1>6. /\ x \in Link /\ x.live = l.live /\ x.stream = l.stream /\ x.cursor = l.cursor
        /\ x.theirs = l.theirs
    <2> HIDE DEF l, p
    <2> QED BY <1>1, <1>3 DEF Link
  <1>7. /\ y \in Link /\ y.live = l.live /\ y.stream = l.stream /\ y.cursor = l.cursor
        /\ \A c \in y.theirs : c \in l.theirs \/ c.agrees = p.agrees
    <2> DEFINE c == [frame |-> p.frame, agrees |-> p.agrees]
               ts == l.theirs \cup {c}
    <2> HIDE DEF l, p
    <2>1. c \in Claim /\ c.agrees = p.agrees BY <1>3 DEF Claim
    <2>2. ts \in SUBSET Claim BY <1>1, <2>1 DEF Link
    <2>3. \A z \in ts : z \in l.theirs \/ z.agrees = p.agrees BY <2>1
    <2>4. y = [l EXCEPT !.received = p.frame, !.theirs = ts] OBVIOUS
    <2> HIDE DEF c, ts, y
    <2> QED BY <1>1, <1>3, <2>2, <2>3, <2>4 DEF Link
  <1> HIDE DEF x, y
  <1>8. Good(l) BY <1>1, Standing, Claims
  <1>9. Good(x) BY <1>6, <1>1, Standing, Claims
  <1>10. ASSUME Head(u).stream = l.stream PROVE Good(y) BY <1>1, <1>7, <1>10, Standing, Claims
  <1>11. ASSUME NEW z, Good(z), Moves(z), room' = room PROVE Inv'
    <2>1. Bystanders(room, room', g) BY <1>11, TypedNow, SafeSame, SafeBystanders
    <2> HIDE DEF v, l, p
    <2> QED BY <1>2, <1>5, <1>11, <2>1, Standing, ServesAlone DEF FitsRoom
  <1>12. ASSUME room' = Isolate(room, g), Moves(Isolated(l)) PROVE Inv'
    <2>1. Bounded(room) /\ Safe(room, room) BY TypedNow, SafeSame
    <2> HIDE DEF v
    <2> QED BY <1>2, <1>5, <1>8, <1>12, <2>1, Standing, IsolateKeeps
  <1> QED BY <1>4, <1>8, <1>9, <1>10, <1>11, <1>12

-----------------------------------------------------------------------------
(* Catching up                                                             *)

\* A boundary that became known, and for which no answer is awaited.
LEMMA OwnedKnown ==
  ASSUME NEW q, NEW w, NEW issued, NEW out, Owned(q, w, issued, out), NEW out2, NEW g \in Guest,
         \A h \in Guest \ {g} : out2[h] = out[h],
         out2[g] # None => out[g] # None /\ out2[g].id = out[g].id
                           /\ \A j \in DOMAIN w : ~Asks(w[j], out[g].id)
  PROVE  Owned(q, w, issued, out2)
  <1>2. ASSUME NEW i \in DOMAIN w, w[i].kind = "boundary", NEW h \in Guest, out2[h] # None,
               out2[h].id = w[i].id
        PROVE  out2[h].boundary = None /\ out2[h].pending
    BY <1>2 DEF Asks, Owned
  <1> QED BY <1>2 DEF Owned

\* It is asked for once.
LEMMA OwnedBoundary ==
  ASSUME NEW q, NEW w \in Seq(Job), NEW issued, NEW out, Owned(q, w, issued, out), NEW out2,
         NEW g \in Guest, \A h \in Guest \ {g} : out2[h] = out[h],
         out[g] # None /\ ~out[g].pending /\ out[g].boundary = None,
         out2[g] # None /\ out2[g].id = out[g].id /\ out2[g].pending /\ out2[g].boundary = None,
         NEW job \in Job, Asks(job, out[g].id)
  PROVE  Owned(q, Append(w, job), issued, out2)
  <1> DEFINE v == Append(w, job)
  <1>1. /\ v \in Seq(Job) /\ DOMAIN v = DOMAIN w \cup {Len(w) + 1} /\ v[Len(w) + 1] = job
        /\ \A i \in DOMAIN w : v[i] = w[i]
    BY AppendAt
  <1> HIDE DEF v
  <1>2. \A h \in Guest : out2[h] # None => out[h] # None /\ out2[h].id = out[h].id OBVIOUS
  <1>3. \A j \in DOMAIN w : ~Asks(w[j], out[g].id) BY DEF Owned, Asks
  <1>4. ASSUME NEW i \in DOMAIN v, v[i].kind = "boundary"
        PROVE  /\ v[i].id <= issued
               /\ \A j \in DOMAIN v : Asks(v[j], v[i].id) => i = j
               /\ \A h \in Guest : out2[h] # None /\ out2[h].id = v[i].id =>
                    out2[h].boundary = None /\ out2[h].pending
    <2>1. CASE i \in DOMAIN w
      <3>1. v[i] = w[i] BY <1>1, <2>1
      <3>2. ~Asks(w[i], out[g].id) BY <1>3, <2>1
      <3>3. v[i].id # out[g].id BY <1>4, <3>1, <3>2 DEF Asks
      <3>4. ASSUME NEW j \in DOMAIN v, Asks(v[j], v[i].id) PROVE i = j
        BY <3>3, <3>4, <1>1, <1>4, <2>1, <3>1 DEF Asks, Owned
      <3>5. ASSUME NEW h \in Guest, out2[h] # None, out2[h].id = v[i].id
            PROVE  out2[h].boundary = None /\ out2[h].pending
        BY <3>3, <3>5, <1>4, <2>1, <3>1 DEF Owned
      <3>6. v[i].id <= issued BY <1>4, <2>1, <3>1 DEF Owned
      <3> QED BY <3>4, <3>5, <3>6
    <2>2. CASE i \notin DOMAIN w
      <3>1. i = Len(w) + 1 /\ v[i].id = out[g].id BY <1>1, <2>2 DEF Asks
      <3>2. ASSUME NEW j \in DOMAIN v, Asks(v[j], v[i].id) PROVE i = j BY <1>1, <1>3, <3>1, <3>2
      <3>3. ASSUME NEW h \in Guest, out2[h] # None, out2[h].id = v[i].id
            PROVE  out2[h].boundary = None /\ out2[h].pending
        BY <1>2, <3>1, <3>3 DEF Owned
      <3>4. v[i].id <= issued BY <3>1 DEF Owned
      <3> QED BY <3>2, <3>3, <3>4
    <2> QED BY <2>1, <2>2
  <1>5. ASSUME NEW i \in DOMAIN q, q[i].type = "capture", NEW j \in DOMAIN v
        PROVE  ~Asks(v[j], q[i].id)
    BY <1>1, <1>5 DEF Owned, Asks
  <1>6. Owned(q, v, issued, out2) BY <1>2, <1>4, <1>5 DEF Owned
  <1> QED BY <1>6 DEF v

\* The host knows the hash of a boundary.
LEMMA BoundaryKnownKeeps ==
  ASSUME Inv, NEW g \in Guest, NEW h \in Host, h.frame = host.frame, BoundaryKnown(g, h),
         outgoing[g] # None, outgoing[g].cursor # None, outgoing[g].boundary = None,
         ~h.over => Stopping(room.status, room.toHost, h),
         Owned(room.toHost, h.work, room.issued, outgoing),
         \A j \in DOMAIN h.work : ~Asks(h.work[j], outgoing[g].id)
  PROVE  Inv'
  <1> DEFINE o == outgoing[g]
             f == host.frame
             x == [o EXCEPT !.boundary = f, !.pending = FALSE]
             r == CatchupBoundary(room, g, o.id, f)
  <1>1. /\ o \in Maybe(Outgoing) /\ o \in Outgoing /\ o.id \in Nat /\ f \in Nat
    BY Standing, OutgoingType
  <1>2. /\ x \in Outgoing /\ x # None /\ x.id = o.id /\ x.cursor = o.cursor /\ x.boundary = f
        /\ x.marked = o.marked /\ x.frame = o.frame /\ x \in Maybe(Outgoing)
    <2> HIDE DEF o
    <2>1. x \in Outgoing BY <1>1 DEF Outgoing, Maybe
    <2>2. x # None BY <2>1, NoneAssumption
    <2> QED BY <1>1, <2>1, <2>2 DEF Outgoing, Maybe
  <1>3. /\ outgoing' = [outgoing EXCEPT ![g] = x] /\ room' = r /\ host' = h
        /\ Serves(g, x, link[g], down[g], up[g], chunks[g])
    BY Same, Standing DEF BoundaryKnown, Serves
  <1> HIDE DEF x
  <1>4. /\ Bystanders(room, r, g)
        /\ \A l \in Link, e \in Replica, n \in Native, d \in Packets(HostPacket),
              u \in Packets(HashPacket), k \in Seq(Chunk) :
             FitsRoom(g, room, f, o, l, e, n, d, u, k) => FitsRoom(g, r, f, x, l, e, n, d, u, k)
    <2>1. Bounded(room) BY TypedNow
    <2>2. o # None /\ o.cursor # None /\ o.boundary = None OBVIOUS
    <2> HIDE DEF o, f
    <2> QED BY <1>1, <1>2, <2>1, <2>2, BoundaryKeeps
  <1>5. FitsRoom(g, r, f, x, link[g], guest[g], native[g], down[g], up[g], chunks[g])
    BY <1>4, FitsHere, Standing
  <1>6. outgoing \in [Guest -> Maybe(Outgoing)] BY TypedNow DEF Typed
  <1>8. Owned(room.toHost, h.work, room.issued, outgoing') BY <1>2, <1>3, <1>6, OwnedKnown
  <1> HIDE DEF r, o
  <1> QED BY <1>2, <1>3, <1>4, <1>5, <1>8, Standing, ServesKeeps

\* The host fixes a boundary.
LEMMA FixBoundaryKeeps ==
  ASSUME Inv, NEW g \in Guest, FixBoundary(g)
  PROVE  Inv'
  <1> DEFINE o == outgoing[g]
             x == [o EXCEPT !.pending = TRUE]
             job == [kind |-> "boundary", id |-> o.id]
             h == Ask(host, "boundary", o.id)
  <1>1. ~host.over /\ o # None /\ o.cursor # None /\ o.boundary = None /\ ~o.pending
    BY DEF FixBoundary
  <1>2. Owned(room.toHost, host.work, room.issued, outgoing) BY DEF Inv
  <1>3. Stopping(room.status, room.toHost, host) BY <1>1 DEF Inv
  <1>4. CASE BoundaryKnown(g, host)
    BY <1>1, <1>2, <1>3, <1>4, Standing, BoundaryKnownKeeps DEF Owned, Asks
  <1>5. CASE host' = h /\ outgoing' = [outgoing EXCEPT ![g].pending = TRUE]
             /\ UNCHANGED <<room, link, down, up, chunks, guest, native>>
    <2>1. o \in Outgoing /\ o.id \in Nat /\ o.frame \in Nat BY <1>1, Standing, OutgoingType
    <2>2. /\ x \in Outgoing /\ x # None /\ x.id = o.id /\ x.cursor = o.cursor /\ x.pending
          /\ x.boundary = o.boundary /\ x.marked = o.marked /\ x.frame = o.frame
          /\ x \in Maybe(Outgoing)
      <3> HIDE DEF o
      <3>1. x \in Outgoing BY <2>1 DEF Outgoing
      <3>2. x # None BY <3>1, NoneAssumption
      <3> QED BY <2>1, <3>1, <3>2 DEF Outgoing, Maybe
    <2>3. /\ outgoing' = [outgoing EXCEPT ![g] = x]
          /\ Serves(g, x, link[g], down[g], up[g], chunks[g])
      BY <1>5, Same, Standing DEF Serves
    <2> HIDE DEF x
    <2>4. o.frame <= host.frame BY <1>1, Standing DEF Fits, Past
    <2>6. FitsRoom(g, room', host.frame, x, link[g], guest[g], native[g], down[g], up[g], chunks[g])
      BY <1>5, <1>1, <2>2, <2>4, Standing, Prepared DEF FitsRoom
    <2>7. job \in Job /\ Asks(job, o.id) BY <2>1 DEF Job, Asks
    <2>8. outgoing'[g] = x /\ \A m \in Guest \ {g} : outgoing'[m] = outgoing[m]
      BY TypedNow, <2>3 DEF Typed
    <2> HIDE DEF job
    <2>9. Owned(room.toHost, Append(host.work, job), room.issued, outgoing')
      BY <1>1, <1>2, <2>2, <2>7, <2>8, Standing, OwnedBoundary
    <2>10. /\ h \in Host /\ Stopping(room.status, room.toHost, h) /\ h.frame = host.frame
           /\ h.work = Append(host.work, job)
      BY <1>3, <2>1, Standing, StoppingAsked DEF job
    <2>11. Bystanders(room, room', g) BY <1>5, TypedNow, SafeSame, SafeBystanders
    <2> HIDE DEF h
    <2> QED BY <1>5, <2>2, <2>3, <2>6, <2>9, <2>10, <2>11, Standing, ServesKeeps
  <1> QED BY <1>1, <1>4, <1>5 DEF FixBoundary

\* The host gives a transfer up.
LEMMA FailOutgoingKeeps ==
  ASSUME Inv, NEW g \in Guest, FailOutgoing(g), outgoing[g] # None
  PROVE  Inv'
  <1> DEFINE l == link[g]
             x == [l EXCEPT !.live = FALSE]
  <1>1. /\ Serves(g, None, x, down[g], up[g], chunks[g]) /\ host' = host
        /\ room' = CheckpointFailed(room, g, outgoing[g].id)
    BY Same, Standing DEF FailOutgoing, Serves
  <1>2. /\ x \in Link /\ x.stream = l.stream /\ x.cursor = l.cursor /\ ~x.live /\ x.theirs = l.theirs
    <2>1. l \in Link BY Standing
    <2> HIDE DEF l
    <2> QED BY <2>1 DEF Link
  <1> HIDE DEF x
  <1>4. Fits(g, host.frame, room.issued, room.toHost, room.transfer[g], room.toGuest[g],
             None, x, guest[g], native[g], down[g], up[g], chunks[g])
    BY <1>2, Standing, Unserved, DropOutgoing
  <1>5. Safe(room, room') BY <1>1, TypedNow, SafeFailed
  <1>6. None \in Maybe(Outgoing) BY DEF Maybe
  <1>7. FitsRoom(g, room', host.frame, None, x, guest[g], native[g], down[g], up[g], chunks[g])
    BY <1>4, <1>2, <1>5, <1>6, Standing DEF FitsRoom, Safe, KeepsGuest
  <1> QED BY <1>1, <1>2, <1>5, <1>6, <1>7, Standing, SafeBystanders, ServesAlone

\* The host replays up to the boundary and marks it.
LEMMA CatchupKeeps ==
  ASSUME Inv, NEW g \in Guest, Catchup(g)
  PROVE  Inv'
  <1> DEFINE o == outgoing[g]
             l == link[g]
             e == guest[g]
             d == down[g]
             Good(x, m, w) ==
               /\ x \in Maybe(Outgoing) /\ m \in Link /\ w \in Packets(HostPacket)
               /\ Fits(g, host.frame, room.issued, room.toHost, room.transfer[g], room.toGuest[g],
                       x, m, e, native[g], w, up[g], chunks[g])
  <1>1. /\ o # None /\ o.cursor # None /\ o.boundary # None /\ ~o.marked BY DEF Catchup
  <1>2. /\ o \in Outgoing /\ o.id \in Nat /\ o.frame \in Nat /\ o.cursor \in Nat
        /\ o.boundary \in Nat /\ o.pending \in BOOLEAN
    BY <1>1, Standing, OutgoingType
  <1>3. /\ o.id = e.stream /\ l.stream = o.id /\ o.cursor <= o.boundary
        /\ e.run => o.cursor = End(e, d)
        /\ \A i \in DOMAIN room.toHost :
             Of(room.toHost[i], "catchup", g) => room.toHost[i].id # o.id
    BY <1>1, Standing DEF Fits, Served, Streams
  <1>4. l.stream \in Nat /\ e.stream \in Nat BY <1>2, <1>3
  <1>5. ASSUME NEW x, NEW m, NEW w, Good(x, m, w), x # None, x.id = o.id, x.boundary = o.boundary,
               x.pending = o.pending, Serves(g, x, m, w, up[g], chunks[g]), room' = room, host' = host
        PROVE  Inv'
    BY <1>5, TypedNow, SafeSame, SafeBystanders, <1>1, Standing, ServesAlone DEF FitsRoom
  <1>6. CASE FailOutgoing(g) BY <1>1, <1>6, FailOutgoingKeeps
  <1>7. CASE /\ o.cursor < o.boundary
             /\ down' = [down EXCEPT ![g] = d \o WithHash(host, l.stream, o.cursor)]
             /\ outgoing' = [outgoing EXCEPT ![g].cursor = o.cursor + 1]
             /\ UNCHANGED <<room, host, link, up, chunks, guest, native>>
    <2> DEFINE x == [o EXCEPT !.cursor = o.cursor + 1]
               v == d \o WithHash(host, l.stream, o.cursor)
               pk == Packet(l.stream, Frame(o.cursor))
               hash == Packet(l.stream, Hash(o.cursor + 1, TRUE))
    <2>1. /\ x \in Outgoing /\ x # None /\ x.id = o.id /\ x.cursor = o.cursor + 1
          /\ x.boundary = o.boundary /\ x.marked = o.marked /\ x.frame = o.frame
          /\ x.pending = o.pending /\ x \in Maybe(Outgoing)
      <3> HIDE DEF o
      <3>1. x \in Outgoing BY <1>2 DEF Outgoing, Maybe
      <3>2. x # None BY <3>1, NoneAssumption
      <3> QED BY <1>2, <3>1, <3>2 DEF Outgoing, Maybe
    <2>2. Serves(g, x, l, v, up[g], chunks[g]) BY <1>7, Same, Standing DEF Serves
    <2> HIDE DEF x
    <2>3. Sends(d, v, pk, hash, l.stream, o.cursor)
      <3>1. d \in Packets(HostPacket) BY Standing
      <3> HIDE DEF d, l, o
      <3> QED BY <1>2, <1>4, <3>1, FrameSent
    <2> HIDE DEF v, pk, hash
    <2>4. /\ IsPacket(pk) /\ pk.stream = l.stream /\ pk.p.kind = "frame" /\ pk.p.frame = o.cursor
          /\ IsPacket(hash) /\ hash.stream = l.stream /\ hash.p.kind = "hash"
          /\ hash.p.frame = o.cursor + 1
          /\ v = Append(d, pk) \/ v = Append(Append(d, pk), hash)
      BY <2>3 DEF Sends
    <2>5. Good(x, l, Append(d, pk)) BY <2>4, Standing, PacketAppend, <1>1, <1>7, <2>1, Replayed
    <2>6. Good(x, l, Append(Append(d, pk), hash))
      <3> DEFINE w == Append(d, pk)
      <3>1. w \in Packets(HostPacket) BY <2>5
      <3>2. x.cursor # None BY <1>2, <2>1, NoneAssumption
      <3>3. e.run => x.cursor = End(e, w) BY <1>1, <2>1, <2>5, <3>2 DEF Fits, Served
      <3>4. hash.stream <= e.stream BY <1>3, <1>4, <2>4
      <3>5. e.run => hash.p.frame <= End(e, w) BY <1>2, <2>1, <2>4, <3>3
      <3>6. Append(w, hash) \in Packets(HostPacket) BY <2>4, <3>1, PacketAppend
      <3>7. \A i \in DOMAIN room.toHost :
              Of(room.toHost[i], "catchup", g) => room.toHost[i].id # hash.stream
        BY <1>3, <2>4
      <3> HIDE DEF w
      <3> QED BY <2>1, <2>4, <2>5, <3>1, <3>4, <3>5, <3>6, <3>7, Standing, Sent DEF w
    <2>7. Good(x, l, v) BY <2>4, <2>5, <2>6
    <2> HIDE DEF o, l, d, e
    <2> QED BY <1>5, <1>7, <2>1, <2>2, <2>7
  <1>8. CASE /\ ~(o.cursor < o.boundary)
             /\ down' = [down EXCEPT ![g] =
                           Append(d, Packet(o.id, [kind |-> "live", frame |-> o.boundary]))]
             /\ outgoing' = [outgoing EXCEPT ![g].marked = TRUE]
             /\ link' = [link EXCEPT ![g].cursor = o.boundary, ![g].live = TRUE]
             /\ UNCHANGED <<room, host, up, chunks, guest, native>>
    <2> DEFINE x == [o EXCEPT !.marked = TRUE]
               m == [l EXCEPT !.cursor = o.boundary, !.live = TRUE]
               pk == Packet(o.id, [kind |-> "live", frame |-> o.boundary])
               w == Append(d, pk)
    <2>1. /\ x \in Outgoing /\ x # None /\ x.id = o.id /\ x.cursor = o.cursor
          /\ x.boundary = o.boundary /\ x.marked /\ x.frame = o.frame
          /\ x.pending = o.pending /\ x \in Maybe(Outgoing)
      <3> HIDE DEF o
      <3>1. x \in Outgoing BY <1>2 DEF Outgoing, Maybe
      <3>2. x # None BY <3>1, NoneAssumption
      <3> QED BY <1>2, <3>1, <3>2 DEF Outgoing, Maybe
    <2>2. /\ m \in Link /\ m.live /\ m.stream = l.stream /\ m.cursor = o.boundary
          /\ m.theirs = l.theirs
      <3>1. l \in Link BY Standing
      <3> HIDE DEF l, o
      <3> QED BY <1>2, <3>1 DEF Link
    <2>3. Serves(g, x, m, w, up[g], chunks[g]) BY <1>8, Same, Standing DEF Serves
    <2>4. IsPacket(pk) /\ pk.stream = o.id /\ pk.p.kind = "live" /\ pk.p.frame = o.boundary
      BY <1>2 DEF IsPacket, Packet, HostPacket
    <2> HIDE DEF x, m, pk
    <2>5. w \in Packets(HostPacket) BY <2>4, Standing, PacketAppend
    <2>6. pk.stream <= e.stream BY <1>3, <1>4, <2>4
    <2>7. e.run => pk.p.frame <= End(e, d) BY <1>2, <1>3, <1>8, <2>4
    <2>9. Fits(g, host.frame, room.issued, room.toHost, room.transfer[g], room.toGuest[g],
               o, l, e, native[g], w, up[g], chunks[g])
      BY <2>4, <2>6, <2>7, <1>3, Standing, Sent
    <2> HIDE DEF w
    <2>10. Good(x, m, w) BY <1>1, <1>8, <2>1, <2>2, <2>5, <2>9, Standing, Marked
    <2> HIDE DEF o, l, d, e
    <2> QED BY <1>5, <1>8, <2>1, <2>3, <2>10
  <1> QED BY <1>6, <1>7, <1>8 DEF Catchup

\* The steps of the host for one guest.
LEMMA ServeKeeps ==
  ASSUME Inv, NEW g \in Guest, Serve(g)
  PROVE  Inv'
  BY HostCapturedKeeps, PumpLinkKeeps, LoseLinkKeeps, FixBoundaryKeeps, CatchupKeeps,
     HostReceiveKeeps DEF Serve

\* The steps of a guest.
LEMMA GuestStepKeeps ==
  ASSUME Inv, NEW g \in Guest, GuestStep(g)
  PROVE  Inv'
  BY GuestDispatchKeeps, GuestAnswerKeeps, GuestReceiveKeeps, GuestChunksKeeps, GuestEventKeeps
  DEF GuestStep

-----------------------------------------------------------------------------
(* The host's own steps                                                    *)

\* What the host sends a guest is given up, or prepared.
Prepares(o, x, f) ==
  x # None =>
    /\ o # None /\ x.id = o.id /\ x.cursor = o.cursor /\ x.boundary = o.boundary
    /\ x.marked = o.marked /\ x.pending = o.pending /\ x.frame <= f

\* Transfers that are left alone.
LEMMA PreparesSame ==
  ASSUME Inv, NEW g \in Guest
  PROVE  Prepares(outgoing[g], outgoing[g], host.frame)
  BY Standing DEF Prepares, Fits, Past

\* A host that goes on well keeps the invariant.
LEMMA HostKeeps ==
  ASSUME Inv, host' \in Host, host.frame <= host'.frame,
         outgoing' \in [Guest -> Maybe(Outgoing)],
         \A g \in Guest : Prepares(outgoing[g], outgoing'[g], host.frame),
         UNCHANGED <<link, down, up, chunks, guest, native>>,
         Bounded(room'), \A g \in Guest : KeepsGuest(g, room, room'),
         ~host'.over => Stopping(room'.status, room'.toHost, host'),
         Owned(room'.toHost, host'.work, room'.issued, outgoing')
  PROVE  Inv'
  <1>1. TypeOK' BY TypedNow DEF Typed, TypeOK, Bounded
  <1>2. host.frame \in Nat /\ host'.frame \in Nat BY HostType, TypedNow DEF Typed
  <1>3. ASSUME NEW g \in Guest PROVE FitsNow(g)'
    <2> DEFINE o == outgoing[g]
               x == outgoing'[g]
    <2>1. x \in Maybe(Outgoing) OBVIOUS
    <2>2. o # None => (o.pending => o.cursor # None) BY Standing DEF Fits, Served
    <2>3. Fits(g, host.frame, room.issued, room.toHost, room.transfer[g], room.toGuest[g],
               x, link[g], guest[g], native[g], down[g], up[g], chunks[g])
      <3>1. CASE x = None BY <3>1, Standing, DropOutgoing
      <3>2. CASE x # None
        <4>1. /\ o # None /\ x.id = o.id /\ x.cursor = o.cursor /\ x.boundary = o.boundary
              /\ x.marked = o.marked /\ x.pending = o.pending /\ x.frame <= host.frame
          BY <3>2 DEF Prepares
        <4> HIDE DEF x
        <4> QED BY <2>1, <2>2, <3>2, <4>1, Standing, Prepared
      <3> QED BY <3>1, <3>2
    <2> HIDE DEF x
    <2>5. FitsRoom(g, room, host'.frame, x, link[g], guest[g], native[g], down[g], up[g], chunks[g])
      BY <1>2, <2>1, <2>3, Standing, Later DEF FitsRoom
    <2> QED BY <1>2, <2>1, <2>5, Standing DEF FitsNow, FitsRoom, x, KeepsGuest
  <1> QED BY <1>1, <1>3 DEF Inv

\* The coordinator's game stays as it is.
LEMMA HostGoesOn ==
  ASSUME Inv, host' \in Host, host.frame <= host'.frame,
         outgoing' \in [Guest -> Maybe(Outgoing)],
         \A g \in Guest : Prepares(outgoing[g], outgoing'[g], host.frame),
         UNCHANGED <<room, link, down, up, chunks, guest, native>>,
         ~host'.over => Stopping(room.status, room.toHost, host'),
         Owned(room.toHost, host'.work, room.issued, outgoing)
  PROVE  Inv'
BY TypedNow, OwnedLess, HostKeeps DEF KeepsGuest, Prepares

\* One frame runs at a time.
LEMMA StoppingFrame ==
  ASSUME NEW status, NEW q, NEW h \in Host, Stopping(status, q, h), ~h.frozen, ~h.pausedSent,
         ~Awaits(h.work, "frame")
  PROVE  /\ Ask(h, "frame", 0) \in Host /\ Stopping(status, q, Ask(h, "frame", 0))
         /\ Ask(h, "frame", 0).frame = h.frame
         /\ Ask(h, "frame", 0).work = Append(h.work, [kind |-> "frame", id |-> 0])
  <1> DEFINE job == [kind |-> "frame", id |-> 0]
             x == Ask(h, "frame", 0)
             w == h.work
  <1>1. job \in Job /\ job.kind = "frame" /\ h.work \in Seq(Job) BY HostType DEF Job
  <1>2. x = [h EXCEPT !.work = Append(h.work, job)] BY DEF Ask
  <1> HIDE DEF job
  <1>3. /\ Append(w, job) \in Seq(Job) /\ DOMAIN Append(w, job) = DOMAIN w \cup {Len(w) + 1}
        /\ \A i \in DOMAIN w : Append(w, job)[i] = w[i]
        /\ Append(w, job)[Len(w) + 1] = job
    BY <1>1, AppendAt
  <1> HIDE DEF x
  <1>4. /\ x \in Host /\ x.frame = h.frame /\ x.pausedSent = h.pausedSent /\ x.frozen = h.frozen
        /\ x.work = Append(w, job)
    BY <1>2, <1>3 DEF Host
  <1>5. ~Awaits(h.work, "hold") /\ ~Has(q, "pauseAt") BY DEF Stopping
  <1>6. ~Awaits(x.work, "hold") BY <1>1, <1>3, <1>4, <1>5 DEF Awaits
  <1>8. \A i \in DOMAIN x.work : x.work[i].kind # "hold" BY <1>6 DEF Awaits
  <1>9. Stopping(status, q, x) BY <1>4, <1>5, <1>6, <1>3, <1>8 DEF Stopping, Awaits
  <1> QED BY <1>4, <1>9 DEF x, job

\* The host runs the next frame.
LEMMA HostDispatchKeeps ==
  ASSUME Inv, HostDispatch
  PROVE  Inv'
  <1> DEFINE job == [kind |-> "frame", id |-> 0]
  <1>1. /\ host \in Host /\ host.work \in Seq(Job) /\ host.frame \in Nat
        /\ outgoing \in [Guest -> Maybe(Outgoing)]
    BY TypedNow, HostType DEF Typed
  <1>2. /\ ~host.over /\ ~host.frozen /\ ~host.pausedSent /\ ~Awaits(host.work, "frame")
        /\ host' = Ask(host, "frame", 0)
        /\ UNCHANGED <<room, link, outgoing, down, up, chunks, guest, native>>
    BY DEF HostDispatch, HostIsRunning
  <1>3. Stopping(room.status, room.toHost, host) BY <1>2 DEF Inv
  <1>4. /\ host' \in Host /\ Stopping(room.status, room.toHost, host') /\ host'.frame = host.frame
        /\ host'.work = Append(host.work, job)
    BY <1>1, <1>2, <1>3, StoppingFrame
  <1>5. job \in Job /\ job.kind # "boundary" BY DEF Job
  <1>6. Owned(room.toHost, host.work, room.issued, outgoing) BY DEF Inv
  <1> HIDE DEF job
  <1>7. Owned(room.toHost, host'.work, room.issued, outgoing) BY <1>1, <1>4, <1>5, <1>6, OwnedAsked
  <1> QED BY <1>1, <1>2, <1>4, <1>7, PreparesSame, HostGoesOn

\* Somebody pauses: the host freezes.
LEMMA PauseKeeps ==
  ASSUME Inv, Pause
  PROVE  Inv'
  <1> DEFINE x == [host EXCEPT !.frozen = TRUE]
  <1>1. /\ host' = x /\ room' = Freeze(room) /\ ~host.over
        /\ UNCHANGED <<link, outgoing, down, up, chunks, guest, native>>
    BY DEF Pause
  <1>2. host \in Host /\ outgoing \in [Guest -> Maybe(Outgoing)] BY TypedNow DEF Typed
  <1>3. /\ x \in Host /\ x.frame = host.frame /\ x.work = host.work
        /\ x.pausedSent = host.pausedSent /\ x.frozen
    BY <1>2 DEF Host
  <1> HIDE DEF x
  <1>4. Stopping(room.status, room.toHost, host) BY <1>1 DEF Inv
  <1>5. Stopping(room.status, room.toHost, x) BY <1>3, <1>4 DEF Stopping
  <1>6. Safe(room, room') BY <1>1, TypedNow, SafeFreeze
  <1>7. Owned(room.toHost, host.work, room.issued, outgoing) BY DEF Inv
  <1>8. Stopping(room'.status, room'.toHost, x) BY <1>3, <1>5, <1>6 DEF Safe, KeepsHost
  <1>9. Owned(room'.toHost, x.work, room'.issued, outgoing)
    BY <1>2, <1>3, <1>6, <1>7, HostType DEF Safe, KeepsHost
  <1>10. host.frame <= host'.frame BY <1>1, <1>2, <1>3, HostType
  <1> QED BY <1>1, <1>2, <1>3, <1>6, <1>8, <1>9, <1>10, PreparesSame, HostKeeps DEF Safe

-----------------------------------------------------------------------------
(* The answers that the host reads                                         *)

\* What a host that reads an answer keeps.
Reads(h) ==
  /\ h \in Host /\ h.frame = host.frame /\ h.over = host.over /\ h.fence = host.fence
  /\ h.pausedSent = host.pausedSent /\ h.hashes = host.hashes /\ h.frozen = host.frozen
  /\ h.work = Tail(host.work)
  /\ Stopping(room.status, room.toHost, h)
  /\ Owned(room.toHost, h.work, room.issued, outgoing)
  /\ Head(host.work).kind \in {"frame", "hold"} => ~Awaits(h.work, "frame")
  /\ Head(host.work).kind = "hold" =>
       ~Awaits(h.work, "hold") /\ ~Has(room.toHost, "freeze") /\ ~Has(room.toHost, "pauseAt")
       /\ h.frozen
  /\ Head(host.work).kind = "boundary" =>
       \A j \in DOMAIN h.work : ~Asks(h.work[j], Head(host.work).id)

\* What the worker answered first is no longer awaited.
LEMMA HostAnswered ==
  ASSUME Inv, ~host.over, host.work # <<>>
  PROVE  Reads([host EXCEPT !.work = Tail(host.work)])
  <1> DEFINE h == [host EXCEPT !.work = Tail(host.work)]
  <1>1. host \in Host /\ host.work \in Seq(Job) BY TypedNow, HostType DEF Typed
  <1>2. Tail(host.work) \in Seq(Job) BY <1>1, TailAt
  <1>3. /\ h \in Host /\ h.frame = host.frame /\ h.over = host.over /\ h.fence = host.fence
        /\ h.pausedSent = host.pausedSent /\ h.hashes = host.hashes /\ h.frozen = host.frozen
        /\ h.work = Tail(host.work)
    BY <1>1, <1>2 DEF Host
  <1> HIDE DEF h
  <1>4. Stopping(room.status, room.toHost, host) BY DEF Inv
  <1>5. Owned(room.toHost, host.work, room.issued, outgoing) BY DEF Inv
  <1>7. /\ Owned(room.toHost, h.work, room.issued, outgoing)
        /\ Head(host.work).kind = "boundary" =>
             \A j \in DOMAIN h.work : ~Asks(h.work[j], Head(host.work).id)
    BY <1>1, <1>3, <1>5, OwnedPopped
  <1> QED BY <1>3, <1>1, <1>4, StoppingPopped, <1>7 DEF Reads, h

\* The host commits a frame.
LEMMA CommitKeeps ==
  ASSUME Inv, ~host.over, NEW answered, Reads(answered), ~Awaits(answered.work, "frame"),
         Commit(answered)
  PROVE  Inv'
  <1> DEFINE next   == [answered EXCEPT !.frame = answered.frame + 1]
             asking == {g \in Guest : outgoing[g] # None /\ outgoing[g].capture = "none"}
             export == IF asking = {} \/ Awaits(next.work, "export") THEN next
                       ELSE Ask(next, "export", 0)
             held   == [export EXCEPT !.hashing = TRUE]
             Fine(h) == /\ h \in Host /\ h.frame = host.frame + 1
                        /\ Stopping(room.status, room.toHost, h)
                        /\ Owned(room.toHost, h.work, room.issued, outgoing)
             Idles(h) == ~Awaits(h.work, "frame")
  <1>1. /\ answered \in Host /\ answered.frame = host.frame /\ host.frame \in Nat
        /\ outgoing \in [Guest -> Maybe(Outgoing)] /\ answered.work \in Seq(Job)
    BY TypedNow, HostType DEF Typed, Reads
  <1>2. Fine(next) /\ Idles(next)
    <2>1. /\ next \in Host /\ next.frame = host.frame + 1 /\ next.work = answered.work
          /\ next.pausedSent = answered.pausedSent /\ next.frozen = answered.frozen
      BY <1>1 DEF Host
    <2> HIDE DEF next
    <2>2. Stopping(room.status, room.toHost, next) BY <2>1 DEF Stopping, Reads
    <2> QED BY <2>1, <2>2 DEF Reads
  <1> HIDE DEF next
  <1>3. ASSUME NEW h, Fine(h), NEW kind \in {"interval", "export"} PROVE Fine(Ask(h, kind, 0))
    <2> DEFINE job == [kind |-> kind, id |-> 0]
    <2>1. /\ Ask(h, kind, 0) \in Host /\ Stopping(room.status, room.toHost, Ask(h, kind, 0))
          /\ Ask(h, kind, 0).frame = h.frame /\ Ask(h, kind, 0).work = Append(h.work, job)
      BY <1>3, StoppingAsked
    <2>2. job \in Job /\ job.kind # "boundary" /\ h.work \in Seq(Job) BY <1>3, HostType DEF Job
    <2> HIDE DEF job
    <2>3. Owned(room.toHost, Append(h.work, job), room.issued, outgoing) BY <1>3, <2>2, OwnedAsked
    <2> QED BY <1>3, <2>1, <2>3
  <1>4. Fine(export) /\ Idles(export)
    <2>1. Idles(Ask(next, "export", 0)) BY <1>2, StoppingAsked
    <2>2. Fine(Ask(next, "export", 0)) BY <1>2, <1>3
    <2> HIDE DEF asking
    <2> QED BY <1>2, <2>1, <2>2
  <1> HIDE DEF export
  <1>5. Fine(FinishPause(export)) BY <1>4, HostPauseSent
  <1>6. Fine(held)
    <2>1. /\ held \in Host /\ held.frame = export.frame /\ held.work = export.work
          /\ held.pausedSent = export.pausedSent /\ held.frozen = export.frozen
      BY <1>4 DEF Host
    <2> HIDE DEF held
    <2>2. Stopping(room.status, room.toHost, held) BY <1>4, <2>1 DEF Stopping
    <2> QED BY <1>4, <2>1, <2>2
  <1> HIDE DEF held
  <1>8. Fine(host') BY <1>3, <1>4, <1>5, <1>6 DEF Commit, next, asking, export, held
  <1>9. /\ outgoing' = [g \in Guest |-> IF g \in asking THEN [outgoing[g] EXCEPT !.capture = "asked"]
                                        ELSE outgoing[g]]
        /\ UNCHANGED <<room, link, down, up, chunks, guest, native>>
    BY DEF Commit
  <1>10. ASSUME NEW g \in Guest
         PROVE  outgoing'[g] \in Maybe(Outgoing) /\ Prepares(outgoing[g], outgoing'[g], host.frame)
    <2> DEFINE o == outgoing[g]
               x == [o EXCEPT !.capture = "asked"]
    <2>1. CASE g \in asking
      <3>1. o # None /\ outgoing'[g] = x BY <1>9, <2>1
      <3>2. o \in Outgoing /\ o.frame <= host.frame BY <3>1, Standing, OutgoingType DEF Fits, Past
      <3> HIDE DEF o
      <3>3. /\ x \in Outgoing /\ x.id = o.id /\ x.cursor = o.cursor /\ x.boundary = o.boundary
            /\ x.marked = o.marked /\ x.pending = o.pending /\ x.frame = o.frame
        BY <3>2 DEF Outgoing
      <3> HIDE DEF x
      <3>4. x \in Maybe(Outgoing) /\ Prepares(o, x, host.frame)
        BY <3>1, <3>2, <3>3 DEF Maybe, Prepares
      <3> QED BY <3>1, <3>4 DEF o
    <2>2. CASE g \notin asking BY <1>9, <2>2, Standing, PreparesSame
    <2> QED BY <2>1, <2>2
  <1> HIDE DEF asking
  <1>11. outgoing' \in [Guest -> Maybe(Outgoing)] BY <1>9, <1>10
  <1>12. host.frame <= host'.frame BY <1>1, <1>8
  <1> QED BY <1>8, <1>9, <1>10, <1>11, <1>12, HostGoesOn

\* The host holds the checkpoint.
LEMMA ExportedKeeps ==
  ASSUME Inv, ~host.over, NEW answered, Reads(answered), Exported(answered)
  PROVE  Inv'
  <1> DEFINE f == host.frame
  <1>1. /\ answered \in Host /\ answered.frame = f /\ f \in Nat
        /\ outgoing \in [Guest -> Maybe(Outgoing)]
    BY TypedNow, HostType DEF Typed, Reads
  <1>2. /\ outgoing' = [g \in Guest |-> IF Exporting(outgoing[g])
                          THEN [outgoing[g] EXCEPT !.capture = "made", !.frame = f]
                          ELSE outgoing[g]]
        /\ host' = answered /\ UNCHANGED <<room, link, down, up, chunks, guest, native>>
    BY DEF Exported
  <1>3. ASSUME NEW g \in Guest
        PROVE  outgoing'[g] \in Maybe(Outgoing) /\ Prepares(outgoing[g], outgoing'[g], f)
    <2> DEFINE o == outgoing[g]
               x == [o EXCEPT !.capture = "made", !.frame = f]
    <2>1. CASE Exporting(outgoing[g])
      <3>1. o # None /\ outgoing'[g] = x BY <1>2, <2>1 DEF Exporting
      <3>2. o \in Outgoing BY <3>1, Standing, OutgoingType
      <3> HIDE DEF o, f
      <3>3. /\ x \in Outgoing /\ x.id = o.id /\ x.cursor = o.cursor /\ x.boundary = o.boundary
            /\ x.marked = o.marked /\ x.pending = o.pending /\ x.frame = f
        BY <1>1, <3>2 DEF Outgoing
      <3> HIDE DEF x
      <3>4. x \in Maybe(Outgoing) /\ Prepares(o, x, f) BY <1>1, <3>1, <3>3 DEF Maybe, Prepares
      <3> QED BY <3>1, <3>4 DEF o
    <2>2. CASE ~Exporting(outgoing[g]) BY <1>2, <2>2, Standing, PreparesSame
    <2> QED BY <2>1, <2>2
  <1>4. outgoing' \in [Guest -> Maybe(Outgoing)] BY <1>2, <1>3
  <1>5. host.frame <= host'.frame
    <2>1. host' = answered BY <1>2
    <2> QED BY <1>1, <2>1
  <1> QED BY <1>1, <1>2, <1>3, <1>4, <1>5, HostGoesOn DEF Reads

\* A pause depends on little of the host.
LEMMA StoppingSame ==
  ASSUME NEW status, NEW q, NEW h, Stopping(status, q, h), NEW x, x.work = h.work,
         x.pausedSent = h.pausedSent, x.frozen = h.frozen
  PROVE  Stopping(status, q, x)
  BY DEF Stopping

\* The hash of a pause, and an answer that nobody awaits any more.
LEMMA PausedKeeps ==
  ASSUME Inv, ~host.over, NEW answered, Reads(answered), NEW hashes \in SUBSET Nat,
         host' = [answered EXCEPT !.hashes = hashes],
         UNCHANGED <<room, link, outgoing, down, up, chunks, guest, native>>
  PROVE  Inv'
  <1>1. /\ answered \in Host /\ answered.frame = host.frame /\ host.frame \in Nat
        /\ outgoing \in [Guest -> Maybe(Outgoing)]
    BY TypedNow, HostType DEF Typed, Reads
  <1>2. /\ host' \in Host /\ host'.frame = host.frame /\ host'.work = answered.work
        /\ host'.pausedSent = answered.pausedSent /\ host'.frozen = answered.frozen
    BY <1>1 DEF Host
  <1>3. Stopping(room.status, room.toHost, host') BY <1>2, StoppingSame DEF Reads
  <1>4. host.frame <= host'.frame BY <1>1, <1>2
  <1> QED BY <1>1, <1>2, <1>3, <1>4, PreparesSame, HostGoesOn DEF Reads

\* The guests that are isolated ask one after another.
LEMMA OrdersType ==
  ASSUME NEW S, S \subseteq Guest, NEW order \in Orders(S)
  PROVE  /\ order \in Seq(Guest) /\ \A i \in DOMAIN order : order[i] \in S
         /\ \A i, j \in DOMAIN order : order[i] = order[j] => i = j
BY TimelineAssumption, FS_Subset, FS_CardinalityType DEF Orders

\* The host knows the hash of an interval.
LEMMA HostHashKeeps ==
  ASSUME Inv, ~host.over, NEW answered, Reads(answered), HostHash(answered)
  PROVE  Inv'
  <1> DEFINE f == host.frame
             faults == {g \in Guest : [frame |-> f, agrees |-> FALSE] \in link[g].theirs}
             hash(g) == Packet(link[g].stream, Hash(f, TRUE))
             asking == {g \in faults : ~link[g].recovering /\ room.transfer[g] = None}
  <1>1. /\ answered \in Host /\ answered.frame = f /\ f \in Nat /\ answered.hashes \in SUBSET Nat
        /\ host.hashes \in SUBSET Nat
        /\ outgoing \in [Guest -> Maybe(Outgoing)] /\ link \in [Guest -> Link]
        /\ down \in [Guest -> Packets(HostPacket)]
    BY TypedNow, HostType DEF Typed, Reads
  <1>2. CASE host.pausedSent BY <1>2, <1>1, PreparesSame, HostGoesOn DEF HostHash, Reads
  <1>3. CASE ~host.pausedSent
    <2>1. /\ host' = [answered EXCEPT !.hashing = FALSE, !.hashes = answered.hashes \cup {f}]
          /\ down' = [g \in Guest |-> IF link[g].live /\ link[g].cursor = f
                                      THEN Append(down[g], hash(g)) ELSE down[g]]
          /\ link' = [g \in Guest |-> IF g \in faults THEN Isolated(link[g])
                        ELSE [link[g] EXCEPT !.theirs = {t \in link[g].theirs : t.frame # f}]]
          /\ \/ room' = room
             \/ \E order \in Orders(asking) : room' = CaptureEach(room, order)
          /\ UNCHANGED <<outgoing, up, chunks, guest, native>>
      BY <1>3 DEF HostHash
    <2>2. /\ host' \in Host /\ host'.frame = f /\ host'.work = answered.work
          /\ host'.pausedSent = answered.pausedSent /\ host'.frozen = answered.frozen
      BY <1>1, <2>1 DEF Host
    <2>3. Safe(room, room')
      <3>1. CASE room' = room BY <3>1, TypedNow, SafeSame
      <3>2. ASSUME NEW order \in Orders(asking), room' = CaptureEach(room, order)
            PROVE  Safe(room, room')
        <4>1. /\ order \in Seq(Guest) /\ \A i \in DOMAIN order : order[i] \in asking
              /\ \A i, j \in DOMAIN order : order[i] = order[j] => i = j
          <5>1. asking \subseteq Guest OBVIOUS
          <5> HIDE DEF asking
          <5> QED BY <5>1, OrdersType
        <4>2. \A i \in DOMAIN order : room.transfer[order[i]] = None BY <4>1
        <4> HIDE DEF asking
        <4> QED BY <3>2, <4>1, <4>2, TypedNow, SafeEach
      <3> QED BY <2>1, <3>1, <3>2
    <2>4. ASSUME NEW g \in Guest
          PROVE  /\ down'[g] \in Packets(HostPacket) /\ link'[g] \in Link
                 /\ FitsRoom(g, room, f, outgoing[g], link'[g], guest[g], native[g], down'[g],
                             up[g], chunks[g])
      <3> DEFINE l == link[g]
                 e == guest[g]
                 d == down[g]
                 pk == hash(g)
                 w == down'[g]
                 m == link'[g]
                 rest == [l EXCEPT !.theirs = {t \in l.theirs : t.frame # f}]
      <3>1. /\ w = IF l.live /\ l.cursor = f THEN Append(d, pk) ELSE d
            /\ m = IF g \in faults THEN Isolated(l) ELSE rest
        BY <2>1
      <3>2. l \in Link /\ l.stream \in Nat /\ d \in Packets(HostPacket) BY Standing, LinkType
      <3>3. /\ m \in Link /\ m.stream = l.stream /\ m.cursor = l.cursor /\ (m.live => l.live)
            /\ m.theirs \subseteq l.theirs
        <4>1. /\ rest \in Link /\ rest.stream = l.stream /\ rest.cursor = l.cursor
              /\ rest.live = l.live /\ rest.theirs \subseteq l.theirs
          <5> HIDE DEF l, f
          <5> QED BY <3>2 DEF Link
        <4> HIDE DEF rest, faults, l
        <4> QED BY <3>1, <3>2, <4>1, IsolatedType
      <3>4. IsPacket(pk) /\ pk.stream = l.stream /\ pk.p.kind = "hash" /\ pk.p.frame = f
        BY <1>1, <3>2 DEF Hash, HostPacket, HashPacket, IsPacket, Packet
      <3> HIDE DEF m, pk, rest, hash
      <3>5. w \in Packets(HostPacket)
        <4>1. Append(d, pk) \in Packets(HostPacket) BY <3>2, <3>4, PacketAppend
        <4> HIDE DEF w, d
        <4> QED BY <3>1, <3>2, <4>1
      <3>6. Fits(g, host.frame, room.issued, room.toHost, room.transfer[g], room.toGuest[g],
                 outgoing[g], l, e, native[g], w, up[g], chunks[g])
        <4>1. CASE l.live /\ l.cursor = f
          <5>1. /\ l.stream = e.stream /\ (e.run => l.cursor = End(e, d))
                /\ \A i \in DOMAIN room.toHost :
                     Of(room.toHost[i], "catchup", g) => room.toHost[i].id # l.stream
            BY <4>1, Standing DEF Fits, Served
          <5>2. pk.stream <= e.stream BY <3>2, <3>4, <5>1
          <5>3. e.run => pk.p.frame <= End(e, d) BY <1>1, <3>4, <4>1, <5>1
          <5>4. \A i \in DOMAIN room.toHost :
                  Of(room.toHost[i], "catchup", g) => room.toHost[i].id # pk.stream
            BY <3>4, <5>1
          <5>5. w = Append(d, pk) BY <3>1, <4>1
          <5> HIDE DEF w
          <5> QED BY <3>4, <5>2, <5>3, <5>4, <5>5, Standing, Sent
        <4>2. CASE ~(l.live /\ l.cursor = f)
          <5>1. w = d BY <3>1, <4>2
          <5> HIDE DEF w
          <5> QED BY <5>1, Standing
        <4> QED BY <4>1, <4>2
      <3> HIDE DEF w
      <3> QED BY <3>3, <3>5, <3>6, Standing, Unserved DEF FitsRoom, m, w
    <2>6. ASSUME NEW g \in Guest PROVE FitsNow(g)'
      <3>2. host'.frame = f /\ UNCHANGED <<outgoing, up, chunks, guest, native>> BY <2>1, <2>2
      <3> HIDE DEF f
      <3> QED BY <1>1, <2>3, <2>4, Standing, <3>2 DEF FitsRoom, FitsNow, Safe, KeepsGuest
    <2>7. TypeOK' BY <2>1, <2>2, <2>3, <2>4, TypedNow DEF Typed, TypeOK, Safe, Bounded
    <2>8. Stopping(room.status, room.toHost, host') BY <2>2, StoppingSame DEF Reads
    <2>10. Owned(room'.toHost, host'.work, room'.issued, outgoing')
      BY <2>1, <2>2, HostType, <1>1, <2>3 DEF Reads, Safe, KeepsHost
    <2> QED BY <2>3, <2>6, <2>7, <2>2, <2>8, <2>10 DEF Inv, Safe, KeepsHost
  <1> QED BY <1>2, <1>3

\* The run of the host is over.
LEMMA OverKeeps ==
  ASSUME Inv, NEW h \in Host, h.frame = host.frame, host' = HostOver(h),
         outgoing' = [m \in Guest |-> None],
         UNCHANGED <<link, down, up, chunks, guest, native>>, Safe(room, room')
  PROVE  Inv'
  <1>1. /\ host' \in Host /\ host'.frame = h.frame /\ host'.over /\ host'.work = <<>>
    <2>1. <<>> \in Seq(Job) OBVIOUS
    <2> QED BY <2>1 DEF HostOver, Host
  <1>2. /\ outgoing' \in [Guest -> Maybe(Outgoing)]
        /\ \A g \in Guest : outgoing'[g] = None /\ Prepares(outgoing[g], outgoing'[g], host.frame)
    BY DEF Maybe, Prepares
  <1>3. host.frame <= host'.frame BY <1>1, HostType
  <1>4. Owned(room'.toHost, host'.work, room'.issued, outgoing')
    <2>1. Owned(room.toHost, host.work, room.issued, outgoing) BY DEF Inv
    <2>2. Owned(room.toHost, <<>>, room.issued, outgoing') BY <1>2, <2>1, OwnedNone
    <2>3. <<>> \in Seq(Job) OBVIOUS
    <2> QED BY <1>1, <1>2, <2>2, <2>3 DEF Safe, KeepsHost
  <1> QED BY <1>1, <1>2, <1>3, <1>4, HostKeeps DEF Safe

\* The pause frame is known once the host has no frame left to run.
LEMMA StoppingHeld ==
  ASSUME NEW status, NEW q \in Seq(Event), NEW h, Stopping(status, q, h),
         ~Awaits(h.work, "frame"), ~Awaits(h.work, "hold"), ~Has(q, "freeze"), ~Has(q, "pauseAt"),
         h.frozen, NEW ev \in Event, ev.type = "pauseAt"
  PROVE  Stopping("paused", Append(q, ev), h)
  <1> DEFINE v == Append(q, ev)
  <1>1. /\ v \in Seq(Event) /\ DOMAIN v = DOMAIN q \cup {Len(q) + 1}
        /\ \A i \in DOMAIN q : v[i] = q[i]
        /\ v[Len(q) + 1] = ev
    BY AppendAt
  <1> HIDE DEF v
  <1>2. ~Has(v, "freeze") BY <1>1 DEF Has
  <1>4. \A i \in DOMAIN v : v[i].type # "freeze" BY <1>2 DEF Has
  <1>5. Stopping("paused", v, h) BY <1>2, <1>1, <1>4 DEF Stopping, Has
  <1> QED BY <1>5 DEF v

\* The host knows at which frame it stopped.
LEMMA HostHeldKeeps ==
  ASSUME Inv, ~host.over, NEW answered, Reads(answered), Head(host.work).kind = "hold",
         HostHeld(answered), UNCHANGED <<link, down, up, chunks, guest, native>>
  PROVE  Inv'
  <1>1. /\ answered \in Host /\ answered.frame = host.frame /\ host.frame \in Nat
        /\ outgoing \in [Guest -> Maybe(Outgoing)] /\ answered.work \in Seq(Job)
        /\ Bounded(room) /\ room.toHost \in Seq(Event)
    BY TypedNow, HostType, RoomType DEF Typed, Reads
  <1>2. CASE room.status = "pausing"
    <2> DEFINE r == Frozen(room, host.frame)
               at == SyncEvent("pauseAt", None, 0, host.frame)
    <2>1. host' = answered /\ room' = r /\ outgoing' = outgoing BY <1>2 DEF HostHeld
    <2>2. at \in Event /\ at.type = "pauseAt" BY <1>1, HostEventType
    <2>3. /\ Bounded(r) /\ r.issued = room.issued /\ r.status = "paused"
          /\ r.toHost = Append(room.toHost, at)
          /\ \A g \in Guest : KeepsGuest(g, room, r)
          /\ \A w \in Seq(Job), out \in [Guest -> Maybe(Outgoing)] :
               Owned(room.toHost, w, room.issued, out) => Owned(r.toHost, w, r.issued, out)
      BY <1>1, FrozenKeeps
    <2> HIDE DEF r, at
    <2>4. Stopping(r.status, r.toHost, answered) BY <1>1, <2>2, <2>3, StoppingHeld DEF Reads
    <2>5. Owned(r.toHost, answered.work, r.issued, outgoing) BY <1>1, <2>3 DEF Reads
    <2>6. host.frame <= host'.frame BY <1>1, <2>1
    <2> QED BY <1>1, <2>1, <2>3, <2>4, <2>5, <2>6, PreparesSame, HostKeeps
  <1>3. CASE room.status # "pausing" BY <1>3, <1>1, SafeSame, SafeStopped, OverKeeps DEF HostHeld
  <1> QED BY <1>2, <1>3

\* The hash of a boundary is for the guest whose transfer it belongs to.
LEMMA BoundaryAnswered ==
  ASSUME Inv, ~host.over, host.work # <<>>, NEW answered, Reads(answered),
         Head(host.work).kind = "boundary", NEW g \in Guest,
         outgoing[g] # None, outgoing[g].id = Head(host.work).id, BoundaryKnown(g, answered)
  PROVE  Inv'
  <1>1. /\ Head(host.work) = host.work[1] /\ 1 \in DOMAIN host.work BY Standing, TailAt
  <1>2. Owned(room.toHost, host.work, room.issued, outgoing) BY DEF Inv
  <1>3. outgoing[g].boundary = None /\ outgoing[g].pending BY <1>1, <1>2 DEF Owned
  <1>4. outgoing[g].cursor # None BY <1>3, Standing DEF Fits, Served
  <1> QED BY <1>3, <1>4, BoundaryKnownKeeps DEF Reads

\* What the host's worker answers.
LEMMA HostAnswerKeeps ==
  ASSUME Inv, HostAnswer
  PROVE  Inv'
  <1> DEFINE asked == Head(host.work)
             answered == [host EXCEPT !.work = Tail(host.work)]
             found == {g \in Guest : outgoing[g] # None /\ outgoing[g].id = asked.id}
  <1>1. ~host.over /\ host.work # <<>> BY DEF HostAnswer
  <1>2. Reads(answered) BY <1>1, HostAnswered
  <1>3. \/ asked.kind = "frame" /\ Commit(answered)
        \/ asked.kind = "interval" /\ HostHash(answered)
        \/ asked.kind = "export" /\ Exported(answered)
        \/ /\ asked.kind = "boundary"
           /\ \/ \E g \in Guest : /\ outgoing[g] # None /\ outgoing[g].id = asked.id
                                  /\ BoundaryKnown(g, answered)
              \/ host' = answered
                 /\ UNCHANGED <<room, link, outgoing, down, up, chunks, guest, native>>
        \/ /\ asked.kind = "hold" /\ HostHeld(answered)
           /\ UNCHANGED <<link, down, up, chunks, guest, native>>
        \/ /\ host' = [answered EXCEPT !.hashes = answered.hashes \cup {host.frame}]
           /\ UNCHANGED <<room, link, outgoing, down, up, chunks, guest, native>>
    BY DEF HostAnswer
  <1> HIDE DEF answered
  <1>4. ASSUME asked.kind = "frame", Commit(answered) PROVE Inv'
    BY <1>2, <1>4, <1>1, CommitKeeps DEF Reads
  <1>5. ASSUME HostHash(answered) PROVE Inv' BY <1>1, <1>2, <1>5, HostHashKeeps
  <1>6. ASSUME Exported(answered) PROVE Inv' BY <1>1, <1>2, <1>6, ExportedKeeps
  <1>7. ASSUME asked.kind = "boundary", NEW g \in Guest, outgoing[g] # None,
               outgoing[g].id = asked.id, BoundaryKnown(g, answered)
        PROVE  Inv'
    BY <1>1, <1>2, <1>7, BoundaryAnswered
  <1>8. ASSUME host' = answered,
               UNCHANGED <<room, link, outgoing, down, up, chunks, guest, native>>
        PROVE  Inv'
    BY <1>2, <1>8, TypedNow, HostType, PreparesSame, HostGoesOn DEF Typed, Reads
  <1>9. ASSUME asked.kind = "hold", HostHeld(answered),
               UNCHANGED <<link, down, up, chunks, guest, native>>
        PROVE  Inv'
    BY <1>1, <1>2, <1>9, HostHeldKeeps
  <1>10. ASSUME host' = [answered EXCEPT !.hashes = answered.hashes \cup {host.frame}],
                UNCHANGED <<room, link, outgoing, down, up, chunks, guest, native>>
         PROVE  Inv'
    <2>1. answered.hashes \cup {host.frame} \in SUBSET Nat
      BY <1>2, TypedNow, HostType DEF Typed, Reads
    <2> QED BY <1>1, <1>2, <1>10, <2>1, PausedKeeps
  <1> QED BY <1>3, <1>4, <1>5, <1>6, <1>7, <1>8, <1>9, <1>10

-----------------------------------------------------------------------------
(* The events that the host reads                                          *)

\* The host takes the next event.
Taken == room.toHost # <<>> /\ room' = [room EXCEPT !.toHost = Tail(room.toHost)]

\* The state after the host took an event.
LEMMA TakenType ==
  ASSUME Inv, Taken
  PROVE  /\ room.toHost \in Seq(Event) /\ room.toHost # <<>> /\ Head(room.toHost) \in Event
         /\ room' \in Room /\ Bounded(room') /\ room'.status = room.status
         /\ room'.issued = room.issued /\ room'.toHost = Tail(room.toHost)
         /\ room'.transfer = room.transfer /\ room'.toGuest = room.toGuest
         /\ Owned(Tail(room.toHost), host.work, room.issued, outgoing)
         /\ ~host.over => Stopping(room.status, Tail(room.toHost), host)
  <1> DEFINE v == Tail(room.toHost)
  <1>1. /\ room \in Room /\ room.toHost \in Seq(Event) /\ room.toHost # <<>> /\ host \in Host
        /\ room' = [room EXCEPT !.toHost = v] /\ Bounded(room)
    BY TypedNow, RoomType DEF Typed, Taken
  <1>2. v \in Seq(Event) /\ Head(room.toHost) \in Event BY <1>1, TailAt
  <1>3. Owned(v, host.work, room.issued, outgoing) BY <1>1, OwnedReads DEF Inv
  <1>4. ~host.over => Stopping(room.status, v, host) BY <1>1, HostReads DEF Inv
  <1> HIDE DEF v
  <1> QED BY <1>1, <1>2, <1>3, <1>4 DEF v, Bounded, Room

\* For a guest that it does not end a transfer of, that is all.
LEMMA TakenPast ==
  ASSUME Inv, Taken, NEW g \in Guest, outgoing[g] = None \/ ~Ends(Head(room.toHost), g, outgoing[g])
  PROVE  FitsRoom(g, room', host.frame, outgoing[g], link[g], guest[g], native[g], down[g], up[g],
                  chunks[g])
  <1>1. Fits(g, host.frame, room.issued, Tail(room.toHost), room.transfer[g], room.toGuest[g],
             outgoing[g], link[g], guest[g], native[g], down[g], up[g], chunks[g])
    BY Standing, Read DEF Taken
  <1> QED BY <1>1, TakenType DEF FitsRoom

\* An event about one guest.
LEMMA TakesOne ==
  ASSUME Inv, Taken, NEW g \in Guest, NEW o \in Maybe(Outgoing), NEW l \in Link,
         NEW k \in Seq(Chunk), Serves(g, o, l, down[g], up[g], k),
         host' \in Host, host'.frame = host.frame,
         Head(room.toHost).guest = g, Head(room.toHost).type # "stop",
         ~host'.over => Stopping(room.status, Tail(room.toHost), host'),
         Owned(Tail(room.toHost), host'.work, room.issued, outgoing'),
         FitsRoom(g, room', host.frame, o, l, guest[g], native[g], down[g], up[g], k)
  PROVE  Inv'
  <1>1. /\ Typed' /\ \A h \in Guest \ {g} : Untouched(h)
        /\ outgoing'[g] = o /\ link'[g] = l /\ down'[g] = down[g] /\ up'[g] = up[g] /\ chunks'[g] = k
        /\ guest'[g] = guest[g] /\ native'[g] = native[g]
    BY Standing, ServesTyped
  <1>2. FitsNow(g)' BY <1>1 DEF FitsNow, FitsRoom
  <1>3. ASSUME NEW h \in Guest, h # g PROVE FitsNow(h)'
    BY <1>3, TakenPast, <1>1 DEF Ends, Stops, Of, FitsRoom, FitsNow, Untouched
  <1>4. TypeOK' BY <1>1, TakenType DEF Typed, TypeOK
  <1> QED BY <1>2, <1>3, <1>4, TakenType DEF Inv

\* The host does nothing but that guest's piece.
LEMMA TakesQuietly ==
  ASSUME Inv, Taken, NEW g \in Guest, NEW o \in Maybe(Outgoing), NEW l \in Link,
         NEW k \in Seq(Chunk), Serves(g, o, l, down[g], up[g], k), host' = host, ~host.over,
         Head(room.toHost).guest = g, Head(room.toHost).type # "stop",
         o # None => /\ outgoing[g] # None /\ o.id = outgoing[g].id
                     /\ o.boundary = outgoing[g].boundary /\ o.pending = outgoing[g].pending,
         FitsRoom(g, room', host.frame, o, l, guest[g], native[g], down[g], up[g], k)
  PROVE  Inv'
  <1>1. host \in Host /\ outgoing \in [Guest -> Maybe(Outgoing)] BY TypedNow DEF Typed
  <1>3. Owned(Tail(room.toHost), host.work, room.issued, outgoing) BY TakenType
  <1>4. Owned(Tail(room.toHost), host.work, room.issued, outgoing')
    BY <1>1, <1>3, OwnedLess DEF Serves
  <1> QED BY <1>1, <1>4, TakenType, TakesOne

\* An event about the run.
LEMMA TakesAll ==
  ASSUME Inv, Taken, host' \in Host, host'.frame = host.frame,
         outgoing' \in [Guest -> Maybe(Outgoing)],
         \A g \in Guest : \/ outgoing'[g] = None
                          \/ /\ outgoing'[g] = outgoing[g]
                             /\ Head(room.toHost).type \in {"freeze", "pauseAt"},
         UNCHANGED <<link, down, up, chunks, guest, native>>,
         ~host'.over => Stopping(room.status, Tail(room.toHost), host'),
         Owned(Tail(room.toHost), host'.work, room.issued, outgoing')
  PROVE  Inv'
  <1>1. ASSUME NEW g \in Guest PROVE FitsNow(g)'
    <2>1. CASE outgoing'[g] = None
      <3>2. None \in Maybe(Outgoing) BY DEF Maybe
      <3>3. Fits(g, host.frame, room.issued, Tail(room.toHost), room.transfer[g], room.toGuest[g],
                 None, link[g], guest[g], native[g], down[g], up[g], chunks[g])
        BY Standing, DropOutgoing, <3>2, Read DEF Taken
      <3> QED BY <2>1, <3>3, TakenType DEF FitsRoom, FitsNow
    <2>2. CASE outgoing'[g] = outgoing[g] /\ Head(room.toHost).type \in {"freeze", "pauseAt"}
      BY <2>2, TakenPast DEF Ends, Stops, Of, FitsRoom, FitsNow
    <2> QED BY <2>1, <2>2
  <1>2. TypeOK' BY TypedNow, TakenType DEF Typed, TypeOK
  <1> QED BY <1>1, <1>2, TakenType DEF Inv

\* A transfer that the host begins to send.
LEMMA OwnedOpened ==
  ASSUME NEW q, NEW w, NEW issued, NEW out, Owned(q, w, issued, out), NEW out2, NEW g \in Guest,
         \A h \in Guest \ {g} : out2[h] = out[h], NEW id, out2[g].id = id, id <= issued,
         \A h \in Guest : out[h] # None => out[h].id # id,
         \A j \in DOMAIN w : ~Asks(w[j], id),
         \A i \in DOMAIN q : q[i].type = "capture" => q[i].id # id
  PROVE  Owned(q, w, issued, out2)
  <1>1. ASSUME NEW h \in Guest, NEW m \in Guest, out2[h] # None, out2[m] # None,
               out2[h].id = out2[m].id
        PROVE  h = m
    BY <1>1 DEF Owned
  <1>2. ASSUME NEW i \in DOMAIN q, q[i].type = "capture", NEW h \in Guest, out2[h] # None
        PROVE  out2[h].id # q[i].id
    BY <1>2 DEF Owned
  <1>3. ASSUME NEW i \in DOMAIN w, w[i].kind = "boundary", NEW h \in Guest, out2[h] # None,
               out2[h].id = w[i].id
        PROVE  out2[h].boundary = None /\ out2[h].pending
    BY <1>3 DEF Asks, Owned
  <1> QED BY <1>1, <1>2, <1>3 DEF Owned

\* The two halves of the lemma on a transfer that begins, each for its own use.
LEMMA OpensFits ==
  ASSUME NEW g \in Guest,
         NEW f \in Nat, NEW issued \in Nat, NEW q \in Seq(Event),
         NEW t \in Maybe(Transfers), NEW c \in Seq(Event), NEW o \in Maybe(Outgoing),
         NEW l \in Link, NEW e \in Replica, NEW n \in Native, NEW d \in Packets(HostPacket),
         NEW u \in Packets(HashPacket), NEW k \in Seq(Chunk), NEW o2 \in Maybe(Outgoing),
         NEW l2 \in Link,
         Fits(g, f, issued, q, t, c, o, l, e, n, d, u, k),
         q # <<>>,
         Of(Head(q), "capture", g),
         l2.stream = Head(q).id /\ ~l2.live /\ l2.theirs = {},
         o2 # None /\ o2.id = Head(q).id /\ o2.frame <= f,
         o2.cursor = None /\ o2.boundary = None,
         ~o2.pending /\ ~o2.marked
  PROVE  Fits(g, f, issued, Tail(q), t, c, o2, l2, e, n, d, u, k)
BY Opens

\* No other transfer to that guest is under way.
LEMMA OpensNone ==
  ASSUME NEW g \in Guest,
         NEW f \in Nat, NEW issued \in Nat, NEW q \in Seq(Event),
         NEW t \in Maybe(Transfers), NEW c \in Seq(Event), NEW o \in Maybe(Outgoing),
         NEW l \in Link, NEW e \in Replica, NEW n \in Native, NEW d \in Packets(HostPacket),
         NEW u \in Packets(HashPacket), NEW k \in Seq(Chunk), NEW o2 \in Maybe(Outgoing),
         NEW l2 \in Link,
         Fits(g, f, issued, q, t, c, o, l, e, n, d, u, k),
         q # <<>>,
         Of(Head(q), "capture", g),
         l2.stream = Head(q).id /\ ~l2.live /\ l2.theirs = {},
         o2 # None /\ o2.id = Head(q).id /\ o2.frame <= f,
         o2.cursor = None /\ o2.boundary = None,
         ~o2.pending /\ ~o2.marked
  PROVE  o = None
BY Opens

Opened(g, x, l) ==
  /\ Fits(g, host.frame, room.issued, Tail(room.toHost), room.transfer[g], room.toGuest[g],
          x, l, guest[g], native[g], down[g], up[g], chunks[g])
  /\ outgoing[g] = None

\* The same, in the present state.
LEMMA OpensHere ==
  ASSUME Inv, NEW g \in Guest, room.toHost # <<>>, Of(Head(room.toHost), "capture", g),
         NEW x \in Maybe(Outgoing), NEW l \in Link,
         l.stream = Head(room.toHost).id, ~l.live, l.theirs = {},
         x # None, x.id = Head(room.toHost).id, x.frame <= host.frame, x.cursor = None,
         x.boundary = None, ~x.pending, ~x.marked
  PROVE  Opened(g, x, l)
  <1>1. Fits(g, host.frame, room.issued, room.toHost, room.transfer[g], room.toGuest[g],
             outgoing[g], link[g], guest[g], native[g], down[g], up[g], chunks[g])
    BY Standing
  <1>2. Fits(g, host.frame, room.issued, Tail(room.toHost), room.transfer[g], room.toGuest[g],
             x, l, guest[g], native[g], down[g], up[g], chunks[g])
    BY <1>1, Standing, OpensFits
  <1>3. outgoing[g] = None BY <1>1, <1>2, Standing, OpensNone
  <1> QED BY <1>2, <1>3 DEF Opened

\* The host is asked for a checkpoint.
LEMMA CaptureReadKeeps ==
  ASSUME Inv, ~host.over, Taken, NEW g \in Guest, Of(Head(room.toHost), "capture", g),
         link' = [link EXCEPT ![g] = Restream(link[g], Head(room.toHost).id)],
         \/ outgoing[g] # None
         \/ /\ outgoing' = [outgoing EXCEPT ![g] = NewOutgoing(Head(room.toHost).id, host.frame > 0)]
            /\ host' = host \/ host' = Ask(host, "export", 0),
         UNCHANGED <<down, up, chunks, guest, native>>
  PROVE  Inv'
  <1> DEFINE id == Head(room.toHost).id
             asked == host.frame > 0
             x == NewOutgoing(id, asked)
             l == Restream(link[g], id)
             job == [kind |-> "export", id |-> 0]
             v == Tail(room.toHost)
  <1>1. /\ room.toHost \in Seq(Event) /\ room.toHost # <<>> /\ Head(room.toHost) \in Event
        /\ id \in Nat /\ Head(room.toHost).type = "capture" /\ Head(room.toHost).guest = g
    BY TakenType DEF Event, Of
  <1> HIDE DEF id, asked
  <1>2. /\ x \in Outgoing /\ x # None /\ x.id = id /\ x.frame = 0 /\ x.cursor = None
        /\ x.boundary = None /\ ~x.pending /\ ~x.marked /\ x \in Maybe(Outgoing)
    <2>1. x \in Outgoing BY <1>1 DEF NewOutgoing, Outgoing, Maybe
    <2>2. x # None BY <2>1, NoneAssumption
    <2> QED BY <2>1, <2>2 DEF NewOutgoing, Maybe
  <1>3. l \in Link /\ l.stream = id /\ ~l.live /\ l.theirs = {} BY <1>1, Standing DEF Restream, Link
  <1> HIDE DEF x, l
  <1>4. /\ Fits(g, host.frame, room.issued, v, room.transfer[g], room.toGuest[g],
                x, l, guest[g], native[g], down[g], up[g], chunks[g])
        /\ outgoing[g] = None
    <2>1. x.frame <= host.frame BY <1>2, Standing
    <2> HIDE DEF v
    <2>3. Opened(g, x, l) BY <1>1, <1>2, <1>3, <2>1, OpensHere DEF id
    <2> QED BY <2>3 DEF Opened, v
  <1>5. /\ outgoing' = [outgoing EXCEPT ![g] = x]
        /\ host' = host \/ host' = Ask(host, "export", 0)
    BY <1>4 DEF x, id, asked
  <1>6. Serves(g, x, l, down[g], up[g], chunks[g]) BY <1>5, Same DEF Serves, l, id
  <1>7. FitsRoom(g, room', host.frame, x, l, guest[g], native[g], down[g], up[g], chunks[g])
    BY <1>4, TakenType DEF FitsRoom
  <1>8. /\ host \in Host /\ host.work \in Seq(Job) /\ outgoing \in [Guest -> Maybe(Outgoing)]
    BY TypedNow, HostType DEF Typed
  <1>9. /\ Owned(v, host.work, room.issued, outgoing) /\ id <= room.issued
        /\ \A h \in Guest : outgoing[h] # None => outgoing[h].id # id
        /\ \A j \in DOMAIN host.work : ~Asks(host.work[j], id)
        /\ \A i \in DOMAIN v : v[i].type = "capture" => v[i].id # id
    BY <1>1, OwnedReads DEF Inv, id
  <1>10. outgoing'[g] = x /\ \A h \in Guest \ {g} : outgoing'[h] = outgoing[h] BY <1>5, <1>8
  <1> HIDE DEF v
  <1>11. Owned(v, host.work, room.issued, outgoing') BY <1>2, <1>9, <1>10, OwnedOpened
  <1>12. Stopping(room.status, v, host) BY TakenType DEF v
  <1>13. /\ host' \in Host /\ host'.frame = host.frame
         /\ Stopping(room.status, v, host') /\ Owned(v, host'.work, room.issued, outgoing')
    <2>1. CASE host' = host BY <1>8, <1>11, <1>12, <2>1
    <2>2. CASE host' = Ask(host, "export", 0)
      <3>1. /\ host' \in Host /\ Stopping(room.status, v, host') /\ host'.frame = host.frame
            /\ host'.work = Append(host.work, job)
        BY <1>8, <1>12, <2>2, StoppingAsked
      <3>2. job \in Job /\ job.kind # "boundary" BY DEF Job
      <3> HIDE DEF job
      <3>3. Owned(v, Append(host.work, job), room.issued, outgoing')
        BY <1>8, <1>11, <3>2, OwnedAsked
      <3> QED BY <3>1, <3>3
    <2> QED BY <1>5, <2>1, <2>2
  <1> QED BY <1>1, <1>2, <1>3, <1>6, <1>7, <1>13, Standing, TakesOne DEF v

\* The event ends no transfer that the host still sends, or it does and the host
\* gives that one up.
LEMMA DroppedKeeps ==
  ASSUME Inv, ~host.over, Taken, NEW g \in Guest, Head(room.toHost).guest = g,
         Head(room.toHost).type # "stop", NEW l \in Link, l.stream = link[g].stream,
         l.cursor = link[g].cursor, l.live = link[g].live, l.theirs = link[g].theirs,
         outgoing' = [outgoing EXCEPT ![g] = None], link' = [link EXCEPT ![g] = l],
         UNCHANGED <<host, down, up, chunks, guest, native>>
  PROVE  Inv'
  <1>1. Serves(g, None, l, down[g], up[g], chunks[g]) BY Same DEF Serves
  <1>2. None \in Maybe(Outgoing) BY DEF Maybe
  <1>4. Fits(g, host.frame, room.issued, Tail(room.toHost), room.transfer[g], room.toGuest[g],
             None, link[g], guest[g], native[g], down[g], up[g], chunks[g])
    BY <1>2, Standing, DropOutgoing, Read DEF Taken
  <1>5. Fits(g, host.frame, room.issued, Tail(room.toHost), room.transfer[g], room.toGuest[g],
             None, l, guest[g], native[g], down[g], up[g], chunks[g])
    <2>1. Tail(room.toHost) \in Seq(Event) BY Standing, TailAt DEF Taken
    <2>2. (l.live => link[g].live) /\ l.theirs \subseteq link[g].theirs OBVIOUS
    <2> QED BY <1>2, <1>4, <2>1, <2>2, Standing, Unserved
  <1> QED BY <1>1, <1>2, <1>5, TakenType, Standing, TakesQuietly DEF FitsRoom

\* An event that the host has nothing to do for.
LEMMA NothingReadKeeps ==
  ASSUME Inv, ~host.over, Taken, NEW g \in Guest, Head(room.toHost).guest = g,
         Head(room.toHost).type # "stop",
         outgoing[g] = None \/ ~Ends(Head(room.toHost), g, outgoing[g]),
         UNCHANGED <<host, outgoing, link, down, up, chunks, guest, native>>
  PROVE  Inv'
  <1>1. Serves(g, outgoing[g], link[g], down[g], up[g], chunks[g]) BY Same DEF Serves
  <1> QED BY <1>1, TakenPast, Standing, TakesQuietly

\* The host sends the checkpoint.
LEMMA SendReadKeeps ==
  ASSUME Inv, ~host.over, Taken, NEW g \in Guest, Of(Head(room.toHost), "send", g),
         outgoing[g] # None,
         chunks' = [chunks EXCEPT ![g] = Append(chunks[g], [id |-> Head(room.toHost).id,
                                                            frame |-> outgoing[g].frame])],
         UNCHANGED <<host, outgoing, link, down, up, guest, native>>
  PROVE  Inv'
  <1> DEFINE ch == [id |-> Head(room.toHost).id, frame |-> outgoing[g].frame]
             k == Append(chunks[g], ch)
  <1>1. Head(room.toHost).id \in Nat BY TakenType DEF Event
  <1>2. ch \in Chunk /\ ch.id = Head(room.toHost).id BY <1>1, Standing, OutgoingType DEF Chunk
  <1>3. Serves(g, outgoing[g], link[g], down[g], up[g], k) BY Same DEF Serves
  <1> HIDE DEF ch
  <1>4. k \in Seq(Chunk) BY <1>2, Standing, AppendAt
  <1>5. Fits(g, host.frame, room.issued, Tail(room.toHost), room.transfer[g], room.toGuest[g],
             outgoing[g], link[g], guest[g], native[g], down[g], up[g], k)
    BY <1>2, Standing, SendRead DEF Taken
  <1> HIDE DEF k
  <1>6. FitsRoom(g, room', host.frame, outgoing[g], link[g], guest[g], native[g], down[g], up[g], k)
    BY <1>5, TakenType DEF FitsRoom
  <1> QED BY <1>3, <1>4, <1>6, Standing, TakesQuietly DEF Of

\* The guest installed the checkpoint.
LEMMA CatchupReadKeeps ==
  ASSUME Inv, ~host.over, Taken, NEW g \in Guest, Of(Head(room.toHost), "catchup", g),
         outgoing[g] # None, outgoing[g].id = Head(room.toHost).id,
         outgoing' = [outgoing EXCEPT ![g].cursor = Head(room.toHost).frame],
         UNCHANGED <<host, link, down, up, chunks, guest, native>>
  PROVE  Inv'
  <1> DEFINE o == outgoing[g]
             frame == Head(room.toHost).frame
             x == [o EXCEPT !.cursor = frame]
  <1>1. frame \in Nat BY TakenType DEF Event
  <1>2. o \in Outgoing BY Standing, OutgoingType
  <1>3. /\ x \in Outgoing /\ x # None /\ x.id = o.id /\ x.cursor = frame /\ x.boundary = o.boundary
        /\ x.marked = o.marked /\ x.pending = o.pending /\ x.frame = o.frame
        /\ x \in Maybe(Outgoing)
    <2> HIDE DEF o, frame
    <2>1. x \in Outgoing BY <1>1, <1>2 DEF Outgoing, Maybe
    <2>2. x # None BY <2>1, NoneAssumption
    <2> QED BY <1>2, <2>1, <2>2 DEF Outgoing, Maybe
  <1>4. Serves(g, x, link[g], down[g], up[g], chunks[g]) BY Same, Standing DEF Serves
  <1> HIDE DEF x
  <1>5. Fits(g, host.frame, room.issued, Tail(room.toHost), room.transfer[g], room.toGuest[g],
             x, link[g], guest[g], native[g], down[g], up[g], chunks[g])
    BY <1>3, Standing, CatchupRead DEF Taken
  <1>6. FitsRoom(g, room', host.frame, x, link[g], guest[g], native[g], down[g], up[g], chunks[g])
    BY <1>5, TakenType DEF FitsRoom
  <1> QED BY <1>3, <1>4, <1>6, Standing, TakesQuietly DEF Of


\* The host stops before the next frame and asks when its worker is done.
LEMMA FreezeReadKeeps ==
  ASSUME Inv, ~host.over, Taken, Head(room.toHost).type = "freeze",
         host' = Ask([host EXCEPT !.frozen = TRUE], "hold", 0),
         UNCHANGED <<link, outgoing, down, up, chunks, guest, native>>
  PROVE  Inv'
  <1> DEFINE q == Tail(room.toHost)
             w == host.work
             job == [kind |-> "hold", id |-> 0]
  <1>1. /\ host \in Host /\ w \in Seq(Job) /\ host.frame \in Nat
        /\ outgoing \in [Guest -> Maybe(Outgoing)]
    BY TypedNow, HostType DEF Typed
  <1>2. /\ room.status # "playing" /\ ~Awaits(w, "hold") /\ ~Has(q, "freeze") /\ ~Has(q, "pauseAt")
        /\ Stopping(room.status, q, host)
    BY <1>1, TakenType, HostReads DEF Inv
  <1>3. Owned(q, w, room.issued, outgoing) BY TakenType
  <1> HIDE DEF q
  <1>4. job \in Job /\ job.kind = "hold" BY DEF Job
  <1>5. host' = [[host EXCEPT !.frozen = TRUE] EXCEPT !.work = Append(w, job)] BY <1>1 DEF Ask, Host
  <1> HIDE DEF job
  <1>6. /\ Append(w, job) \in Seq(Job) /\ DOMAIN Append(w, job) = DOMAIN w \cup {Len(w) + 1}
        /\ \A i \in DOMAIN w : Append(w, job)[i] = w[i] /\ i \in Nat /\ i < Len(w) + 1
        /\ Append(w, job)[Len(w) + 1] = job
    BY <1>1, <1>4, AppendAt
  <1> HIDE DEF w
  <1>7. /\ host' \in Host /\ host'.frame = host.frame /\ host'.over = host.over
        /\ host'.pausedSent = host.pausedSent /\ host'.frozen /\ host'.work = Append(w, job)
    BY <1>1, <1>5, <1>6 DEF Host
  <1>8. Owned(q, host'.work, room.issued, outgoing) BY <1>1, <1>3, <1>4, <1>7, OwnedAsked
  <1>9. \A i \in DOMAIN w : w[i].kind # "hold" BY <1>2 DEF Awaits
  <1>10. Stopping(room.status, q, host')
    <2> DEFINE v == host'.work
    <2>1. \A i \in DOMAIN v : v[i].kind = "hold" => i = Len(w) + 1 BY <1>6, <1>7, <1>9
    <2>2. \A i \in DOMAIN v : v[i].kind = "frame" => i \in DOMAIN w /\ w[i].kind = "frame"
      BY <1>4, <1>6, <1>7
    <2>3. Awaits(v, "frame") => Awaits(w, "frame") BY <2>2 DEF Awaits
    <2>4. \A i, j \in DOMAIN v : v[i].kind = "hold" /\ v[j].kind = "frame" => j < i
      BY <1>6, <2>1, <2>2
    <2>5. Stopping(room.status, q, host) BY <1>2
    <2>6. \A i, j \in DOMAIN v : v[i].kind = "frame" /\ v[j].kind = "frame" => i = j
      BY <2>2, <2>5 DEF Stopping, w
    <2>7. host'.pausedSent => ~Awaits(v, "frame") BY <1>7, <2>3, <2>5 DEF Stopping, w
    <2> QED BY <1>2, <1>7, <2>1, <2>4, <2>6, <2>7 DEF Stopping
  <1> QED BY <1>1, <1>7, <1>8, <1>10, TakesAll DEF q

\* The host reads at which frame the run pauses.
LEMMA PauseReadKeeps ==
  ASSUME Inv, ~host.over, Taken, Head(room.toHost).type = "pauseAt", NEW frame \in Nat,
         NEW fenced, fenced = [host EXCEPT !.fence = frame, !.frozen = FALSE],
         host' = fenced \/ host' = FinishPause(fenced),
         UNCHANGED <<link, outgoing, down, up, chunks, guest, native>>
  PROVE  Inv'
  <1> DEFINE q == Tail(room.toHost)
  <1>1. /\ host \in Host /\ host.frame \in Nat /\ outgoing \in [Guest -> Maybe(Outgoing)]
    BY TypedNow, HostType DEF Typed
  <1>2. /\ room.status # "playing" /\ ~Awaits(host.work, "hold") /\ ~Has(q, "freeze")
        /\ ~Has(q, "pauseAt") /\ ~Awaits(host.work, "frame") /\ Stopping(room.status, q, host)
    BY <1>1, TakenType, HostReads DEF Inv
  <1>3. Owned(q, host.work, room.issued, outgoing) BY TakenType
  <1> HIDE DEF q
  <1>4. /\ fenced \in Host /\ fenced.frame = host.frame /\ fenced.over = host.over
        /\ fenced.pausedSent = host.pausedSent /\ ~fenced.frozen /\ fenced.work = host.work
    BY <1>1 DEF Host, Maybe
  <1>5. Stopping(room.status, q, fenced) BY <1>2, <1>4 DEF Stopping
  <1>6. /\ host' \in Host /\ host'.frame = host.frame /\ Stopping(room.status, q, host')
        /\ Owned(q, host'.work, room.issued, outgoing)
    BY <1>3, <1>4, <1>5, <1>2, HostPauseSent
  <1> QED BY <1>1, <1>6, TakesAll DEF q

\* The host reads that a player gave the game up.
LEMMA StopReadKeeps ==
  ASSUME Inv, ~host.over, Taken, host' = HostOver(host), outgoing' = [m \in Guest |-> None],
         UNCHANGED <<link, down, up, chunks, guest, native>>
  PROVE  Inv'
  <1> DEFINE q == Tail(room.toHost)
  <1>1. host \in Host BY TypedNow DEF Typed
  <1>2. /\ host' \in Host /\ host'.frame = host.frame /\ host'.over /\ host'.work = <<>>
    <2>1. <<>> \in Seq(Job) OBVIOUS
    <2> QED BY <1>1, <2>1 DEF HostOver, Host
  <1>3. outgoing' \in [Guest -> Maybe(Outgoing)] /\ \A g \in Guest : outgoing'[g] = None
    BY DEF Maybe
  <1>4. Owned(q, host.work, room.issued, outgoing) BY TakenType
  <1> HIDE DEF q
  <1>5. Owned(q, host'.work, room.issued, outgoing') BY <1>2, <1>3, <1>4, OwnedNone
  <1> QED BY <1>2, <1>3, <1>5, TakesAll DEF q

\* The guest is synchronized: its next fault asks for a checkpoint again.
LEMMA LiveReadKeeps ==
  ASSUME Inv, ~host.over, Taken, NEW g \in Guest, Of(Head(room.toHost), "live", g),
         outgoing' = [outgoing EXCEPT ![g] = None],
         link' = [link EXCEPT ![g].recovering = FALSE],
         UNCHANGED <<host, down, up, chunks, guest, native>>
  PROVE  Inv'
  <1> DEFINE l == [link[g] EXCEPT !.recovering = FALSE]
  <1>1. link[g] \in Link /\ link \in [Guest -> Link] BY Standing, TypedNow DEF Typed
  <1>3. link' = [link EXCEPT ![g] = l] BY <1>1
  <1> HIDE DEF l
  <1> QED BY <1>1, <1>3, DroppedKeeps DEF Of, Link

\* What an event says of its guest.
LEMMA EventGuest ==
  ASSUME NEW e \in Event
  PROVE  /\ e.id \in Nat /\ e.frame \in Nat
         /\ e.type \in {"freeze", "pauseAt", "stop"} \/ (e.guest \in Guest /\ e.guest # None)
  BY NoneAssumption DEF Event

\* The events that the host reads.
LEMMA HostEventKeeps ==
  ASSUME Inv, HostEvent
  PROVE  Inv'
  <1> DEFINE e == Head(room.toHost)
             g == e.guest
             mine == g # None /\ outgoing[g] # None /\ outgoing[g].id = e.id
  <1>1. ~host.over /\ Taken BY DEF HostEvent, Taken
  <1>2. e \in Event BY <1>1, TakenType
  <1> HIDE DEF e
  <1>3. /\ e.id \in Nat /\ e.frame \in Nat
        /\ e.type \in {"freeze", "pauseAt", "stop"} \/ (g \in Guest /\ g # None)
    BY <1>2, EventGuest
  <1>4. \/ /\ e.type = "capture"
           /\ link' = [link EXCEPT ![g] = Restream(link[g], e.id)]
           /\ \/ outgoing[g] # None /\ UNCHANGED <<host, outgoing>>
              \/ /\ outgoing[g] = None
                 /\ outgoing' = [outgoing EXCEPT ![g] = NewOutgoing(e.id, host.frame > 0)]
                 /\ host' = host \/ host' = Ask(host, "export", 0)
           /\ UNCHANGED <<down, up, chunks, guest, native>>
        \/ /\ e.type = "checkpoint"
           /\ UNCHANGED <<host, link, outgoing, down, up, chunks, guest, native>>
        \/ /\ e.type = "send"
           /\ chunks' = IF mine THEN [chunks EXCEPT ![g] = Append(chunks[g], [id |-> e.id, frame |-> outgoing[g].frame])]
                        ELSE chunks
           /\ UNCHANGED <<host, link, outgoing, down, up, guest, native>>
        \/ /\ e.type = "catchup"
           /\ outgoing' = IF mine THEN [outgoing EXCEPT ![g].cursor = e.frame] ELSE outgoing
           /\ UNCHANGED <<host, link, down, up, chunks, guest, native>>
        \/ /\ e.type = "syncStop"
           /\ outgoing' = IF mine THEN [outgoing EXCEPT ![g] = None] ELSE outgoing
           /\ UNCHANGED <<host, link, down, up, chunks, guest, native>>
        \/ /\ e.type = "live"
           /\ \/ /\ outgoing' = [outgoing EXCEPT ![g] = None]
                 /\ link' = [link EXCEPT ![g].recovering = FALSE]
              \/ ~(mine /\ outgoing[g].boundary = e.frame) /\ UNCHANGED <<outgoing, link>>
           /\ UNCHANGED <<host, down, up, chunks, guest, native>>
        \/ /\ e.type = "freeze"
           /\ host' = Ask([host EXCEPT !.frozen = TRUE], "hold", 0)
           /\ UNCHANGED <<link, outgoing, down, up, chunks, guest, native>>
        \/ /\ e.type = "pauseAt"
           /\ \/ host' = [host EXCEPT !.fence = e.frame, !.frozen = FALSE]
              \/ host' = FinishPause([host EXCEPT !.fence = e.frame, !.frozen = FALSE])
           /\ UNCHANGED <<link, outgoing, down, up, chunks, guest, native>>
        \/ /\ e.type = "stop"
           /\ host' = HostOver(host) /\ outgoing' = [m \in Guest |-> None]
           /\ UNCHANGED <<link, down, up, chunks, guest, native>>
    BY DEF HostEvent, e
  <1>5. CASE e.type = "capture"
    <2>2. Of(Head(room.toHost), "capture", g) /\ g \in Guest BY <1>3, <1>5 DEF Of, e
    <2>3. /\ UNCHANGED <<down, up, chunks, guest, native>>
          /\ \/ outgoing[g] # None
             \/ /\ outgoing' = [outgoing EXCEPT ![g] = NewOutgoing(e.id, host.frame > 0)]
                /\ host' = host \/ host' = Ask(host, "export", 0)
      BY <1>4, <1>5
    <2> HIDE DEF g
    <2> QED BY <1>1, <1>4, <1>5, <2>2, <2>3, CaptureReadKeeps DEF e
  <1>6. ASSUME g \in Guest, e.type # "stop", outgoing[g] = None \/ ~Ends(e, g, outgoing[g]),
               UNCHANGED <<host, outgoing, link, down, up, chunks, guest, native>>
        PROVE  Inv'
    <2>1. Head(room.toHost).guest = g BY DEF e
    <2> HIDE DEF g
    <2> QED BY <1>1, <1>6, <2>1, NothingReadKeeps DEF e
  <1>7. CASE e.type = "checkpoint" BY <1>7, <1>3, <1>4, <1>6 DEF Ends, Stops, Of
  <1>8. CASE e.type = "send"
    <2>1. ~Ends(e, g, outgoing[g]) BY <1>8 DEF Ends, Stops, Of
    <2>2. CASE mine
      <3>1. /\ Of(Head(room.toHost), "send", g) /\ g \in Guest /\ outgoing[g] # None
            /\ chunks' = [chunks EXCEPT ![g] = Append(chunks[g], [id |-> e.id, frame |-> outgoing[g].frame])]
            /\ UNCHANGED <<host, outgoing, link, down, up, guest, native>>
        BY <1>3, <1>4, <1>8, <2>2 DEF Of, e
      <3> HIDE DEF g
      <3> QED BY <1>1, <3>1, SendReadKeeps DEF e
    <2>3. CASE ~mine BY <1>4, <1>8, <2>3, <1>3, <1>6, <2>1
    <2> QED BY <2>2, <2>3
  <1>9. CASE e.type = "catchup"
    <2>1. ~Ends(e, g, outgoing[g]) BY <1>9 DEF Ends, Stops, Of
    <2>2. CASE mine
      <3>1. /\ Of(Head(room.toHost), "catchup", g) /\ g \in Guest /\ outgoing[g] # None
            /\ outgoing[g].id = e.id
            /\ outgoing' = [outgoing EXCEPT ![g].cursor = e.frame]
            /\ UNCHANGED <<host, link, down, up, chunks, guest, native>>
        BY <1>3, <1>4, <1>9, <2>2 DEF Of, e
      <3> HIDE DEF g
      <3> QED BY <1>1, <3>1, CatchupReadKeeps DEF e
    <2>3. CASE ~mine BY <1>4, <1>9, <2>3, <1>3, <1>6, <2>1
    <2> QED BY <2>2, <2>3
  <1>10. CASE e.type = "syncStop"
    <2>1. CASE mine
      <3>1. /\ Head(room.toHost).guest = g /\ g \in Guest /\ Head(room.toHost).type # "stop"
            /\ outgoing' = [outgoing EXCEPT ![g] = None]
            /\ UNCHANGED <<host, link, down, up, chunks, guest, native>>
        BY <1>3, <1>4, <1>10, <2>1 DEF e
      <3> HIDE DEF g
      <3> QED BY <1>1, <3>1, Standing, TypedNow, DroppedKeeps DEF Typed
    <2>2. CASE ~mine BY <1>3, <1>10, <2>2, <1>4, <1>6 DEF Ends, Stops, Of
    <2> QED BY <2>1, <2>2
  <1>11. CASE e.type = "live"
    <2>1. CASE /\ outgoing' = [outgoing EXCEPT ![g] = None]
               /\ link' = [link EXCEPT ![g].recovering = FALSE]
      <3>1. /\ Of(Head(room.toHost), "live", g) /\ g \in Guest
            /\ UNCHANGED <<host, down, up, chunks, guest, native>>
        BY <1>3, <1>4, <1>11 DEF Of, e
      <3> HIDE DEF g
      <3> QED BY <1>1, <2>1, <3>1, LiveReadKeeps
    <2>2. CASE ~(mine /\ outgoing[g].boundary = e.frame) /\ UNCHANGED <<outgoing, link>>
      BY <1>3, <1>11, <2>2, <1>4, <1>6 DEF Ends, Stops, Of
    <2> QED BY <1>4, <1>11, <2>1, <2>2
  <1>12. CASE e.type = "freeze" BY <1>1, <1>4, <1>12, FreezeReadKeeps DEF e
  <1>13. CASE e.type = "pauseAt" BY <1>1, <1>3, <1>4, <1>13, PauseReadKeeps DEF e
  <1>14. CASE e.type = "stop" BY <1>1, <1>4, <1>14, StopReadKeeps
  <1> QED BY <1>4, <1>5, <1>7, <1>8, <1>9, <1>10, <1>11, <1>12, <1>13, <1>14
-----------------------------------------------------------------------------
(* The invariant holds of every behaviour                                  *)

\* A game starts with nothing on its way and every emulator at the first frame.
LEMMA StartTyped ==
  ASSUME Init
  PROVE  /\ TypeOK /\ Bounded(room)
         /\ room.toHost = <<>> /\ host.work = <<>> /\ room.issued = 0 /\ host.frame = 0
         /\ host.pausedSent = FALSE
         /\ \A g \in Guest :
              /\ room.transfer[g] = None /\ room.toGuest[g] = <<>> /\ outgoing[g] = None
              /\ down[g] = <<>> /\ up[g] = <<>> /\ chunks[g] = <<>>
              /\ link[g].stream = 0 /\ link[g].cursor = 0 /\ link[g].theirs = {}
              /\ guest[g].frame = 0 /\ guest[g].head = 0 /\ guest[g].stream = 0
              /\ guest[g].incoming = None /\ guest[g].work = <<>> /\ ~guest[g].catchingUp
              /\ native[g] = [at |-> 0, state |-> "agrees"]
  <1>1. PICK playing \in SUBSET Guest :
    /\ room = [status |-> "playing", frame |-> 0, issued |-> 0, owners |-> playing,
               transfer |-> [g \in Guest |-> None], frozen |-> {}, toHost |-> <<>>, toGuest |-> [g \in Guest |-> <<>>]]
    /\ host = [frame |-> 0, work |-> <<>>, hashing |-> FALSE, frozen |-> FALSE, fence |-> None,
               pausedSent |-> FALSE, over |-> FALSE, hashes |-> {}]
    /\ link = [g \in Guest |-> [live |-> g \in playing, stream |-> 0, cursor |-> 0,
                 recovering |-> FALSE, theirs |-> {}, received |-> 0]]
    /\ guest = [g \in Guest |-> [Idle EXCEPT !.run = g \in playing]]
    BY DEF Init
  <1>2. /\ outgoing = [g \in Guest |-> None] /\ down = [g \in Guest |-> <<>>]
        /\ up = [g \in Guest |-> <<>>] /\ chunks = [g \in Guest |-> <<>>]
        /\ native = [g \in Guest |-> [at |-> 0, state |-> "agrees"]]
    BY DEF Init
  <1>3. room \in Room /\ room.issued = 0 /\ room.toHost = <<>> BY <1>1 DEF Maybe, Room
  <1>4. host \in Host /\ host.work = <<>> /\ host.frame = 0 /\ host.pausedSent = FALSE
    BY <1>1 DEF Maybe, Host
  <1>5. ASSUME NEW g \in Guest
        PROVE  /\ link[g] \in Link
               /\ link[g].stream = 0 /\ link[g].cursor = 0 /\ link[g].theirs = {}
    <2>1. (g \in playing) \in BOOLEAN OBVIOUS
    <2>2. ASSUME NEW b \in BOOLEAN
          PROVE  [live |-> b, stream |-> 0, cursor |-> 0, recovering |-> FALSE, theirs |-> {},
                  received |-> 0] \in Link
      BY DEF Link
    <2>3. link[g] \in Link BY <1>1, <2>1, <2>2
    <2> QED BY <1>1, <2>3
  <1>6. ASSUME NEW g \in Guest
        PROVE  /\ guest[g] \in Replica
               /\ guest[g].frame = 0 /\ guest[g].head = 0 /\ guest[g].stream = 0
               /\ guest[g].incoming = None /\ guest[g].work = <<>> /\ ~guest[g].catchingUp
    <2>1. (g \in playing) \in BOOLEAN OBVIOUS
    <2>2. Idle \in Replica BY DEF Maybe, Idle, Replica
    <2>3. ASSUME NEW b \in BOOLEAN
          PROVE  /\ [Idle EXCEPT !.run = b] \in Replica
                 /\ [Idle EXCEPT !.run = b].frame = 0 /\ [Idle EXCEPT !.run = b].head = 0
                 /\ [Idle EXCEPT !.run = b].stream = 0 /\ [Idle EXCEPT !.run = b].incoming = None
                 /\ [Idle EXCEPT !.run = b].work = <<>> /\ [Idle EXCEPT !.run = b].catchingUp = FALSE
      BY <2>2 DEF Replica, Idle
    <2>4. guest[g] = [Idle EXCEPT !.run = g \in playing] BY <1>1
    <2> QED BY <2>1, <2>3, <2>4
  <1>7. link \in [Guest -> Link] BY <1>1, <1>5
  <1>8. guest \in [Guest -> Replica] BY <1>1, <1>6
  <1>10. native \in [Guest -> Native] BY <1>2 DEF Native
  <1>11. TypeOK BY <1>3, <1>4, <1>7, <1>8, <1>2, <1>10 DEF TypeOK, Maybe, Packets
  <1>12. Bounded(room) BY <1>3, TimelineAssumption DEF Bounded
  <1>13. \A g \in Guest : room.transfer[g] = None /\ room.toGuest[g] = <<>> BY <1>1
  <1> QED BY <1>2, <1>3, <1>4, <1>5, <1>6, <1>11, <1>12, <1>13

\* What the invariant says of one guest holds at the start.
LEMMA StartFits ==
  ASSUME Init, NEW g \in Guest
  PROVE  FitsNow(g)
  <1>1. /\ room.toHost = <<>> /\ room.issued = 0 /\ host.frame = 0
        /\ room.transfer[g] = None /\ room.toGuest[g] = <<>> /\ outgoing[g] = None
        /\ down[g] = <<>> /\ up[g] = <<>> /\ chunks[g] = <<>>
        /\ link[g].stream = 0 /\ link[g].cursor = 0 /\ link[g].theirs = {}
        /\ guest[g].frame = 0 /\ guest[g].head = 0 /\ guest[g].stream = 0
        /\ guest[g].incoming = None /\ guest[g].work = <<>> /\ ~guest[g].catchingUp
        /\ native[g].at = 0
    BY StartTyped
  <1>2. DOMAIN <<>> = {} /\ Len(<<>>) = 0 OBVIOUS
  <1>3. Replays(host.frame, guest[g], native[g]) BY <1>1 DEF Replays
  <1>4. Checks(guest[g]) BY <1>1 DEF Checks
  <1>5. Past(host.frame, room.transfer[g], room.toGuest[g], outgoing[g], guest[g], down[g])
    BY <1>1 DEF Past
  <1>6. Once(g, room.toHost, chunks[g], guest[g].work) BY <1>1 DEF Once
  <1>7. Fresh(g, room.issued, room.toHost, room.transfer[g], room.toGuest[g], guest[g], chunks[g])
    BY <1>1 DEF Fresh, Late
  <1>8. Streams(g, room.issued, room.toHost, room.toGuest[g], outgoing[g], link[g], guest[g])
    BY <1>1 DEF Streams
  <1>9. Blames(up[g], link[g], guest[g], native[g]) BY <1>1 DEF Blames
  <1>10. Closing(g, room.toHost, room.transfer[g], outgoing[g], link[g]) BY <1>1 DEF Closing
  <1>11. End(guest[g], down[g]) = 0 BY FramesStep, <1>1, <1>2 DEF End
  <1>12. Served(g, host.frame, room.toHost, outgoing[g], link[g], guest[g], down[g])
    BY <1>1, <1>11 DEF Served
  <1>13. InOrder(guest[g], down[g]) BY <1>1 DEF InOrder
  <1> QED BY <1>3, <1>4, <1>5, <1>6, <1>7, <1>8, <1>9, <1>10, <1>12, <1>13 DEF FitsNow, Fits

\* The invariant holds at the start.
LEMMA InitInv == Init => Inv
  <1> SUFFICES ASSUME Init PROVE Inv OBVIOUS
  <1>1. TypeOK /\ Bounded(room) BY StartTyped
  <1>2. \A g \in Guest : FitsNow(g) BY StartFits
  <1>3. /\ room.toHost = <<>> /\ host.work = <<>> /\ host.pausedSent = FALSE
        /\ \A g \in Guest : outgoing[g] = None
    BY StartTyped
  <1>4. Stopping(room.status, room.toHost, host) BY <1>3 DEF Stopping, Has, Awaits
  <1>5. Owned(room.toHost, host.work, room.issued, outgoing) BY <1>3 DEF Owned
  <1> QED BY <1>1, <1>2, <1>4, <1>5 DEF Inv

\* Every step preserves it.
LEMMA NextInv == Inv /\ [Next]_vars => Inv'
  <1> SUFFICES ASSUME Inv, [Next]_vars PROVE Inv' OBVIOUS
  <1>1. CASE HostStep BY <1>1, HostDispatchKeeps, HostAnswerKeeps, HostEventKeeps DEF HostStep
  <1>2. CASE Pause BY <1>2, PauseKeeps
  <1>3. ASSUME NEW g \in Guest,
               \/ Serve(g) \/ GuestStep(g)
               \/ Expire(g) \/ Reassign(g) \/ Observe(g) \/ GuestPause(g) \/ GiveUp(g) \/ AskFrozen(g)
               \/ FrozenTransfer(g) \/ Stray(g)
        PROVE  Inv'
    BY <1>3, ServeKeeps, GuestStepKeeps, ExpireKeeps, ReassignKeeps, ObserveKeeps,
       GuestPauseKeeps, GiveUpKeeps, AskFrozenKeeps, FrozenTransferKeeps, StrayKeeps
  <1>4. CASE UNCHANGED vars BY <1>4 DEF vars, Inv, TypeOK, FitsNow
  <1> QED BY <1>1, <1>2, <1>3, <1>4 DEF Next

\* The invariant that the other theorems rest on: whatever the members, the
\* interval of the hashes, the history and the bounds are.
THEOREM InvHolds == Spec => []Inv
  <1>1. Init => Inv BY InitInv
  <1>2. Inv /\ [Next]_vars => Inv' BY NextInv
  <1> QED BY <1>1, <1>2, PTL DEF Spec

\* Every variable has its type (game-client.ts, game-scheduler.ts).
THEOREM TypeCorrect == Spec => []TypeOK
  <1>1. Inv => TypeOK BY DEF Inv
  <1> QED BY <1>1, InvHolds, PTL

\* The packets a running guest has yet to read on its stream are the next ones
\* of the host, so that no healthy guest is stopped for a bad stream
\* (game-client.ts:205-227).
THEOREM StreamsAreContiguous == Spec => []StreamContiguous
  <1>1. Inv => StreamContiguous
    <2> SUFFICES ASSUME Inv, NEW g \in Guest, guest[g].run, NEW i \in DOMAIN down[g],
                        down[g][i].stream = guest[g].stream
                 PROVE  LET p     == down[g][i].p
                            ahead == guest[g].head + FramesOf(guest[g].stream, down[g], i - 1)
                        IN IF p.kind = "frame" THEN p.frame = ahead ELSE p.frame <= ahead
      BY DEF StreamContiguous
    <2>1. InOrder(guest[g], down[g]) BY Standing DEF Fits
    <2> QED BY <2>1 DEF InOrder
  <1> QED BY <1>1, InvHolds, PTL

\* A hash that the host would hold against a guest is one of a guest that
\* strayed since its last checkpoint (game-client.ts:233, 264).
THEOREM OnlyStrayedAreBlamed == Spec => []BlameIsDeserved
  <1>1. Inv => BlameIsDeserved
    <2> SUFFICES ASSUME Inv, NEW g \in Guest, guest[g].run,
                        \/ \E i \in DOMAIN up[g] : up[g][i].stream = link[g].stream /\ ~up[g][i].p.agrees
                        \/ \E t \in link[g].theirs : ~t.agrees
                 PROVE  native[g].state # "agrees"
      BY DEF BlameIsDeserved
    <2>1. /\ Blames(up[g], link[g], guest[g], native[g])
          /\ guest[g].stream <= link[g].stream
      BY Standing DEF Fits, Streams
    <2>3. ASSUME NEW i \in DOMAIN up[g], up[g][i].stream = link[g].stream, ~up[g][i].p.agrees
          PROVE  native[g].state # "agrees"
      BY <2>1, Standing, ReplicaType, LinkType, <2>3 DEF Blames
    <2> QED BY <2>1, <2>3 DEF Blames
  <1> QED BY <1>1, InvHolds, PTL
-----------------------------------------------------------------------------
(* The timeline that everybody shares                                      *)

\* What the host says of the run: the frames it committed, and whether it goes on.
Settled(h) == h.pausedSent \/ h.over
SettlesTo(h) ==
  \/ h.frame = host.frame /\ (Settled(host) => Settled(h))
  \/ h.frame = host.frame + 1 /\ ~Settled(host)

\* A step of the host alone, seen in the shared timeline.
LEMMA HostShows ==
  ASSUME Inv, SettlesTo(host'), guest' = guest, native' = native
  PROVE  [Shared!Next]_Shared!vars
  <1> DEFINE w == [g \in Guest |-> IF guest[g].run THEN native[g] ELSE None]
  <1>1. w' = w OBVIOUS
  <1> HIDE DEF w
  <1>2. host \in Host /\ host.frame \in Nat BY TypedNow, HostType DEF Typed
  <1>3. CASE host'.frame = host.frame /\ (Settled(host) <=> Settled(host'))
    BY <1>1, <1>3 DEF Shared!vars, Settled, w
  <1>4. CASE host'.frame = host.frame /\ ~Settled(host) /\ Settled(host')
    BY <1>1, <1>4 DEF Shared!Settle, Settled, w, Shared!Next
  <1>5. CASE host'.frame = host.frame + 1 /\ ~Settled(host) /\ ~Settled(host')
    BY <1>1, <1>5 DEF Shared!Commit, Settled, w, Shared!Next
  <1>6. CASE host'.frame = host.frame + 1 /\ ~Settled(host) /\ Settled(host')
    BY <1>1, <1>6 DEF Shared!CommitAndSettle, Settled, w, Shared!Next
  <1> QED BY <1>3, <1>4, <1>5, <1>6 DEF SettlesTo

\* What one guest shows: it leaves or stays as it is, takes the state of the
\* host after some frame, runs the next frame, or strays.
Watches(g, e, n) ==
  \/ e.run => guest[g].run /\ n = native[g]
  \/ ~guest[g].run /\ e.run /\ n.at <= host.frame /\ n.state = "agrees"
  \/ /\ guest[g].run /\ e.run /\ native[g].at < host.frame
     /\ n.at = native[g].at + 1 /\ n.state = native[g].state
  \/ guest[g].run /\ e.run /\ n.at = native[g].at /\ n.state = "strayed"

\* A step of a guest, seen in the shared timeline.
LEMMA GuestShows ==
  ASSUME Inv, Inv', NEW g \in Guest, Watches(g, guest'[g], native'[g]), host' = host,
         \A h \in Guest \ {g} : guest'[h] = guest[h] /\ native'[h] = native[h]
  PROVE  [Shared!Next]_Shared!vars
  <1> DEFINE w == [h \in Guest |-> IF guest[h].run THEN native[h] ELSE None]
             n == native[g]
             m == native'[g]
             shows == IF guest'[g].run THEN m ELSE None
  <1>1. w' = [w EXCEPT ![g] = shows] OBVIOUS
  <1>2. w[g] = IF guest[g].run THEN n ELSE None OBVIOUS
  <1>3. /\ n \in Native /\ m \in Native /\ host.frame \in Nat /\ n # None
    BY TypedNow, HostType, NoneAssumption DEF Inv, TypeOK, Typed
  <1>4. /\ n = [at |-> n.at, state |-> n.state] /\ m = [at |-> m.at, state |-> m.state]
        /\ n.at \in Nat /\ m.at \in Nat
    BY <1>3 DEF Native
  <1>5. DOMAIN w = Guest /\ w = [h \in Guest |-> w[h]] OBVIOUS
  <1> HIDE DEF w, n, m, shows
  <1>6. CASE guest'[g].run => guest[g].run /\ m = n
    <2>1. CASE guest'[g].run = guest[g].run
      BY <1>2, <1>6, <2>1, <1>1, <1>5 DEF shows, Shared!vars, w
    <2>2. CASE guest'[g].run # guest[g].run
      BY <1>6, <2>2, <1>1 DEF Inv, TypeOK, Replica, shows, Shared!Leave, w, Shared!Next
    <2> QED BY <2>1, <2>2
  <1>7. CASE ~guest[g].run /\ guest'[g].run /\ m.at <= host.frame /\ m.state = "agrees"
    <2>1. w[g] = None /\ shows = Shared!Agreed(m.at) /\ m.at \in 0..host.frame
      BY <1>2, <1>3, <1>4, <1>7 DEF shows, Shared!Agreed
    <2>3. Shared!Adopt(g) BY <2>1, <1>1 DEF Shared!Adopt, w
    <2> QED BY <2>3 DEF Shared!Next
  <1>8. CASE /\ guest[g].run /\ guest'[g].run /\ n.at < host.frame
             /\ m.at = n.at + 1 /\ m.state = n.state
    <2>1. w[g] = n /\ w[g] # None /\ shows = m BY <1>2, <1>3, <1>8 DEF shows
    <2>2. m = [n EXCEPT !.at = n.at + 1] BY <1>4, <1>8
    <2>3. w' = [w EXCEPT ![g].at = w[g].at + 1] BY <1>1, <1>5, <2>1, <2>2
    <2>4. w[g].at < host.frame BY <1>8, <2>1
    <2>5. Shared!Follow(g) BY <2>1, <2>3, <2>4 DEF Shared!Follow, w
    <2> QED BY <2>5 DEF Shared!Next
  <1>9. CASE guest[g].run /\ guest'[g].run /\ m.at = n.at /\ m.state = "strayed"
    <2>1. w[g] = n /\ w[g] # None /\ shows = m BY <1>2, <1>3, <1>9 DEF shows
    <2>2. m = [n EXCEPT !.state = "strayed"] BY <1>4, <1>9
    <2>3. w' = [w EXCEPT ![g].state = "strayed"] BY <1>1, <1>5, <2>1, <2>2
    <2>4. Shared!Stray(g) BY <2>1, <2>3 DEF Shared!Stray, w
    <2> QED BY <2>4 DEF Shared!Next
  <1> QED BY <1>6, <1>7, <1>8, <1>9 DEF Watches, n, m

\* A step of one guest's scheduler.
LEMMA SetShows ==
  ASSUME Inv, Inv', NEW g \in Guest, NEW e, NEW n, SetGuest(g, e),
         native' = [native EXCEPT ![g] = n], Watches(g, e, n), host' = host
  PROVE  [Shared!Next]_Shared!vars
BY TypedNow, GuestShows DEF Typed, SetGuest

\* It does not begin to run, and its emulator is left alone.
LEMMA StaysShown ==
  ASSUME Inv, Inv', NEW g \in Guest, NEW e, SetGuest(g, e), native' = native, host' = host,
         e.run => guest[g].run
  PROVE  [Shared!Next]_Shared!vars
BY TypedNow, SetShows DEF Typed, Watches

\* What a guest asks of its emulator does not begin or end its run.
LEMMA RunKept ==
  ASSUME NEW e \in Replica
  PROVE  /\ \A kind, id : Ask(e, kind, id).run = e.run
         /\ GuestFinishesPause(e).run = e.run /\ FinishCatchup(e).run = e.run
         /\ GuestCommit(e).run = e.run
         /\ \A frame \in Nat : PauseAt(e, frame).run = e.run
  <1>1. ASSUME NEW x \in Replica, NEW kind, NEW id PROVE Ask(x, kind, id).run = x.run
    BY <1>1 DEF Ask, Replica
  <1>2. ASSUME NEW x \in Replica PROVE GuestFinishesPause(x).run = x.run
    <2> DEFINE y == [x EXCEPT !.pausedSent = TRUE, !.hashing = FALSE]
    <2>1. y \in Replica /\ y.run = x.run BY <1>2 DEF Replica
    <2>2. GuestFinishesPause(x) = IF x.pausedSent THEN x ELSE Ask(y, "pause", 0)
      BY DEF GuestFinishesPause
    <2> HIDE DEF y
    <2> QED BY <1>1, <2>1, <2>2
  <1>3. ASSUME NEW x \in Replica PROVE FinishCatchup(x).run = x.run
    <2> DEFINE y == [x EXCEPT !.checking = TRUE]
    <2>1. y \in Replica /\ y.run = x.run BY <1>3 DEF Replica
    <2>2. FinishCatchup(x) = x \/ FinishCatchup(x) = Ask(y, "check", x.incoming.id)
      BY DEF FinishCatchup
    <2> HIDE DEF y
    <2> QED BY <1>1, <2>1, <2>2
  <1>4. GuestCommit(e).run = e.run
    <2> DEFINE x == [e EXCEPT !.frame = e.frame + 1]
               y == [x EXCEPT !.hashing = TRUE]
    <2>1. x \in Replica /\ x.run = e.run BY ReplicaType DEF Replica
    <2>2. \/ GuestCommit(e) = GuestFinishesPause(x) \/ GuestCommit(e) = FinishCatchup(x)
          \/ GuestCommit(e) = Ask(y, "interval", 0)
      BY DEF GuestCommit
    <2> HIDE DEF x
    <2>3. y \in Replica /\ y.run = x.run BY <2>1 DEF Replica
    <2> HIDE DEF y
    <2> QED BY <1>1, <1>2, <1>3, <2>1, <2>2, <2>3
  <1>5. ASSUME NEW frame \in Nat PROVE PauseAt(e, frame).run = e.run
    <2> DEFINE x == [e EXCEPT !.fence = frame, !.frozen = FALSE]
    <2>1. x \in Replica /\ x.run = e.run BY DEF Replica, Maybe
    <2>2. PauseAt(e, frame) = x \/ PauseAt(e, frame) = GuestFinishesPause(x) BY DEF PauseAt
    <2> HIDE DEF x
    <2> QED BY <1>2, <2>1, <2>2
  <1> QED BY <1>1, <1>2, <1>3, <1>4, <1>5

\* The guest gives up.
LEMMA FailShows ==
  ASSUME Inv, Inv', NEW g \in Guest, NEW e \in Replica, Fail(g, e) \/ FailIncoming(g, e),
         native' = native, host' = host
  PROVE  [Shared!Next]_Shared!vars
BY Given, StaysShown DEF Fail, FailIncoming

\* What a guest's emulator answers: it follows, adopts a checkpoint or leaves.
LEMMA GuestAnswerShows ==
  ASSUME Inv, Inv', NEW g \in Guest, GuestAnswer(g)
  PROVE  [Shared!Next]_Shared!vars
  <1> DEFINE e0 == guest[g]
             asked == Head(e0.work)
             e == [e0 EXCEPT !.work = Tail(e0.work)]
             n == native[g]
  <1>0. /\ host.frame \in Nat /\ room.issued \in Nat /\ room.toHost \in Seq(Event)
        /\ room.transfer[g] \in Maybe(Transfers) /\ room.toGuest[g] \in Seq(Event)
        /\ outgoing[g] \in Maybe(Outgoing) /\ link[g] \in Link
    BY TypedNow, Pieces
  <1>1. /\ e0 \in Replica /\ n \in Native /\ down[g] \in Packets(HostPacket) /\ e0.work # <<>>
        /\ up[g] \in Packets(HashPacket) /\ chunks[g] \in Seq(Chunk)
        /\ Fits(g, host.frame, room.issued, room.toHost, room.transfer[g], room.toGuest[g],
                outgoing[g], link[g], e0, n, down[g], up[g], chunks[g])
    BY Here DEF GuestAnswer, FitsRoom
  <1>2. /\ Tail(e0.work) \in Seq(Job)
        /\ asked.kind = "frame" /\ e0.run => asked.id = e0.frame /\ e0.frame < e0.head
        /\ asked.kind = "import" /\ Takes(e0, asked.id) => ~e0.run
    <2> HIDE DEF e0, n
    <2> QED BY <1>0, <1>1, Answered
  <1>3. /\ e \in Replica /\ e.frame = e0.frame /\ e.head = e0.head
        /\ e.run = e0.run /\ e.incoming = e0.incoming
    BY <1>1, <1>2 DEF Replica
  <1>4. host' = host BY DEF GuestAnswer
  <1>5. ASSUME NEW x, SetGuest(g, x), native' = native, x.run => e.run
        PROVE  [Shared!Next]_Shared!vars
    BY <1>3, <1>4, <1>5, StaysShown
  <1>6. CASE asked.kind = "frame"
    <2> DEFINE m == Ran(n, asked.id)
               x == IF e.run THEN GuestCommit(e) ELSE e
    <2>1. native' = [native EXCEPT ![g] = m] /\ SetGuest(g, x) BY <1>6 DEF GuestAnswer
    <2>2. m.at = n.at + 1 /\ (n.at = asked.id => m.state = n.state) BY DEF Ran
    <2>3. x.run = e.run BY <1>3, RunKept
    <2>4. e0.run => n.at = asked.id /\ n.at < host.frame
      BY <1>1, ReplicaType, <1>0, <1>2, <1>6 DEF Fits, Replays
    <2> HIDE DEF m, x
    <2>5. Watches(g, x, m) BY <1>1, <1>3, <2>3, <2>2, <2>4 DEF Replica, Watches
    <2> QED BY <1>4, <2>1, <2>5, SetShows
  <1>7. CASE asked.kind = "interval"
    <2> DEFINE own == Hash(e.frame, n.state = "agrees")
               os == IF e.frame \in e.theirs THEN e.ours
                     ELSE e.ours \cup {[frame |-> e.frame, agrees |-> own.agrees]}
               x == [e EXCEPT !.hashing = FALSE, !.theirs = e.theirs \ {e.frame}, !.ours = os]
    <2>1. GuestHash(g, e) /\ native' = native BY <1>7 DEF GuestAnswer
    <2>3. own.agrees \in BOOLEAN BY DEF Hash
    <2>4. os \in SUBSET Claim /\ e.theirs \ {e.frame} \in SUBSET Nat
      BY <1>3, <2>3 DEF Replica, Claim
    <2> HIDE DEF os, e
    <2>5. x \in Replica /\ x.run = e.run BY <1>3, <2>4 DEF Replica
    <2> HIDE DEF x
    <2>6. FinishCatchup(x).run = e.run BY <2>5, RunKept
    <2> QED BY <1>3, <1>4, <1>5, <2>1, <2>6, FailShows DEF GuestHash
  <1>8. CASE asked.kind = "check"
    <2> DEFINE x == [e EXCEPT !.catchingUp = FALSE, !.checking = FALSE]
    <2>1. CheckBoundary(g, e, asked.id) /\ native' = native BY <1>8 DEF GuestAnswer
    <2>2. SetGuest(g, e) \/ FailIncoming(g, e) \/ SetGuest(g, x) BY <2>1 DEF CheckBoundary
    <2>3. x.run = e.run BY <1>3 DEF Replica
    <2> HIDE DEF x, e
    <2> QED BY <1>3, <1>4, <1>5, <2>1, <2>2, <2>3, FailShows
  <1>9. CASE asked.kind = "hold"
    <2> DEFINE x == [e EXCEPT !.run = FALSE]
    <2>1. native' = native /\ (SetGuest(g, e) \/ SetGuest(g, x)) BY <1>9 DEF GuestAnswer
    <2>2. ~x.run BY <1>3 DEF Replica
    <2> HIDE DEF x, e
    <2> QED BY <1>5, <2>1, <2>2
  <1>10. CASE asked.kind = "import"
    <2> DEFINE from == e.incoming.frame
               m == [at |-> from, state |-> "agrees"]
               x == [e EXCEPT !.run = TRUE, !.frame = from, !.head = from, !.stream = asked.id,
                              !.catchingUp = TRUE, !.target = None, !.checking = FALSE,
                              !.frozen = FALSE, !.hashing = FALSE, !.pausedSent = FALSE,
                              !.ours = {}, !.theirs = {}, !.received = 0]
    <2>1. Install(g, e, asked.id) BY <1>10 DEF GuestAnswer
    <2>2. CASE ~Takes(e, asked.id) BY <1>5, <2>1, <2>2 DEF Install
    <2>3. CASE Takes(e, asked.id)
      <3>1. native' = [native EXCEPT ![g] = m] /\ SetGuest(g, x) BY <2>1, <2>3 DEF Install
      <3>2. e.incoming # None /\ ~e0.run BY <1>2, <1>3, <1>10, <2>3 DEF Takes
      <3>3. from <= host.frame BY <1>1, <1>3, <3>2 DEF Fits, Past
      <3>4. x.run BY <1>3 DEF Replica
      <3>5. Watches(g, x, m) BY <3>2, <3>3, <3>4 DEF Watches
      <3> HIDE DEF x, m
      <3> QED BY <1>4, <3>1, <3>5, SetShows
    <2> QED BY <2>2, <2>3
  <1>11. CASE asked.kind = "pause"
    <2> DEFINE x == [e EXCEPT !.paused = TRUE]
    <2>1. native' = native /\ (SetGuest(g, e) \/ SetGuest(g, FinishCatchup(x)))
      BY <1>11 DEF GuestAnswer
    <2>2. x \in Replica /\ x.run = e.run BY <1>3 DEF Replica
    <2> HIDE DEF x, e
    <2>3. FinishCatchup(x).run = e.run BY <2>2, RunKept
    <2> QED BY <1>5, <2>1, <2>3
  <1> QED BY <1>6, <1>7, <1>8, <1>9, <1>10, <1>11 DEF GuestAnswer

\* A packet is read.
LEMMA GuestReceiveShows ==
  ASSUME Inv, Inv', NEW g \in Guest, GuestReceive(g)
  PROVE  [Shared!Next]_Shared!vars
  <1> DEFINE e == guest[g]
             p == Head(down[g]).p
             got == e.theirs \cup {p.frame}
             ts == IF p.frame \in {o.frame : o \in e.ours} THEN e.theirs ELSE got
             x1 == [e EXCEPT !.target = p.frame]
             x2 == [e EXCEPT !.head = e.head + 1]
             x3 == [e EXCEPT !.received = p.frame, !.theirs = ts]
  <1>1. e \in Replica /\ down[g] \in Packets(HostPacket) /\ down[g] # <<>> BY Standing DEF GuestReceive
  <1>2. p.frame \in Nat BY <1>1, PacketTail DEF IsPacket, HostPacket, HashPacket
  <1>3. native' = native /\ host' = host BY DEF GuestReceive
  <1>4. \/ SetGuest(g, FinishCatchup(x1)) \/ SetGuest(g, x2) \/ SetGuest(g, x3)
        \/ Fail(g, e) \/ guest' = guest
    BY DEF GuestReceive
  <1> HIDE DEF e, p, ts
  <1>5. x1 \in Replica /\ x1.run = e.run BY <1>1, <1>2 DEF Replica, Maybe
  <1>6. x2.run = e.run BY <1>1 DEF Replica
  <1>7. x3.run = e.run BY <1>1 DEF Replica
  <1> HIDE DEF x1, x2, x3
  <1>8. FinishCatchup(x1).run = e.run BY <1>5, RunKept
  <1>9. CASE guest' = guest BY <1>3, <1>9, HostShows DEF SettlesTo
  <1>10. CASE Fail(g, e) BY <1>1, <1>3, <1>10, FailShows
  <1> QED BY <1>3, <1>4, <1>6, <1>7, <1>8, <1>9, <1>10, StaysShown DEF e

\* An event is read.
LEMMA GuestEventShows ==
  ASSUME Inv, Inv', NEW g \in Guest, GuestEvent(g)
  PROVE  [Shared!Next]_Shared!vars
  <1> DEFINE e == guest[g]
             ev == Head(room.toGuest[g])
             x == Cancelled(e)
             ch == [id |-> ev.id, frame |-> ev.frame]
             y == [x EXCEPT !.incoming = ch, !.frozen = TRUE]
  <1>1. /\ e \in Replica /\ ev \in Event /\ ev.id \in Nat /\ ev.frame \in Nat
    <2>1. room.toGuest[g] \in Seq(Event) /\ room.toGuest[g] # <<>> BY Standing DEF GuestEvent
    <2>2. ev \in Event BY <2>1, TailAt
    <2> QED BY <2>2, Standing DEF Event
  <1>2. native' = native /\ host' = host BY DEF GuestEvent
  <1>3. \/ SetGuest(g, Ask(y, "hold", ev.id)) \/ SetGuest(g, Halted(e)) \/ SetGuest(g, x)
        \/ SetGuest(g, PauseAt(e, ev.frame)) \/ SetGuest(g, Cleared(e)) \/ SetGuest(g, e)
    BY DEF GuestEvent
  <1> HIDE DEF e, ev
  <1>4. x \in Replica /\ x.run = e.run /\ ~Halted(e).run /\ ~Cleared(e).run BY <1>1, Given
  <1>5. ch \in Maybe(Chunk) BY <1>1 DEF Chunk, Maybe
  <1> HIDE DEF x, ch
  <1>6. y \in Replica /\ y.run = x.run BY <1>4, <1>5 DEF Replica
  <1> HIDE DEF y
  <1>7. Ask(y, "hold", ev.id).run = e.run BY <1>4, <1>6, RunKept
  <1>8. PauseAt(e, ev.frame).run = e.run BY <1>1, RunKept
  <1> QED BY <1>2, <1>3, <1>4, <1>7, <1>8, StaysShown DEF e

\* The steps of a guest.
LEMMA GuestStepShows ==
  ASSUME Inv, Inv', NEW g \in Guest, GuestStep(g)
  PROVE  [Shared!Next]_Shared!vars
BY Standing, RunKept, StaysShown, GuestAnswerShows, GuestReceiveShows, GuestEventShows DEF
   GuestDispatch, GuestChunks, GuestStep

\* What the host asks of its emulator commits nothing and settles nothing.
LEMMA HostKept ==
  ASSUME NEW h \in Host
  PROVE  /\ \A kind, id : /\ Ask(h, kind, id).frame = h.frame /\ Ask(h, kind, id).over = h.over
                          /\ Ask(h, kind, id).pausedSent = h.pausedSent
         /\ FinishPause(h).frame = h.frame /\ FinishPause(h).pausedSent
  <1>1. ASSUME NEW x \in Host, NEW kind, NEW id
        PROVE  /\ Ask(x, kind, id).frame = x.frame /\ Ask(x, kind, id).over = x.over
               /\ Ask(x, kind, id).pausedSent = x.pausedSent
    BY <1>1 DEF Ask, Host
  <1>2. FinishPause(h).frame = h.frame /\ FinishPause(h).pausedSent
    <2> DEFINE y == [h EXCEPT !.pausedSent = TRUE, !.hashing = FALSE]
    <2>1. y \in Host /\ y.frame = h.frame /\ y.pausedSent BY DEF Host
    <2>2. FinishPause(h) = IF h.pausedSent THEN h ELSE Ask(y, "pause", 0) BY DEF FinishPause
    <2> HIDE DEF y
    <2> QED BY <1>1, <2>1, <2>2
  <1> QED BY <1>1, <1>2

\* What the worker of the host answers: a frame that it committed is one more.
LEMMA HostAnswerShows ==
  ASSUME Inv, HostAnswer
  PROVE  SettlesTo(host') /\ guest' = guest /\ native' = native
  <1> DEFINE asked == Head(host.work)
             answered == [host EXCEPT !.work = Tail(host.work)]
             next == [answered EXCEPT !.frame = answered.frame + 1]
             hashing(x) == [x EXCEPT !.hashing = TRUE]
             known(b) == [answered EXCEPT !.hashing = b, !.hashes = answered.hashes \cup {host.frame}]
  <1>1. ~host.over /\ host.work # <<>> BY DEF HostAnswer
  <1>2. Reads(answered) BY <1>1, HostAnswered
  <1>3. /\ answered \in Host /\ answered.frame = host.frame /\ answered.over = host.over
        /\ answered.pausedSent = host.pausedSent /\ host.frame \in Nat
        /\ host.pausedSent \in BOOLEAN /\ host \in Host
    BY <1>2, TypedNow, HostType DEF Reads, Typed
  <1>4. guest' = guest /\ native' = native
    BY DEF HostAnswer, Commit, HostHash, Exported, BoundaryKnown
  <1>5. asked.kind = "frame" => ~host.pausedSent
    BY <1>1, <1>3, HostType, TailAt DEF Awaits, Inv, Stopping
  <1>6. \/ asked.kind = "frame" /\ Commit(answered)
        \/ HostHash(answered) \/ Exported(answered)
        \/ \E g \in Guest : BoundaryKnown(g, answered)
        \/ host' = answered \/ HostHeld(answered)
        \/ host' = [answered EXCEPT !.hashes = answered.hashes \cup {host.frame}]
    BY DEF HostAnswer
  <1> HIDE DEF answered
  <1>7. CASE asked.kind = "frame" /\ Commit(answered)
    <2>1. /\ next \in Host /\ next.frame = host.frame + 1 /\ next.over = host.over
          /\ next.pausedSent = host.pausedSent
      BY <1>3 DEF Host
    <2>2. PICK x \in {next, Ask(next, "export", 0)} :
            host' \in {FinishPause(x), Ask(hashing(x), "interval", 0), x}
      BY <1>7 DEF Commit
    <2>3. next.work \in Seq(Job) BY <2>1, HostType
    <2> HIDE DEF next
    <2>4. x \in Host
      <3>1. Ask(next, "export", 0) \in Host
        <4> DEFINE job == [kind |-> "export", id |-> 0]
        <4>1. job \in Job BY DEF Job
        <4>2. Append(next.work, job) \in Seq(Job) BY <2>3, <4>1
        <4>3. Ask(next, "export", 0) = [next EXCEPT !.work = Append(next.work, job)] BY DEF Ask
        <4> HIDE DEF job
        <4> QED BY <2>1, <4>2, <4>3 DEF Host
      <3> QED BY <2>1, <2>2, <3>1
    <2>5. x.frame = host.frame + 1 BY <2>1, <2>2, HostKept
    <2>6. hashing(x) \in Host /\ hashing(x).frame = x.frame BY <2>4 DEF Host
    <2> HIDE DEF hashing
    <2>7. host'.frame = host.frame + 1 BY <2>2, <2>4, <2>5, <2>6, HostKept
    <2> QED BY <1>1, <1>4, <1>5, <1>7, <2>7 DEF SettlesTo, Settled
  <1>8. CASE host' = answered BY <1>3, <1>4, <1>8 DEF SettlesTo, Settled
  <1>9. CASE HostHash(answered)
    <2>1. host' = answered \/ host' = known(FALSE) BY <1>9 DEF HostHash
    <2>2. /\ known(FALSE).frame = host.frame /\ known(FALSE).over = host.over
          /\ known(FALSE).pausedSent = host.pausedSent
      BY <1>3 DEF Host
    <2> HIDE DEF known
    <2> QED BY <1>4, <1>8, <2>1, <2>2 DEF SettlesTo, Settled
  <1>10. CASE Exported(answered) BY <1>8, <1>10 DEF Exported
  <1>11. CASE \E g \in Guest : BoundaryKnown(g, answered) BY <1>8, <1>11 DEF BoundaryKnown
  <1>12. CASE HostHeld(answered)
    BY <1>12, <1>3, <1>4, <1>8 DEF HostHeld, HostOver, Host, SettlesTo, Settled
  <1>13. CASE host' = [answered EXCEPT !.hashes = answered.hashes \cup {host.frame}]
    BY <1>3, <1>13, <1>4 DEF Host, SettlesTo, Settled
  <1> QED BY <1>6, <1>7, <1>8, <1>9, <1>10, <1>11, <1>12, <1>13

\* The steps of the host.
LEMMA HostStepShows ==
  ASSUME Inv, HostStep
  PROVE  SettlesTo(host') /\ guest' = guest /\ native' = native
  <1>1. host \in Host BY TypedNow DEF Typed
  <1>2. CASE HostDispatch BY <1>2, <1>1, HostKept DEF HostDispatch, SettlesTo, Settled
  <1>3. CASE HostEvent
    <2> DEFINE frozen == [host EXCEPT !.frozen = TRUE]
               fenced(at) == [host EXCEPT !.fence = at, !.frozen = FALSE]
    <2>1. /\ guest' = guest /\ native' = native
          /\ \/ host' = host \/ host' = Ask(host, "export", 0) \/ host' = Ask(frozen, "hold", 0)
             \/ /\ room.toHost # <<>> /\ Head(room.toHost).type = "pauseAt"
                /\ \/ host' = fenced(Head(room.toHost).frame)
                   \/ host' = FinishPause(fenced(Head(room.toHost).frame))
             \/ host' = HostOver(host)
      BY <1>3 DEF HostEvent
    <2>2. /\ frozen \in Host /\ frozen.frame = host.frame /\ frozen.over = host.over
          /\ frozen.pausedSent = host.pausedSent
      BY <1>1 DEF Host
    <2>3. ASSUME room.toHost # <<>>, NEW at, at = Head(room.toHost).frame
          PROVE  /\ fenced(at) \in Host /\ fenced(at).frame = host.frame
                 /\ fenced(at).over = host.over /\ fenced(at).pausedSent = host.pausedSent
      <3>1. Head(room.toHost) \in Event BY <2>3, TypedNow, RoomType, TailAt
      <3>2. at \in Nat BY <2>3, <3>1 DEF Event
      <3> QED BY <1>1, <3>2 DEF Host, Maybe
    <2>4. HostOver(host).frame = host.frame /\ HostOver(host).over BY <1>1 DEF HostOver, Host
    <2> HIDE DEF frozen, fenced
    <2>5. CASE host' = Ask(frozen, "hold", 0) BY <2>1, <2>2, <2>5, HostKept DEF SettlesTo, Settled
    <2>6. CASE host' = Ask(host, "export", 0) BY <1>1, <2>1, <2>6, HostKept DEF SettlesTo, Settled
    <2>7. CASE /\ room.toHost # <<>>
               /\ \/ host' = fenced(Head(room.toHost).frame)
                  \/ host' = FinishPause(fenced(Head(room.toHost).frame))
      BY <2>1, <2>3, <2>7, HostKept DEF SettlesTo, Settled
    <2> QED BY <2>1, <2>4, <2>5, <2>6, <2>7 DEF SettlesTo, Settled
  <1> QED BY <1>2, <1>3, HostAnswerShows DEF HostStep

\* To serve a guest shows nothing.
LEMMA ServeShows ==
  ASSUME Inv, NEW g \in Guest, Serve(g)
  PROVE  SettlesTo(host') /\ guest' = guest /\ native' = native
BY TypedNow, HostKept DEF Typed, Serve, HostCaptured, PumpLink, LoseLink, FixBoundary,
   BoundaryKnown, Catchup, FailOutgoing, HostReceive, SettlesTo, Settled

\* Every step is one of the shared timeline, or shows nothing.
LEMMA NextShows ==
  ASSUME Inv, Inv', [Next]_vars
  PROVE  [Shared!Next]_Shared!vars
  <1>1. CASE HostStep BY <1>1, HostStepShows, HostShows
  <1>2. CASE Pause BY <1>2, TypedNow, HostShows DEF Pause, Typed, Host, SettlesTo, Settled
  <1>3. ASSUME NEW g \in Guest, Serve(g) PROVE [Shared!Next]_Shared!vars
    BY <1>3, ServeShows, HostShows
  <1>4. ASSUME NEW g \in Guest, GuestStep(g) PROVE [Shared!Next]_Shared!vars BY <1>4, GuestStepShows
  <1>5. ASSUME NEW g \in Guest, Expire(g) \/ Reassign(g) \/ Observe(g)
        PROVE  [Shared!Next]_Shared!vars
    BY <1>5, HostShows DEF Expire, Reassign, Observe, SettlesTo
  <1>6. ASSUME NEW g \in Guest, GuestPause(g) \/ GiveUp(g) \/ AskFrozen(g) \/ FrozenTransfer(g)
        PROVE  [Shared!Next]_Shared!vars
    <2> DEFINE x == [guest[g] EXCEPT !.frozen = TRUE]
               y == [guest[g] EXCEPT !.asked = TRUE]
    <2>1. /\ host' = host /\ native' = native
          /\ \/ SetGuest(g, x) \/ SetGuest(g, y) \/ SetGuest(g, Halted(guest[g]))
             \/ Fail(g, guest[g]) \/ Fail(g, y) \/ guest' = guest
      BY <1>6 DEF GuestPause, GiveUp, AskFrozen, FrozenTransfer
    <2>2. guest[g] \in Replica BY Standing
    <2>3. x.run = guest[g].run BY <2>2 DEF Replica
    <2>4. y \in Replica /\ y.run = guest[g].run BY <2>2, AskedIs
    <2> HIDE DEF x, y
    <2>5. ~Halted(guest[g]).run BY <2>2, Given
    <2>6. guest' = guest => SetGuest(g, guest[g]) BY Same DEF SetGuest
    <2> QED BY <2>1, <2>2, <2>3, <2>4, <2>5, <2>6, FailShows, StaysShown
  <1>7. ASSUME NEW g \in Guest, Stray(g) PROVE [Shared!Next]_Shared!vars
    <2> DEFINE n == [native[g] EXCEPT !.state = "strayed"]
    <2>1. /\ host' = host /\ guest' = guest /\ guest[g].run
          /\ native' = [native EXCEPT ![g] = n]
      BY <1>7 DEF Stray
    <2>2. guest' = [guest EXCEPT ![g] = guest[g]] BY <2>1, TypedNow DEF Typed
    <2>3. n.at = native[g].at /\ n.state = "strayed" BY Standing DEF Native
    <2> HIDE DEF n
    <2>4. Watches(g, guest[g], n) BY <2>1, <2>3 DEF Watches
    <2> QED BY <2>1, <2>2, <2>4, SetShows DEF SetGuest
  <1>8. CASE UNCHANGED vars BY <1>8, HostShows DEF vars, SettlesTo
  <1> QED BY <1>1, <1>2, <1>3, <1>4, <1>5, <1>6, <1>7, <1>8 DEF Next

\* So is the start.
LEMMA InitShows == Init => Shared!Init
  <1> SUFFICES ASSUME Init PROVE Shared!Init OBVIOUS
  <1> DEFINE w == [g \in Guest |-> IF guest[g].run THEN native[g] ELSE None]
  <1>1. /\ host.frame = 0 /\ host.pausedSent = FALSE
        /\ \A g \in Guest : native[g] = Shared!Agreed(0)
    BY StartTyped DEF Shared!Agreed
  <1>2. host.over = FALSE BY DEF Init
  <1>3. w \in [Guest -> {None, Shared!Agreed(0)}] BY <1>1
  <1> HIDE DEF w
  <1> QED BY <1>1, <1>2, <1>3 DEF Shared!Init, w

\* The shared timeline is kept: what a guest shows is what the host showed after
\* as many frames, whatever checkpoints, old streams and pauses came between,
\* and moves on frame by frame (game-scheduler.ts:71-96, game-client.ts:228-244).
THEOREM SharedTimelineIsKept == Spec => TimelineIsShared
  <1>1. Init => Shared!Init BY InitShows
  <1>2. Inv /\ Inv' /\ [Next]_vars => [Shared!Next]_Shared!vars BY NextShows
  <1> QED BY <1>1, <1>2, InvHolds, PTL DEF Spec, TimelineIsShared, Shared!Spec
=============================================================================
