------------------------------ MODULE Timeline ------------------------------
(***************************************************************************)
(* One run of a shared game: the host's GameScheduler commits a frame at a *)
(* time and never waits for anyone, each guest replays the same frames in  *)
(* an emulator of its own, and a guest that falls behind or differs is     *)
(* given a checkpoint of the host and the frames after it, up to a         *)
(* boundary both hash, while the host plays on.                            *)
(*                                                                         *)
(* The emulator is a worker that answers in order, so what a browser asked *)
(* of it is a queue.  A frame packet is its number: the masks were chosen  *)
(* once and are kept under it.  The native state of a guest is the number  *)
(* of frames it ran and how it compares with the host's after as many.     *)
(* The coordinator handles a command when it is sent; the events it sends  *)
(* are queued per member.  Inputs and leases are module InputLease, pauses *)
(* for loads and role changes GameSession.                                 *)
(***************************************************************************)
EXTENDS Integers, Sequences, FiniteSets

CONSTANTS
  Guest, None,
  HashInterval,  \* frames between two hashes that the members exchange
  History,       \* frames the host retains
  Straying,      \* guests whose emulator may stop agreeing with the host's
  Reassigned,    \* bound: observers that may take a departed player's controller
  Expiring,      \* BOOLEAN: a transfer may run out of time
  MaxFrame,      \* bound on the frames of the run
  MaxTransfer    \* bound on the transfers asked for

ASSUME TimelineAssumption ==
  /\ IsFiniteSet(Guest)
  /\ HashInterval \in Nat \ {0}
  /\ History \in Nat \ {0}
  /\ Straying \subseteq Guest /\ Reassigned \subseteq Guest
  /\ Expiring \in BOOLEAN
  /\ MaxFrame \in Nat /\ MaxTransfer \in Nat

VARIABLES
  room,      \* the coordinator's game: status, pause frame, transfers, events
  host,      \* the authority's scheduler and what its worker has to answer
  link,      \* the host's side of each guest's channel
  outgoing,  \* the host's transfers
  down, up,  \* packets on their way to a guest and from it
  chunks,    \* checkpoints on their way on the checkpoint channels
  guest,     \* the scheduler and the synchronization of each guest
  native     \* the state of each guest's emulator

vars == <<room, host, link, outgoing, down, up, chunks, guest, native>>
-----------------------------------------------------------------------------
(* The coordinator: GameSession.handle, for the commands of a run.         *)

Tell(r, g, event) == [r EXCEPT !.toGuest[g] = Append(@, event)]
TellHost(r, event) == [r EXCEPT !.toHost = Append(@, event)]
Transfer(id) ==
  [id |-> id, frame |-> None, sending |-> FALSE, catchingUp |-> FALSE, boundary |-> None]
SyncEvent(type, g, id, frame) == [type |-> type, guest |-> g, id |-> id, frame |-> frame]

\* capture, for guests that have no transfer and ask one after another. Bound:
\* after MaxTransfer of them, every other is refused as when too many run.
CaptureEach(r, order) ==
  LET left    == MaxTransfer - r.issued
      count   == IF Len(order) <= left THEN Len(order) ELSE left
      granted == 1..count
      takes(g) == {i \in granted : order[i] = g}
  IN [r EXCEPT !.issued = @ + count,
               !.transfer = [g \in Guest |-> IF takes(g) = {} THEN r.transfer[g]
                                             ELSE Transfer(r.issued + CHOOSE i \in takes(g) : TRUE)],
               !.toHost = @ \o [i \in granted |-> SyncEvent("capture", order[i], r.issued + i, 0)]]

\* An open transfer of the guest is kept, and that is no error.
Capture(r, g) ==
  IF r.transfer[g] # None THEN r ELSE CaptureEach(r, <<g>>)

CancelTransfer(r, g) ==
  LET stop == SyncEvent("syncStop", g, r.transfer[g].id, 0)
  IN Tell(TellHost([r EXCEPT !.transfer[g] = None], stop), g, stop)

Ours(r, g, id) == r.transfer[g] # None /\ r.transfer[g].id = id

Resynchronize(r, g) == IF r.status = "playing" THEN Capture(r, g) ELSE r

Captured(r, g, id, frame) ==
  IF ~Ours(r, g, id) \/ r.transfer[g].frame # None THEN r
  ELSE LET event == SyncEvent("checkpoint", g, id, frame)
       IN Tell(TellHost([r EXCEPT !.transfer[g].frame = frame], event), g, event)

CheckpointReady(r, g, id) ==
  IF ~Ours(r, g, id) \/ r.transfer[g].sending THEN r
  ELSE TellHost([r EXCEPT !.transfer[g].sending = TRUE], SyncEvent("send", g, id, 0))

CheckpointAck(r, g, id, frame) ==
  IF ~Ours(r, g, id) \/ r.transfer[g].catchingUp THEN r
  ELSE TellHost([r EXCEPT !.transfer[g].catchingUp = TRUE], SyncEvent("catchup", g, id, frame))

CheckpointFailed(r, g, id) == IF Ours(r, g, id) THEN CancelTransfer(r, g) ELSE r

CatchupBoundary(r, g, id, frame) ==
  IF Ours(r, g, id) THEN [r EXCEPT !.transfer[g].boundary = frame] ELSE r

Confirms(r, g, id, frame) == Ours(r, g, id) /\ r.transfer[g].boundary = frame
Observed(r, g, id, frame) ==
  LET event == SyncEvent("live", g, id, frame)
  IN Tell(TellHost([r EXCEPT !.transfer[g] = None], event), g, event)

Freeze(r) ==
  IF r.status # "playing" THEN r
  ELSE TellHost([r EXCEPT !.status = "pausing"], SyncEvent("freeze", None, 0, 0))

\* gameFrozen, of a session that still pauses.
Frozen(r, frame) ==
  LET at == SyncEvent("pauseAt", None, 0, frame) IN
  [r EXCEPT !.status = "paused", !.frame = frame, !.toHost = Append(@, at),
            !.toGuest = [g \in Guest |-> Append(r.toGuest[g], at)]]

Stopped(r) ==
  LET stop == SyncEvent("stop", None, 0, 0)
  IN [r EXCEPT !.status = "failed", !.transfer = [m \in Guest |-> None], !.frozen = {},
               !.toHost = Append(@, stop),
               !.toGuest = [m \in Guest |-> Append(r.toGuest[m], stop)]]

\* gameAbort of a guest ends its synchronization; once the game is not playing
\* any more, that of a player ends the run for everybody.
Abort(r, g) ==
  IF r.status = "playing" \/ g \notin r.owners
  THEN IF r.transfer[g] = None THEN r ELSE CancelTransfer(r, g)
  ELSE Stopped(r)

\* gameObserve of a player once the game is paused; an open transfer is kept.
\* Module GameSession carries the transfer of the frozen state.
ObserveFrozen(r, g) ==
  IF r.transfer[g] # None THEN r ELSE [r EXCEPT !.frozen = @ \cup {g}]

\* sweep: the deadline of a transfer.
Expire(g) ==
  /\ Expiring
  /\ room.transfer[g] # None
  /\ room' = CancelTransfer(room, g)
  /\ UNCHANGED <<host, link, outgoing, down, up, chunks, guest, native>>
-----------------------------------------------------------------------------
(* The host.                                                               *)

At(f) == f % HashInterval = 0
Hash(frame, agrees) == [kind |-> "hash", frame |-> frame, agrees |-> agrees]
Packet(stream, p) == [stream |-> stream, p |-> p]
Frame(frame) == [kind |-> "frame", frame |-> frame]

Awaits(work, kind) == \E i \in DOMAIN work : work[i].kind = kind
Ask(h, kind, id) == [h EXCEPT !.work = Append(@, [kind |-> kind, id |-> id])]
\* Mutation: the host waits while a guest is synchronized.
HostIsRunningAlone ==
  /\ ~host.over /\ ~host.frozen /\ ~host.hashing /\ ~host.pausedSent
  /\ \A g \in Guest : outgoing[g] = None
HostIsRunning == ~host.over /\ ~host.frozen /\ ~host.hashing /\ ~host.pausedSent

\* isolate: stop serving the guest, and ask for a checkpoint unless one was asked.
Isolated(l) == [l EXCEPT !.live = FALSE, !.theirs = {}, !.received = 0,
                         !.recovering = @ \/ room.status = "playing"]
Isolate(r, g) == IF link[g].recovering THEN r ELSE Resynchronize(r, g)

FinishPause(h) ==
  IF h.pausedSent THEN h
  ELSE Ask([h EXCEPT !.pausedSent = TRUE, !.hashing = FALSE], "pause", 0)

\* pumpGame: next() takes the masks of the moment, whatever the guests do.
HostDispatch ==
  /\ HostIsRunning
  /\ ~Awaits(host.work, "frame")
  /\ host.frame < (IF host.fence = None THEN MaxFrame ELSE host.fence)
  /\ host' = Ask(host, "frame", 0)
  /\ UNCHANGED <<room, link, outgoing, down, up, chunks, guest, native>>

Exporting(o) == o # None /\ o.capture = "asked"

\* committed(): the frame is history; a capture that waited for the first
\* committed frame is exported, and an interval hashes before the next frame.
Commit(answered) ==
  LET next   == [answered EXCEPT !.frame = @ + 1]
      asking == {g \in Guest : outgoing[g] # None /\ outgoing[g].capture = "none"}
      export == IF asking = {} \/ Awaits(next.work, "export") THEN next ELSE Ask(next, "export", 0)
  IN /\ host' = IF next.fence = next.frame THEN FinishPause(export)
                ELSE IF At(next.frame) THEN Ask([export EXCEPT !.hashing = TRUE], "interval", 0)
                ELSE export
     /\ outgoing' = [g \in Guest |-> IF g \in asking THEN [outgoing[g] EXCEPT !.capture = "asked"]
                                     ELSE outgoing[g]]
     /\ UNCHANGED <<room, link, down, up, chunks, guest, native>>

Orders(S) == {s \in [1..Cardinality(S) -> S] : \A i, j \in DOMAIN s : s[i] = s[j] => i = j}

\* scheduler.hash(): served guests that are up to date get it, and those whose
\* own hash came first and differs are isolated.
HostHash(answered) ==
  LET frame  == host.frame
      faults == {g \in Guest : [frame |-> frame, agrees |-> FALSE] \in link[g].theirs}
  IN IF host.pausedSent
     THEN host' = answered /\ UNCHANGED <<room, link, outgoing, down, up, chunks, guest, native>>
     ELSE /\ host' = [answered EXCEPT !.hashing = FALSE, !.hashes = @ \cup {frame}]
          /\ down' = [g \in Guest |-> IF link[g].live /\ link[g].cursor = frame
                                      THEN Append(down[g], Packet(link[g].stream, Hash(frame, TRUE)))
                                      ELSE down[g]]
          /\ link' = [g \in Guest |-> IF g \in faults THEN Isolated(link[g])
                        ELSE [link[g] EXCEPT !.theirs = {t \in @ : t.frame # frame}]]
          /\ IF room.status # "playing" THEN UNCHANGED room
             ELSE \E order \in Orders({g \in faults : ~link[g].recovering /\ room.transfer[g] = None}) :
                    room' = CaptureEach(room, order)
          /\ UNCHANGED <<outgoing, up, chunks, guest, native>>

\* Every transfer that waits for an export takes the frame it was made at.
Exported(answered) ==
  /\ host' = answered
  /\ outgoing' = [g \in Guest |-> IF Exporting(outgoing[g])
                    THEN [outgoing[g] EXCEPT !.capture = "made", !.frame = host.frame]
                    ELSE outgoing[g]]
  /\ UNCHANGED <<room, link, down, up, chunks, guest, native>>

BoundaryKnown(g, h) ==
  /\ host' = h
  /\ outgoing' = [outgoing EXCEPT ![g].boundary = host.frame, ![g].pending = FALSE]
  /\ room' = CatchupBoundary(room, g, outgoing[g].id, host.frame)
  /\ UNCHANGED <<link, down, up, chunks, guest, native>>

HostOver(h) == [h EXCEPT !.over = TRUE, !.work = <<>>]

\* What the host froze is refused once a player gave the game up; the host then
\* gives it up too, which stops it again when the host plays itself.
HostHeld(answered) ==
  IF room.status = "pausing"
  THEN host' = answered /\ room' = Frozen(room, host.frame) /\ UNCHANGED outgoing
  ELSE /\ host' = HostOver(answered)
       /\ room' \in {room, Stopped(room)}
       /\ outgoing' = [m \in Guest |-> None]

\* The worker answers what it was asked first.
HostAnswer ==
  /\ ~host.over
  /\ host.work # <<>>
  /\ LET asked    == Head(host.work)
         answered == [host EXCEPT !.work = Tail(@)]
     IN \/ asked.kind = "frame" /\ Commit(answered)
        \/ asked.kind = "interval" /\ HostHash(answered)
        \/ asked.kind = "export" /\ Exported(answered)
        \/ /\ asked.kind = "boundary"
           /\ IF \E g \in Guest : outgoing[g] # None /\ outgoing[g].id = asked.id
              THEN BoundaryKnown(CHOOSE g \in Guest : outgoing[g] # None /\ outgoing[g].id = asked.id,
                                 answered)
              ELSE host' = answered /\ UNCHANGED <<room, link, outgoing, down, up, chunks, guest, native>>
        \/ /\ asked.kind = "hold"
           /\ HostHeld(answered)
           /\ UNCHANGED <<link, down, up, chunks, guest, native>>
        \/ /\ asked.kind = "pause"
           /\ host' = [answered EXCEPT !.hashes = @ \cup {host.frame}]
           /\ UNCHANGED <<room, link, outgoing, down, up, chunks, guest, native>>

\* The digest of an exported checkpoint is ready.
HostCaptured(g) ==
  /\ ~host.over
  /\ outgoing[g] # None /\ outgoing[g].capture = "made"
  /\ outgoing' = [outgoing EXCEPT ![g].capture = "held"]
  /\ room' = Captured(room, g, outgoing[g].id, outgoing[g].frame)
  /\ UNCHANGED <<host, link, down, up, chunks, guest, native>>

\* pumpLink: the next retained frame, with its hash when that is known.
Retained(h, frame) == h.frame <= frame + History
\* Mutation: the hash of a frame overtakes it.
WithHashFirst(h, stream, frame) ==
  (IF At(frame + 1) /\ frame + 1 \in h.hashes
   THEN <<Packet(stream, Hash(frame + 1, TRUE))>> ELSE <<>>)
    \o <<Packet(stream, Frame(frame))>>
WithHash(h, stream, frame) ==
  <<Packet(stream, Frame(frame))>>
    \o (IF At(frame + 1) /\ frame + 1 \in h.hashes
        THEN <<Packet(stream, Hash(frame + 1, TRUE))>> ELSE <<>>)

PumpLink(g) ==
  /\ ~host.over
  /\ link[g].live
  /\ link[g].cursor < host.frame
  /\ Retained(host, link[g].cursor)
  /\ down' = [down EXCEPT ![g] = @ \o WithHash(host, link[g].stream, link[g].cursor)]
  /\ link' = [link EXCEPT ![g].cursor = @ + 1]
  /\ UNCHANGED <<room, host, outgoing, up, chunks, guest, native>>

\* A guest that is behind: its channel does not drain or is closed, or its next
\* frame is no longer kept.
LoseLink(g) ==
  /\ ~host.over
  /\ link[g].live /\ link[g].cursor < host.frame
  /\ link' = [link EXCEPT ![g] = Isolated(@)]
  /\ room' = Isolate(room, g)
  /\ UNCHANGED <<host, outgoing, down, up, chunks, guest, native>>

\* catchup: fix a boundary, replay up to it, mark it, and serve the link again.
FixBoundary(g) ==
  LET o == outgoing[g] IN
  /\ ~host.over
  /\ o # None /\ o.cursor # None /\ o.boundary = None /\ ~o.pending /\ ~host.hashing
  /\ IF host.frame \in host.hashes THEN BoundaryKnown(g, host)
     ELSE /\ host' = Ask(host, "boundary", o.id)
          /\ outgoing' = [outgoing EXCEPT ![g].pending = TRUE]
          /\ UNCHANGED <<room, link, down, up, chunks, guest, native>>

FailOutgoing(g) ==
  /\ outgoing' = [outgoing EXCEPT ![g] = None]
  /\ link' = [link EXCEPT ![g].live = FALSE]
  /\ room' = CheckpointFailed(room, g, outgoing[g].id)
  /\ UNCHANGED <<host, down, up, chunks, guest, native>>

Catchup(g) ==
  LET o == outgoing[g] IN
  /\ ~host.over
  /\ o # None /\ o.cursor # None /\ o.boundary # None /\ ~o.marked
  /\ IF o.cursor < o.boundary
     THEN IF ~Retained(host, o.cursor) THEN FailOutgoing(g)
          ELSE /\ down' = [down EXCEPT ![g] = @ \o WithHash(host, link[g].stream, o.cursor)]
               /\ outgoing' = [outgoing EXCEPT ![g].cursor = @ + 1]
               /\ UNCHANGED <<room, host, link, up, chunks, guest, native>>
     ELSE /\ down' = [down EXCEPT ![g] =
                        Append(@, Packet(o.id, [kind |-> "live", frame |-> o.boundary]))]
          /\ outgoing' = [outgoing EXCEPT ![g].marked = TRUE]
          /\ link' = [link EXCEPT ![g].cursor = o.boundary, ![g].live = TRUE]
          /\ UNCHANGED <<room, host, up, chunks, guest, native>>

NewOutgoing(id, asked) ==
  [id |-> id, capture |-> IF asked THEN "asked" ELSE "none", frame |-> 0, cursor |-> None,
   boundary |-> None, pending |-> FALSE, marked |-> FALSE]

\* capture: what is on its way to the guest belongs to a stream that is over.
\* Mutation: what the guest sent before is still believed.
RestreamUnfenced(l, id) == [l EXCEPT !.live = FALSE, !.theirs = {}, !.received = 0]
Restream(l, id) == [l EXCEPT !.live = FALSE, !.stream = id, !.theirs = {}, !.received = 0]

\* The host handles the next event; a checkpoint is sent as a whole.
HostEvent ==
  /\ ~host.over
  /\ room.toHost # <<>>
  /\ LET e    == Head(room.toHost)
         g    == e.guest
         read == [room EXCEPT !.toHost = Tail(@)]
         mine == g # None /\ outgoing[g] # None /\ outgoing[g].id = e.id
     IN \/ /\ e.type = "capture"
           /\ link' = [link EXCEPT ![g] = Restream(@, e.id)]
           /\ IF outgoing[g] # None THEN UNCHANGED <<host, outgoing>>
              ELSE /\ outgoing' = [outgoing EXCEPT ![g] = NewOutgoing(e.id, host.frame > 0)]
                   /\ host' = IF host.frame = 0 \/ Awaits(host.work, "export") THEN host
                              ELSE Ask(host, "export", 0)
           /\ room' = read
           /\ UNCHANGED <<down, up, chunks, guest, native>>
        \/ /\ e.type = "checkpoint"
           /\ room' = read
           /\ UNCHANGED <<host, link, outgoing, down, up, chunks, guest, native>>
        \/ /\ e.type = "send"
           /\ room' = read
           /\ chunks' = IF mine THEN [chunks EXCEPT ![g] = Append(@, [id |-> e.id, frame |-> outgoing[g].frame])]
                        ELSE chunks
           /\ UNCHANGED <<host, link, outgoing, down, up, guest, native>>
        \/ /\ e.type = "catchup"
           /\ room' = read
           /\ outgoing' = IF mine THEN [outgoing EXCEPT ![g].cursor = e.frame] ELSE outgoing
           /\ UNCHANGED <<host, link, down, up, chunks, guest, native>>
        \/ /\ e.type = "syncStop"
           /\ room' = read
           /\ outgoing' = IF mine THEN [outgoing EXCEPT ![g] = None] ELSE outgoing
           /\ UNCHANGED <<host, link, down, up, chunks, guest, native>>
        \/ /\ e.type = "live"
           /\ room' = read
           /\ IF mine /\ outgoing[g].boundary = e.frame
              THEN /\ outgoing' = [outgoing EXCEPT ![g] = None]
                   /\ link' = [link EXCEPT ![g].recovering = FALSE]
              ELSE UNCHANGED <<outgoing, link>>
           /\ UNCHANGED <<host, down, up, chunks, guest, native>>
        \/ /\ e.type = "freeze"
           /\ room' = read
           /\ host' = Ask([host EXCEPT !.frozen = TRUE], "hold", 0)
           /\ UNCHANGED <<link, outgoing, down, up, chunks, guest, native>>
        \/ /\ e.type = "pauseAt"
           /\ room' = read
           /\ LET fenced == [host EXCEPT !.fence = e.frame, !.frozen = FALSE]
              IN host' = IF host.frame = e.frame THEN FinishPause(fenced) ELSE fenced
           /\ UNCHANGED <<link, outgoing, down, up, chunks, guest, native>>
        \/ /\ e.type = "stop"
           /\ room' = read
           /\ host' = HostOver(host)
           /\ outgoing' = [m \in Guest |-> None]
           /\ UNCHANGED <<link, down, up, chunks, guest, native>>

\* A hash of a guest: one of its current stream, and newer than the last.
HostReceive(g) ==
  /\ ~host.over
  /\ up[g] # <<>>
  /\ up' = [up EXCEPT ![g] = Tail(@)]
  /\ UNCHANGED <<host, outgoing, down, chunks, guest, native>>
  /\ LET p == Head(up[g]).p IN
     IF Head(up[g]).stream # link[g].stream \/ p.frame <= link[g].received
     THEN UNCHANGED <<room, link>>
     ELSE LET known == [link EXCEPT ![g].received = p.frame] IN
          IF p.frame \notin host.hashes
          THEN /\ link' = [known EXCEPT ![g].theirs = @ \cup {[frame |-> p.frame, agrees |-> p.agrees]}]
               /\ UNCHANGED room
          ELSE IF p.agrees THEN link' = known /\ UNCHANGED room
          ELSE /\ link' = [link EXCEPT ![g] = Isolated(@)]
               /\ room' = Isolate(room, g)

\* enter(): an observer became the owner of a controller while the game plays.
Reassign(g) ==
  /\ ~host.over
  /\ g \in Reassigned \ room.owners /\ room.status = "playing"
  /\ link' = [link EXCEPT ![g] = Isolated(@)]
  /\ room' = Isolate([room EXCEPT !.owners = @ \cup {g}], g)
  /\ UNCHANGED <<host, outgoing, down, up, chunks, guest, native>>

\* Somebody in control pauses: the host, or a guest that plays.
Pause ==
  /\ ~host.over /\ HostIsRunning /\ host.fence = None /\ room.status = "playing"
  /\ room' = Freeze(room)
  /\ host' = [host EXCEPT !.frozen = TRUE]
  /\ UNCHANGED <<link, outgoing, down, up, chunks, guest, native>>
-----------------------------------------------------------------------------
(* The guests.                                                             *)

SetGuest(g, e) == guest' = [guest EXCEPT ![g] = e]

\* cancelIncoming; failIncoming and clear also drop the scheduler.
Cancelled(e) == [e EXCEPT !.incoming = None, !.catchingUp = FALSE, !.target = None, !.checking = FALSE]
Halted(e) == [Cancelled(e) EXCEPT !.run = FALSE]
Cleared(e) == [Halted(e) EXCEPT !.fence = None, !.frozen = FALSE, !.hashing = FALSE,
                                !.asked = FALSE]
Takes(e, id) == e.incoming # None /\ e.incoming.id = id

FailIncoming(g, e) ==
  /\ SetGuest(g, Halted(e))
  /\ room' = CheckpointFailed(room, g, e.incoming.id)

\* fail(): the synchronization under way, or else the run, is given up.
Fail(g, e) ==
  IF e.incoming # None THEN FailIncoming(g, e)
  ELSE SetGuest(g, Cleared(e)) /\ room' = Abort(room, g)

GuestFinishesPause(e) ==
  IF e.pausedSent THEN e
  ELSE Ask([e EXCEPT !.pausedSent = TRUE, !.hashing = FALSE], "pause", 0)

\* finishCatchup: at the boundary, ask for the native hash once.
FinishCatchup(e) ==
  IF e.catchingUp /\ e.run /\ e.target = e.frame /\ ~e.hashing /\ ~e.checking
  THEN Ask([e EXCEPT !.checking = TRUE], "check", e.incoming.id)
  ELSE e

\* Mutation: a frame is asked for again while it runs.
GuestDispatchAgain(g) ==
  LET e == guest[g] IN
  /\ e.run /\ ~e.frozen /\ ~e.hashing /\ ~e.pausedSent
  /\ Len(e.work) < 2
  /\ e.fence = None /\ ~e.catchingUp /\ e.frame < e.head
  /\ SetGuest(g, Ask(e, "frame", e.frame))
  /\ UNCHANGED <<room, host, link, outgoing, down, up, chunks, native>>

\* next(): a frame runs when the host's packet for it is here.
GuestDispatch(g) ==
  LET e == guest[g] IN
  /\ e.run /\ ~e.frozen /\ ~e.hashing /\ ~e.pausedSent
  /\ ~Awaits(e.work, "frame")
  /\ IF e.fence # None /\ e.frame >= e.fence THEN SetGuest(g, GuestFinishesPause(e))
     ELSE /\ ~(e.catchingUp /\ e.target # None /\ e.frame >= e.target)
          /\ e.frame < e.head
          /\ SetGuest(g, Ask(e, "frame", e.frame))
  /\ UNCHANGED <<room, host, link, outgoing, down, up, chunks, native>>

Ran(n, frame) == [at |-> n.at + 1, state |-> IF n.at = frame THEN n.state ELSE "wrong"]

GuestCommit(e) ==
  LET next == [e EXCEPT !.frame = @ + 1] IN
  IF next.fence = next.frame THEN GuestFinishesPause(next)
  ELSE IF At(next.frame) THEN Ask([next EXCEPT !.hashing = TRUE], "interval", 0)
  ELSE FinishCatchup(next)

\* The hash of an interval is sent, and compared with the host's if that came.
GuestHash(g, e) ==
  LET own == Hash(e.frame, native[g].state = "agrees") IN
  IF ~e.run \/ e.pausedSent THEN SetGuest(g, e) /\ UNCHANGED <<room, up>>
  ELSE /\ up' = [up EXCEPT ![g] = Append(@, Packet(e.stream, own))]
       /\ IF e.frame \in e.theirs /\ ~own.agrees THEN Fail(g, e)
          ELSE /\ UNCHANGED room
               /\ SetGuest(g, FinishCatchup([e EXCEPT !.hashing = FALSE, !.theirs = @ \ {e.frame},
                     !.ours = IF e.frame \in e.theirs THEN @
                              ELSE @ \cup {[frame |-> e.frame, agrees |-> own.agrees]}]))

\* The boundary hash decides; the coordinator confirms it or it fails here too.
CheckBoundary(g, e, id) ==
  IF ~(Takes(e, id) /\ e.run) THEN SetGuest(g, e) /\ UNCHANGED room
  ELSE IF native[g].state = "agrees" /\ Confirms(room, g, id, e.target)
  THEN /\ SetGuest(g, [e EXCEPT !.catchingUp = FALSE, !.checking = FALSE])
       /\ room' = Observed(room, g, id, e.target)
  ELSE FailIncoming(g, e)

\* importPeerCheckpoint, then install as an observer of the transfer's stream.
Install(g, e, id) ==
  LET from == e.incoming.frame IN
  IF ~Takes(e, id) THEN SetGuest(g, e) /\ UNCHANGED <<room, native>>
  ELSE /\ native' = [native EXCEPT ![g] = [at |-> from, state |-> "agrees"]]
       /\ SetGuest(g, [e EXCEPT !.run = TRUE, !.frame = from, !.head = from, !.stream = id,
             !.catchingUp = TRUE, !.target = None, !.checking = FALSE, !.frozen = FALSE,
             !.hashing = FALSE, !.pausedSent = FALSE, !.ours = {}, !.theirs = {}, !.received = 0])
       /\ room' = CheckpointAck(room, g, id, from)

GuestAnswer(g) ==
  /\ guest[g].work # <<>>
  /\ LET asked == Head(guest[g].work)
         e     == [guest[g] EXCEPT !.work = Tail(@)]
     IN \/ /\ asked.kind = "frame"
           /\ native' = [native EXCEPT ![g] = Ran(@, asked.id)]
           /\ SetGuest(g, IF e.run THEN GuestCommit(e) ELSE e)
           /\ UNCHANGED <<room, up>>
        \/ asked.kind = "interval" /\ GuestHash(g, e) /\ UNCHANGED native
        \/ asked.kind = "check" /\ CheckBoundary(g, e, asked.id) /\ UNCHANGED <<up, native>>
        \/ /\ asked.kind = "hold"
           /\ IF Takes(e, asked.id)
              THEN /\ SetGuest(g, [e EXCEPT !.run = FALSE])
                   /\ room' = CheckpointReady(room, g, asked.id)
              ELSE SetGuest(g, e) /\ UNCHANGED room
           /\ UNCHANGED <<up, native>>
        \/ asked.kind = "import" /\ Install(g, e, asked.id) /\ UNCHANGED up
        \/ /\ asked.kind = "pause"
           /\ SetGuest(g, IF e.run THEN FinishCatchup([e EXCEPT !.paused = TRUE]) ELSE e)
           /\ UNCHANGED <<room, up, native>>
  /\ UNCHANGED <<host, link, outgoing, down, chunks>>

\* receive(): the marker of the transfer, a frame, or a hash of the stream.
GuestReceive(g) ==
  LET e       == guest[g]
      packet  == Head(down[g])
      p       == packet.p
      current == e.run /\ packet.stream = e.stream
  IN
  /\ down[g] # <<>>
  /\ down' = [down EXCEPT ![g] = Tail(@)]
  /\ UNCHANGED <<host, link, outgoing, up, chunks, native>>
  /\ CASE p.kind = "live" ->
            IF Takes(e, packet.stream) /\ e.run
            THEN SetGuest(g, FinishCatchup([e EXCEPT !.target = p.frame])) /\ UNCHANGED room
            ELSE Fail(g, e)
       [] p.kind # "live" /\ ~current -> UNCHANGED <<room, guest>>
       [] p.kind = "frame" /\ current ->
            IF p.frame # e.head \/ p.frame >= e.frame + History THEN Fail(g, e)
            ELSE SetGuest(g, [e EXCEPT !.head = @ + 1]) /\ UNCHANGED room
       [] OTHER ->
            IF p.frame <= e.received THEN UNCHANGED <<room, guest>>
            ELSE IF p.frame > e.head \/ [frame |-> p.frame, agrees |-> FALSE] \in e.ours
            THEN Fail(g, e)
            ELSE /\ UNCHANGED room
                 /\ SetGuest(g, [e EXCEPT !.received = p.frame,
                       !.theirs = IF p.frame \in {o.frame : o \in e.ours} THEN @ ELSE @ \cup {p.frame}])

\* A checkpoint on its own channel; one of another transfer is ignored.
GuestChunks(g) ==
  /\ chunks[g] # <<>>
  /\ chunks' = [chunks EXCEPT ![g] = Tail(@)]
  /\ LET id == Head(chunks[g]).id
     IN SetGuest(g, IF Takes(guest[g], id) THEN Ask(guest[g], "import", id) ELSE guest[g])
  /\ UNCHANGED <<room, host, link, outgoing, down, up, native>>

\* gamePauseAt: run on to the frame the host froze.
PauseAt(e, frame) ==
  LET fenced == [e EXCEPT !.fence = frame, !.frozen = FALSE]
  IN IF e.run /\ e.frame = frame THEN GuestFinishesPause(fenced) ELSE fenced

\* The next event of the coordinator.
GuestEvent(g) ==
  /\ room.toGuest[g] # <<>>
  /\ room' = [room EXCEPT !.toGuest[g] = Tail(@)]
  /\ UNCHANGED <<host, link, outgoing, down, up, chunks, native>>
  /\ LET e     == guest[g]
         event == Head(room.toGuest[g])
     IN SetGuest(g,
          CASE event.type = "checkpoint" ->
                 Ask([Cancelled(e) EXCEPT !.incoming = [id |-> event.id, frame |-> event.frame],
                                          !.frozen = TRUE], "hold", event.id)
            [] event.type = "syncStop" /\ Takes(e, event.id) -> Halted(e)
            [] event.type = "live" /\ Takes(e, event.id) /\ e.target = event.frame -> Cancelled(e)
            [] event.type = "pauseAt" /\ (e.run \/ e.incoming # None) -> PauseAt(e, event.frame)
            [] event.type = "stop" -> Cleared(e)
            [] OTHER -> e)

\* observe(): automatically when it enters a game under way, or by a click.
Observe(g) ==
  /\ ~guest[g].run /\ guest[g].incoming = None
  /\ room.status = "playing" /\ room.transfer[g] = None
  /\ room.issued < MaxTransfer
  /\ room' = Capture(room, g)
  /\ UNCHANGED <<host, link, outgoing, down, up, chunks, guest, native>>

GuestPause(g) ==
  /\ guest[g].run /\ ~guest[g].frozen /\ guest[g].fence = None
  /\ g \in room.owners
  /\ room.status = "playing"
  /\ SetGuest(g, [guest[g] EXCEPT !.frozen = TRUE])
  /\ room' = Freeze(room)
  /\ UNCHANGED <<host, link, outgoing, down, up, chunks, native>>

\* The deadline of the transfer on the guest's side, or no frame for too long.
GiveUp(g) ==
  LET e == guest[g] IN
  /\ Expiring
  /\ \/ e.incoming # None
     \/ e.run /\ e.frame = e.head /\ room.status = "playing"
  /\ Fail(g, e)
  /\ UNCHANGED <<host, link, outgoing, down, up, chunks, native>>

\* A running guest has no frame to run before the one the host paused at.
Short(e) ==
  /\ e.run /\ ~e.frozen /\ ~e.hashing /\ ~e.pausedSent
  /\ ~(e.catchingUp /\ e.target # None /\ e.frame >= e.target)
  /\ e.fence # None /\ e.frame < e.fence /\ e.frame = e.head

\* Mutation: only a guest that is still served asks for more.
AskFrozenWhenServed(g) ==
  LET e == [guest[g] EXCEPT !.asked = TRUE] IN
  /\ Short(guest[g]) /\ ~guest[g].asked /\ link[g].live
  /\ IF room.status = "paused" /\ g \in room.owners
     THEN SetGuest(g, e) /\ room' = ObserveFrozen(room, g)
     ELSE Fail(g, e)
  /\ UNCHANGED <<host, link, outgoing, down, up, chunks, native>>

\* A guest short of frames at a pause asks once for the frozen state. It keeps its
\* run; the game of an observer, or one that is not paused any more, refuses it.
AskFrozen(g) ==
  LET e == [guest[g] EXCEPT !.asked = TRUE] IN
  /\ Short(guest[g]) /\ ~guest[g].asked
  /\ IF room.status = "paused" /\ g \in room.owners
     THEN SetGuest(g, e) /\ room' = ObserveFrozen(room, g)
     ELSE Fail(g, e)
  /\ UNCHANGED <<host, link, outgoing, down, up, chunks, native>>

\* The transfer of the frozen state reaches the guest, which drops its scheduler
\* for it, or it runs out of time and the game is stopped.
FrozenTransfer(g) ==
  /\ g \in room.frozen
  /\ \/ guest[g].run /\ SetGuest(g, Halted(guest[g])) /\ UNCHANGED room
     \/ Expiring /\ room' = Stopped(room) /\ UNCHANGED guest
  /\ UNCHANGED <<host, link, outgoing, down, up, chunks, native>>

\* Environment: the emulator of a guest stops agreeing with the host's.
Stray(g) ==
  /\ g \in Straying /\ guest[g].run /\ native[g].state = "agrees"
  /\ native' = [native EXCEPT ![g].state = "strayed"]
  /\ UNCHANGED <<room, host, link, outgoing, down, up, chunks, guest>>
-----------------------------------------------------------------------------
Idle ==
  [run |-> FALSE, frame |-> 0, head |-> 0, stream |-> 0, incoming |-> None, catchingUp |-> FALSE,
   target |-> None, checking |-> FALSE, fence |-> None, frozen |-> FALSE, hashing |-> FALSE,
   pausedSent |-> FALSE, paused |-> FALSE, work |-> <<>>, ours |-> {}, theirs |-> {}, received |-> 0,
   asked |-> FALSE]

\* gameStart: the players run from the first frame; others may be watching or not.
Init ==
  \E playing \in SUBSET Guest :
    /\ room = [status |-> "playing", frame |-> 0, issued |-> 0, owners |-> playing,
               transfer |-> [g \in Guest |-> None], frozen |-> {}, toHost |-> <<>>, toGuest |-> [g \in Guest |-> <<>>]]
    /\ host = [frame |-> 0, work |-> <<>>, hashing |-> FALSE, frozen |-> FALSE, fence |-> None,
               pausedSent |-> FALSE, over |-> FALSE, hashes |-> {}]
    /\ link = [g \in Guest |-> [live |-> g \in playing, stream |-> 0, cursor |-> 0,
                 recovering |-> FALSE, theirs |-> {}, received |-> 0]]
    /\ guest = [g \in Guest |-> [Idle EXCEPT !.run = g \in playing]]
    /\ outgoing = [g \in Guest |-> None]
    /\ down = [g \in Guest |-> <<>>]
    /\ up = [g \in Guest |-> <<>>]
    /\ chunks = [g \in Guest |-> <<>>]
    /\ native = [g \in Guest |-> [at |-> 0, state |-> "agrees"]]

HostStep == HostDispatch \/ HostAnswer \/ HostEvent
Serve(g) ==
  \/ HostCaptured(g) \/ PumpLink(g) \/ LoseLink(g) \/ FixBoundary(g) \/ Catchup(g) \/ HostReceive(g)
GuestStep(g) ==
  \/ GuestDispatch(g) \/ GuestAnswer(g) \/ GuestReceive(g) \/ GuestChunks(g) \/ GuestEvent(g)

Next ==
  \/ HostStep
  \/ Pause
  \/ \E g \in Guest :
       \/ Serve(g) \/ GuestStep(g)
       \/ Expire(g) \/ Reassign(g) \/ Observe(g) \/ GuestPause(g) \/ GiveUp(g) \/ AskFrozen(g)
       \/ FrozenTransfer(g) \/ Stray(g)

\* The event loops of the browsers run, the channels deliver, and timers expire.
Fairness ==
  /\ WF_vars(HostStep)
  /\ \A g \in Guest :
       /\ WF_vars(Serve(g)) /\ WF_vars(GuestStep(g))
       /\ WF_vars(AskFrozen(g)) /\ WF_vars(FrozenTransfer(g))

Spec == Init /\ [][Next]_vars /\ Fairness
-----------------------------------------------------------------------------
Maybe(S) == S \cup {None}
Job == [kind : {"frame", "interval", "export", "boundary", "hold", "pause", "check", "import"},
        id : Nat]
Event ==
  [type : {"capture", "checkpoint", "send", "catchup", "syncStop", "live"}, guest : Guest,
   id : Nat, frame : Nat]
    \cup [type : {"freeze", "pauseAt", "stop"}, guest : {None}, id : Nat, frame : Nat]
Claim == [frame : Nat, agrees : BOOLEAN]
Chunk == [id : Nat, frame : Nat]
Native == [at : Nat, state : {"agrees", "strayed", "wrong"}]
HashPacket == [kind : {"hash"}, frame : Nat, agrees : BOOLEAN]
HostPacket == [kind : {"frame", "live"}, frame : Nat] \cup HashPacket
Packets(P) == Seq([stream : Nat, p : P])
Transfers ==
  [id : Nat, frame : Maybe(Nat), sending : BOOLEAN, catchingUp : BOOLEAN, boundary : Maybe(Nat)]
Room ==
  [status : {"playing", "pausing", "paused", "failed"}, frame : Nat, issued : Nat,
   owners : SUBSET Guest,
   transfer : [Guest -> Maybe(Transfers)], frozen : SUBSET Guest, toHost : Seq(Event), toGuest : [Guest -> Seq(Event)]]
Host ==
  [frame : Nat, work : Seq(Job), hashing : BOOLEAN, frozen : BOOLEAN, fence : Maybe(Nat),
   pausedSent : BOOLEAN, over : BOOLEAN, hashes : SUBSET Nat]
Link ==
  [live : BOOLEAN, stream : Nat, cursor : Nat, recovering : BOOLEAN, theirs : SUBSET Claim,
   received : Nat]
Outgoing ==
  [id : Nat, capture : {"none", "asked", "made", "held"}, frame : Nat, cursor : Maybe(Nat),
   boundary : Maybe(Nat), pending : BOOLEAN, marked : BOOLEAN]
Replica ==
  [run : BOOLEAN, frame : Nat, head : Nat, stream : Nat, incoming : Maybe(Chunk),
   catchingUp : BOOLEAN, target : Maybe(Nat), checking : BOOLEAN, fence : Maybe(Nat),
   frozen : BOOLEAN, hashing : BOOLEAN, pausedSent : BOOLEAN, paused : BOOLEAN,
   work : Seq(Job), ours : SUBSET Claim, theirs : SUBSET Nat, received : Nat, asked : BOOLEAN]

ASSUME NoneAssumption ==
  None \notin Nat \cup Guest \cup Transfers \cup Outgoing \cup Chunk \cup Native

\* Every variable has its type.
TypeOK ==
  /\ room \in Room /\ host \in Host
  /\ link \in [Guest -> Link] /\ outgoing \in [Guest -> Maybe(Outgoing)]
  /\ down \in [Guest -> Packets(HostPacket)] /\ up \in [Guest -> Packets(HashPacket)]
  /\ chunks \in [Guest -> Seq(Chunk)]
  /\ guest \in [Guest -> Replica] /\ native \in [Guest -> Native]

\* The shared timeline is kept: what a guest shows is what the host showed after
\* as many frames, whatever checkpoints, old streams and pauses came between,
\* and moves on frame by frame (game-scheduler.ts:71-96, game-client.ts:228-244).
Shared == INSTANCE SharedTimeline WITH
  committed <- host.frame,
  settled <- host.pausedSent \/ host.over,
  view <- [g \in Guest |-> IF guest[g].run THEN native[g] ELSE None]
TimelineIsShared == Shared!Spec

\* The packets that a running guest has yet to read on its stream are the next
\* ones of the host, each once and in order, and no hash overtakes its frame: a
\* healthy guest is never stopped for a bad stream (game-client.ts:205-227).
FramesOf(stream, packets, n) ==
  Cardinality({i \in 1..n : packets[i].stream = stream /\ packets[i].p.kind = "frame"})
StreamContiguous ==
  \A g \in Guest : guest[g].run =>
    \A i \in DOMAIN down[g] :
      LET p     == down[g][i].p
          ahead == guest[g].head + FramesOf(guest[g].stream, down[g], i - 1)
      IN down[g][i].stream = guest[g].stream =>
           IF p.kind = "frame" THEN p.frame = ahead ELSE p.frame <= ahead

\* A hash that the host would hold against a guest is one of a guest that
\* strayed since its last checkpoint (game-client.ts:233, 264).
BlameIsDeserved ==
  \A g \in Guest :
    (/\ guest[g].run
     /\ \/ \E i \in DOMAIN up[g] : up[g][i].stream = link[g].stream /\ ~up[g][i].p.agrees
        \/ \E t \in link[g].theirs : ~t.agrees)
    => native[g].state # "agrees"

\* No guest ever makes the host wait: while the game plays the next frame comes
\* though guests stall, stray, stop hashing or synchronize
\* (docs/design/host-immediate-input.md:42, game-client.ts:236-241).
HostNeverWaits ==
  \A n \in 0..(MaxFrame - 1) :
    (host.frame = n /\ room.status = "playing") ~> (host.frame > n \/ room.status # "playing")

\* Once the host is paused, every guest that follows reaches that frame, is given
\* the frozen state, or is stopped with a reason (game-client.ts:185-187, 236-244).
\* But a guest asks once: if a transfer from before the pause was open then, the
\* request is dropped (gameplay.ts:111), and when that transfer ends without a
\* checkpoint nothing brings the guest to the frame.
Unheeded(g) == guest[g].asked /\ g \notin room.frozen /\ room.transfer[g] = None
PauseIsReached ==
  \A g \in Guest :
    (room.status = "paused" /\ guest[g].run)
      ~> (guest[g].frame = room.frame \/ ~guest[g].run \/ Unheeded(g))
=============================================================================
