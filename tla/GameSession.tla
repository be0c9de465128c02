---------------------------- MODULE GameSession ----------------------------
(***************************************************************************)
(* A room and its game session as the coordinator runs them.               *)
(*                                                                         *)
(* Every action is one whole handler of Rooms: the checks, the calls into  *)
(* GameSession, and the publish() at its end, which configures the session *)
(* from the room.  A command the code rejects before changing anything is  *)
(* a command whose action is not enabled.  Members send any command at any *)
(* time, so commands that are late, repeated or out of step are covered;   *)
(* timers are actions of their own, enabled while they are armed.          *)
(***************************************************************************)
EXTENDS Roster

CONSTANTS
  Seating,      \* who sits where, assembled and linked, when the model starts
  Scope,        \* families of outside events an instance explores
  MaxEpoch,     \* bound on the epochs drawn
  MaxRevision   \* bound on room and assignment revisions

Events == {"join", "drop", "link", "file", "slot", "role", "game", "load"}

ASSUME InstanceAssumption ==
  /\ Seating \in [Slot -> Owner]
  /\ Seating[1] = Host
  /\ \A i, j \in Slot : Seating[i] = Seating[j] => i = j \/ Seating[i] = None
  /\ Scope \subseteq Events
  /\ MaxEpoch \in Nat
  /\ MaxRevision \in Nat

VARIABLES
  game,         \* the session record (GameSession's private fields)
  room,         \* the room record (the fields of Room the session depends on)
  acked         \* what members confirmed in the gameAck commands accepted so far

vars == <<game, room, acked>>

Ack == [from : Member, epoch : Nat, hash : Hash]

InBounds(g, r) ==
  /\ g.issued <= MaxEpoch
  /\ r.revision <= MaxRevision
  /\ r.controllers.revision <= MaxRevision

Become(g, r) ==
  /\ InBounds(g, r)
  /\ game' = g
  /\ room' = r

Step(g, r) == Become(g, r) /\ UNCHANGED acked

\* The end of Rooms.handle for a game command, and of a timer pass that
\* changed the session.
Established(g, r) ==
  IF g.status = "playing" THEN [r EXCEPT !.established = TRUE] ELSE r
Accept(g, r) ==
  LET settled == Established(g, r) IN Step(Publish(g, settled), settled)

Seated == {Seating[i] : i \in Slot} \ {None}

\* The members are connected to each other; revisions count from here.
Assembled ==
  [slots |-> [i \in Slot |-> [role |-> CartridgeRole(i, 2),
                              member |-> Seating[i], open |-> TRUE]],
   connected |-> Seated, loaded |-> {},
   links |-> {l \in SUBSET Seated : Cardinality(l) = 2},
   former |-> {}, revision |-> 0, started |-> FALSE, established |-> FALSE,
   controllers |-> [owners |-> [s \in Seat |-> None], revision |-> 0],
   cartridge |-> 0, seats |-> 2, candidate |-> None, offered |-> 0]
NewRoom(cartridge, loaded) ==
  [Assembled EXCEPT !.controllers.owners = ControllerOwners(Assembled),
                    !.cartridge = cartridge, !.offered = cartridge,
                    !.loaded = loaded]
NewSession ==
  [members |-> [m \in Member |-> Absent], offers |-> NoOffers, acks |-> {},
   required |-> {}, roomRevision |-> 0, interruption |-> None,
   restored |-> FALSE, hasPlayed |-> FALSE, transfers |-> {},
   point |-> NoPoint, proposed |-> None, pending |-> None, load |-> None,
   controllers |-> [owners |-> [s \in Seat |-> None], revision |-> 0],
   startRequested |-> FALSE, status |-> "waiting", epoch |-> 0, issued |-> 0,
   sent |-> {}, announced |-> 0]

\* A lobby with no game yet, or a room created for a game, which its members
\* have not loaded or all hold.
InitialRooms ==
  {NewRoom(0, {})} \cup
  {NewRoom(c, loaded) : c \in {1} \cap 0..MaxCartridge, loaded \in {{}, Seated}}
Init ==
  /\ room \in InitialRooms
  /\ game = [Publish(NewSession, room) EXCEPT !.announced = room.cartridge]
  /\ acked = {}

-----------------------------------------------------------------------------
(* Roster, connections and acquisition *)

\* Who can send commands: a member with a socket.  A guest whose heartbeats
\* stopped counts as disconnected and may still have one.
HostPresent == Host \in room.connected
Present(m) == m \in Members(room) /\ (m = Host => HostPresent)

\* A mutation: the owners of a paused timeline change at once too.
RosterChangeAtOnce(g, r) ==
  LET reassigned == [r EXCEPT !.controllers = Assigned(r)]
  IN  IF OwnersChanged(r) \/ ~r.started
        THEN Step(Publish(g, reassigned), reassigned)
        ELSE Step(Publish(g, r), r)
\* publishRosterChange(): while playing, owners change at once; with a paused
\* timeline they change through a role transaction; before Start directly.  A
\* load that is still rolling back makes requestRoles throw after the roster
\* was published.
RosterChange(g, r) ==
  LET reassigned == [r EXCEPT !.controllers = Assigned(r)]
      published  == AbortRoles(Publish(g, r))
  IN  CASE /\ OwnersChanged(r) /\ r.started
           /\ g.status = "playing" /\ g.pending = None ->
             Step(Publish(g, reassigned), reassigned)
        [] /\ OwnersChanged(r) /\ r.started /\ g.epoch # 0
           /\ ~(g.status = "playing" /\ g.pending = None) ->
             IF CanRequestRoles(published)
               THEN Step(Publish(RequestRoles(published, RoleChange(r, {}),
                                              ControllerOwners(r)), r), r)
               ELSE Step(published, r)
        [] OTHER ->
             IF OwnersChanged(r) \/ ~r.started
               THEN Step(Publish(g, reassigned), reassigned)
               ELSE Step(Publish(g, r), r)

Join(m) ==
  LET free == {i \in Slot : FreeSlot(room, i)}
      slot == CHOOSE i \in free : \A j \in free : i <= j
      joined == [room EXCEPT !.slots[slot].member = m, !.connected = @ \cup {m},
                             !.revision = @ + 1]
      placed == [joined EXCEPT !.controllers =
                   IF room.started THEN @ ELSE Assigned(joined)]
  IN  /\ m \notin Members(room) \cup room.former
      /\ free # {}
      /\ Step(Publish(game, placed), placed)

\* leave, memberRemove, an expired reservation or an expired reconnection.
Release(m) ==
  /\ m \in Members(room) \ {Host}
  /\ RosterChange(game, Compacted(Vacated(room, m)))

\* A new socket for the session: its links are negotiated again.
Attach(m) ==
  /\ m \in Members(room)
  /\ LET r == [room EXCEPT !.connected = @ \cup {m}, !.links = Unlinked(room, m)]
     IN  Step(Publish(game, r), r)

\* The socket closed, or a guest's heartbeats stopped.
Detach(m) ==
  /\ m \in Members(room) \cap room.connected
  /\ LET r == [room EXCEPT !.connected = @ \ {m}, !.links = Unlinked(room, m)]
     IN  Step(Publish(game, r), r)

LinkUp(m, n) ==
  /\ {m, n} \subseteq Members(room) \cap room.connected
  /\ m # n
  /\ {m, n} \notin room.links
  /\ LET r == [room EXCEPT !.links = @ \cup {{m, n}}]
     IN  Step(Publish(game, r), r)

LinkDown(m, n) ==
  /\ {m, n} \in room.links
  /\ LET r == [room EXCEPT !.links = @ \ {{m, n}}]
     IN  Step(Publish(game, r), r)

\* memberAcquisition, and file for the exact game, report a member's phase.
Acquire(m, loaded) ==
  /\ Present(m)
  /\ room.cartridge # 0
  /\ (m \in room.loaded) # loaded
  /\ LET r == [room EXCEPT !.loaded = IF loaded THEN @ \cup {m} ELSE @ \ {m}]
     IN  Step(Publish(game, r), r)

\* A guest opened another file than the one it reported before.
ChangeFile(m) ==
  /\ m \in Members(room) \ {Host}
  /\ room.cartridge # 0
  /\ \E loaded \in {room.loaded \ {m}}
                     \cup (IF m \in room.loaded THEN {} ELSE {room.loaded \cup {m}}) :
       LET r == [room EXCEPT !.loaded = loaded]
           g == IF \E s \in Seat : room.controllers.owners[s] = m
                  THEN Stop(game, "paused") ELSE game
       IN  Step(Publish(g, r), r)

SlotAvailability(i) ==
  /\ HostPresent
  /\ room.slots[i].member = None
  /\ LET r == [room EXCEPT !.slots[i].open = ~@, !.revision = @ + 1]
     IN  Step(Publish(game, r), r)

SlotMove(i, j) ==
  /\ HostPresent
  /\ game.pending = None
  /\ room.slots[i].member # None
  /\ room.slots[j].open
  /\ RosterChange(game,
       [room EXCEPT !.slots[i].member = room.slots[j].member,
                    !.slots[j].member = room.slots[i].member,
                    !.revision = @ + 1])

\* The role another slot gives up when this slot takes it.
RoleSwap(i, role) ==
  {[slot |-> i, role |-> role]} \cup
  {[slot |-> k, role |-> room.slots[i].role] : k \in
     {k \in Slot \ {i} : role # "observer" /\ IsFirst(room, k, role)}}

SupportedRoles(r) == {CartridgeRole(i, r.seats) : i \in 1..r.seats} \cup {"observer"}

SlotRole(i, role) ==
  LET roles == RoleSwap(i, role)
      owners == ControllerOwners(WithRoles(room, roles))
  IN  /\ HostPresent
      /\ role \in SupportedRoles(room) \ {room.slots[i].role}
      /\ room.slots[i].member = None =>
           \A x \in roles : x.slot # i => room.slots[x.slot].member = None
      /\ IF room.started
           THEN /\ CanRequestRoles(game)
                /\ Step(Publish(RequestRoles(game, RoleChange(room, roles), owners),
                                room), room)
           ELSE LET r == ApplyRoles(room, roles) IN Step(Publish(game, r), r)

-----------------------------------------------------------------------------
(* Choosing a cartridge and starting *)

\* resetForGameSelection().
CanReset(g) == g.load = None /\ g.epoch = 0
ResetForSelection(g) ==
  [g EXCEPT !.offers = NoOffers, !.startRequested = FALSE, !.status = "waiting"]

SelectInitial(game1, r) ==
  LET chosen == SelectGame(r, game1, FALSE)
      reset  == [ResetForSelection(game) EXCEPT !.announced = game1.cartridge]
  IN  /\ ~r.started /\ ~r.established
      /\ CanReset(game)
      /\ Step(Publish(reset, chosen), chosen)

NextGames ==
  [cartridge : {room.offered + 1} \cap 1..MaxCartridge, seats : 1..2]

\* beginGameSelection: an included game is selected at once before play; any
\* other becomes the candidate of a replacement.
BeginSelection(chosen) ==
  LET r == [room EXCEPT !.offered = chosen.cartridge, !.candidate = None]
  IN  /\ HostPresent
      /\ game.load = None
      /\ game.pending = None
      /\ \/ ~room.established /\ SelectInitial(chosen, r)
         \/ Step(game, [r EXCEPT !.candidate = chosen])

\* confirmGameSelection, once the candidate's upload is stored.
ConfirmSelection ==
  /\ HostPresent
  /\ room.candidate # None
  /\ SelectInitial(room.candidate, room)

CancelSelection ==
  /\ HostPresent
  /\ room.candidate # None
  /\ LET g == IF game.load # None /\ game.load.replacement = room.candidate
                THEN Stop(game, "paused") ELSE game
     IN  Step(g, [room EXCEPT !.candidate = None])

\* Five minutes after it was chosen a candidate is dropped.  A selection that
\* fails because the room has started leaves the same state.
ExpireSelection ==
  /\ room.candidate # None
  /\ Step(game, [room EXCEPT !.candidate = None])

PrepareHost ==
  /\ HostPresent
  /\ room.cartridge # 0
  /\ room.candidate = None
  /\ LET r == [room EXCEPT !.loaded = @ \cup {Host}]
     IN  r # room /\ Step(Publish(game, r), r)

\* startRoom.  When its session refuses, only the preparation of the host
\* remains, which is PrepareHost.
StartRoom ==
  LET r == [room EXCEPT !.loaded = @ \cup {Host}]
      ready == Publish(game, r)
      asked == PrepareIfReady([ready EXCEPT !.startRequested = TRUE])
      begun == [r EXCEPT !.started = @ \/ asked.epoch # 0]
  IN  /\ HostPresent
      /\ room.cartridge # 0
      /\ room.candidate = None
      /\ \A i \in Slot : room.slots[i].member # None =>
                            room.slots[i].role \in SupportedRoles(room)
      /\ ready.epoch = 0
      /\ ready.load = None
      /\ ~ready.startRequested
      /\ InitialReady(ready)
      /\ Step(Publish(asked, begun), begun)
-----------------------------------------------------------------------------
(* Commands to the session: Rooms.handle for the game commands *)

Idle == game.load = None
Loading(phase) == ~Idle /\ game.load.phase = phase
OwnedSlot(m) == CHOOSE i \in Slot : room.slots[i].member = m
OwnRole(m) == [slot |-> OwnedSlot(m), role |-> room.slots[OwnedSlot(m)].role]

\* A restored save or recovered capture becomes a new paused timeline.
Restore(point) ==
  /\ Idle
  /\ game.pending = None
  /\ \/ game.epoch = 0 /\ ~game.hasPlayed /\ ~game.startRequested
     \/ RecoveryOpen(game)
  /\ game.members[Host].connected /\ game.members[Host].loaded
  /\ Accept([game EXCEPT !.transfers = {}, !.interruption = None, !.acks = {},
                          !.required = {}, !.point = point, !.hasPlayed = TRUE,
                          !.restored = TRUE, !.offers = NoOffers,
                          !.epoch = game.issued + 1, !.issued = game.issued + 1,
                          !.status = "paused", !.startRequested = FALSE],
            [room EXCEPT !.started = TRUE, !.established = TRUE])

\* A member in a controller slot that the assignment does not yet name asks
\* for the assignment instead of offering its state.
ReadyForSlot(m) ==
  /\ Present(m)
  /\ room.started /\ game.epoch # 0
  /\ room.slots[OwnedSlot(m)].role # "observer"
  /\ \A s \in Seat : room.controllers.owners[s] # m
  /\ CanRequestRoles(game)
  /\ Accept(RequestRoles(game, RoleChange(room, {OwnRole(m)}), ControllerOwners(room)),
            room)

\* offer carries the revisions the member last saw.
CanReady(g, m, offer) ==
  /\ g.load = None
  /\ g.pending = None
  /\ offer.revision = g.controllers.revision
  /\ offer.roomRevision = g.roomRevision
  /\ g.status \notin {"playing", "starting", "countdown", "pausing"}
  /\ Available(g, m)
  /\ ~(m = Host /\ g.hasPlayed /\ offer.fresh /\ ~g.restored)

Ready(m, offer) ==
  /\ Present(m)
  /\ ~(/\ room.started /\ game.epoch # 0
       /\ room.slots[OwnedSlot(m)].role # "observer"
       /\ \A s \in Seat : room.controllers.owners[s] # m)
  /\ CanReady(game, m, offer)
  /\ Accept(PrepareIfReady([game EXCEPT !.offers[m] = offer]), room)

\* Members offer the state they hold: only an untouched machine is fresh.
Offers == {o \in [point : Point, fresh : BOOLEAN,
                  revision : 0..MaxRevision, roomRevision : 0..MaxRevision] :
             o.fresh => o.point.frame = 0}

LiveObserver(g, m) == g.status = "playing" /\ m # Host
PausedOwner(g, m) == g.status = "paused" /\ m \in Owners(g) \ {Host}

\* gameObserve; during a load only while its members are being frozen.
Observe(m) ==
  /\ Present(m)
  /\ Idle \/ Loading("freezing")
  /\ Available(game, m)
  /\ \/ LiveObserver(game, m) /\ Accept(Capture(game, {m}, "live"), room)
     \/ PausedOwner(game, m) /\ Accept(Capture(game, {m}, "controller"), room)

Involved(g, m) == {t \in g.transfers : m = Host \/ t.recipient = m}
ControllerSync(transfers) == \E t \in transfers : t.purpose = "controller"

\* Withdrawing an offer while a Start is being prepared calls it off.
Withdraw(g, m) ==
  LET left == [g EXCEPT !.transfers = @ \ Involved(g, m), !.offers[m] = None]
  IN  IF /\ g.epoch = 0 \/ m \in Owners(g)
         /\ g.startRequested \/ g.status \in {"starting", "countdown"}
        THEN Stop(left, "paused") ELSE left

Unready(m) ==
  /\ Present(m)
  /\ Idle
  /\ Accept(
       CASE /\ game.pending # None
            /\ m \in OwnersOf(game.proposed) \/ ControllerSync(Involved(game, m)) ->
              FailTransaction(game)
         [] /\ ~(/\ game.pending # None
                 /\ m \in OwnersOf(game.proposed)
                      \/ ControllerSync(Involved(game, m)))
            /\ ControllerSync(Involved(game, m)) -> Stop(game, "paused")
         [] OTHER -> Withdraw(game, m),
       room)

RoleCancel ==
  /\ HostPresent
  /\ Idle
  /\ game.pending # None
  /\ Accept(DropRoles(game), room)

RoleRetry ==
  /\ HostPresent
  /\ game.pending # None
  /\ game.pending.status = "failed"
  /\ Accept(RetryRoles(game, room.revision,
                       ControllerOwners(WithRoles(room, game.pending.roles))),
            room)

Resynchronize(m) ==
  /\ HostPresent
  /\ Present(m) /\ m # Host
  /\ Idle
  /\ game.status = "playing"
  /\ Available(game, m)
  /\ Accept(Capture(game, {m}, "live"), room)

\* The host for any reason, another owner only at its player's request.
Pause(m) ==
  /\ Present(m)
  /\ Idle
  /\ m \in Owners(game)
  /\ game.status = "playing"
  /\ Accept(Freeze(game), room)

\* finishTransaction() at the end of a command: the room applies the roles of
\* a transaction that commits.
Finish(g) ==
  LET applied == ApplyRoles(room, g.pending.roles)
  IN  IF Commits(g, room.revision)
        THEN Accept(FinishTransaction(g, room.revision, applied.controllers), applied)
        ELSE Accept(FinishTransaction(g, room.revision, room.controllers), room)

\* gameFrozen: the host reports its last completed frame.
Frozen(point) ==
  LET paused == [game EXCEPT !.point = point, !.status = "paused",
                             !.load = IF Idle THEN None ELSE
                               [@ EXCEPT !.oldPoint = point, !.held = TRUE]]
      synced == Capture([paused EXCEPT !.pending.status = "synchronizing"],
                        OwnersOf(game.proposed) \ {Host}, "controller")
  IN  /\ HostPresent
      /\ game.status = "pausing"
      /\ point.frame >= game.point.frame
      /\ IF game.pending = None
           THEN Accept(paused, room)
           ELSE IF ProposedAvailable(paused)
                  THEN Finish(synced)
                  ELSE Accept(FailTransaction(
                         [paused EXCEPT !.pending.status = "synchronizing"]), room)

\* A mutation: an acknowledgment of an earlier attempt counts.
AcceptsAnyEpoch(g, prepare) ==
  /\ g.load = None
  /\ g.status = "starting"
  /\ prepare.to \in g.required
  /\ prepare.hash = g.point.hash
\* gameAck answers any prepare the member was ever sent, at once or much later.
AcceptsAck(g, prepare) ==
  /\ g.load = None
  /\ prepare.epoch = g.epoch
  /\ g.status = "starting"
  /\ prepare.to \in g.required
  /\ prepare.hash = g.point.hash

TakeAck(g, m) ==
  LET acks == g.acks \cup {m}
  IN  [g EXCEPT !.acks = acks,
                !.status = IF g.required \subseteq acks THEN "countdown" ELSE @]

ReceiveAck(prepare) ==
  /\ Present(prepare.to)
  /\ AcceptsAck(game, prepare)
  /\ Become(Publish(TakeAck(game, prepare.to), room), room)
  /\ acked' = acked \cup {[from |-> prepare.to, epoch |-> prepare.epoch,
                            hash |-> prepare.hash]}

\* A mutation: a session that is not synchronized resumes.
ResumeAnyway ==
  /\ HostPresent
  /\ Idle
  /\ game.status # "starting"
  /\ Accept(Begin(game, game.point), room)
Resume ==
  /\ HostPresent
  /\ Idle
  /\ game.status = "resume_ready"
  /\ Accept(Begin(game, game.point), room)

\* A member whose replica failed; only an owner of a stopped game stops it.
Abort(m) ==
  LET others == {t \in game.transfers : t.recipient # m}
  IN  /\ Present(m)
      /\ game.epoch # 0
      /\ Accept(IF \/ m # Host /\ game.status = "playing"
                   \/ m \notin Owners(game)
                  THEN [game EXCEPT !.transfers = others]
                  ELSE Stop(game, "failed"),
                room)

-----------------------------------------------------------------------------
(* Commands of a checkpoint transfer *)

\* Which transfers the two ends may drive now: a load's own while it is
\* staged, a controller's also while a load freezes its members.  Commands that
\* name no epoch are malformed.
Drivable(t) ==
  IF t.purpose = "load" THEN Loading("staging")
  ELSE /\ game.epoch # 0
       /\ t.epoch = game.epoch
       /\ Idle \/ (t.purpose = "controller" /\ Loading("freezing"))

Without(g, t) == [g EXCEPT !.transfers = @ \ {t}]
Updated(t, new) == [game EXCEPT !.transfers = (@ \ {t}) \cup {new}]

\* The host captured the state it will send.
Captured(t, point) ==
  /\ HostPresent
  /\ Drivable(t)
  /\ t.point = None
  /\ t.purpose = "controller" => point = game.point
  /\ t.purpose = "load" => point = game.load.target
  /\ Accept(Updated(t, [t EXCEPT !.point = point]), room)

CheckpointReady(t) ==
  /\ Drivable(t)
  /\ t.point # None
  /\ ~t.sending
  /\ Accept(Updated(t, [t EXCEPT !.sending = TRUE]), room)

\* A live recipient has the checkpoint and replays frames up to a boundary.
LiveAck(t) ==
  /\ Drivable(t)
  /\ t.purpose = "live"
  /\ t.sending
  /\ ~t.catchingUp
  /\ Accept(Updated(t, [t EXCEPT !.catchingUp = TRUE]), room)

CatchupBoundary(t, point) ==
  /\ HostPresent
  /\ Drivable(t)
  /\ t.catchingUp
  /\ t.boundary = None
  /\ point.frame >= t.point.frame
  /\ Accept(Updated(t, [t EXCEPT !.boundary = point]), room)

Observed(t) ==
  /\ Drivable(t)
  /\ t.catchingUp
  /\ t.boundary # None
  /\ Accept(Without(game, t), room)

\* A controller owner loaded the authority's paused state: that is its offer.
SyncedOffer(t) ==
  [point |-> t.point, fresh |-> FALSE, revision |-> game.controllers.revision,
   roomRevision |-> game.roomRevision]

ControllerAck(t) ==
  LET synced == [Without(game, t) EXCEPT !.offers[t.recipient] = SyncedOffer(t)]
  IN  /\ Drivable(t)
      /\ t.purpose = "controller"
      /\ t.sending
      /\ CASE game.load # None -> Accept(Without(game, t), room)
           [] game.load = None /\ game.pending # None -> Finish(synced)
           [] game.load = None /\ game.pending = None ->
                Accept(PrepareIfReady(synced), room)

\* A guest prepared the loaded state next to the one it runs.
LoadAck(t) ==
  /\ Drivable(t)
  /\ t.purpose = "load"
  /\ t.sending
  /\ Accept(LoadPrepared(Without(game, t), t.recipient), room)

\* What a controller transfer that failed or timed out leaves behind.
SyncFailed(g) ==
  CASE g.load # None                     -> AbortLoad(g)
    [] g.load = None /\ g.pending # None -> FailTransaction(g)
    [] g.load = None /\ g.pending = None -> Stop(g, "failed")

CheckpointFailed(t) ==
  /\ Drivable(t)
  /\ Accept(CASE t.purpose = "live"       -> Without(game, t)
              [] t.purpose = "controller" -> SyncFailed(Without(game, t))
              [] t.purpose = "load"       -> AbortLoad(game),
            room)

-----------------------------------------------------------------------------
(* Commands of a coordinated load *)

ProposePlain(point) ==
  /\ HostPresent
  /\ room.candidate = None
  /\ CanPropose(game)
  /\ Accept(ProposeLoad(game, point, None, game.controllers.owners), room)

\* The owners after the load are those the new cartridge's roles name.
ProposeReplacement(point) ==
  /\ HostPresent
  /\ room.candidate # None
  /\ CanPropose(game)
  /\ Accept(ProposeLoad(game, point, room.candidate,
                        ControllerOwners(WithCartridgeRoles(room, room.candidate.seats))),
            room)

\* Members report where they stopped once they were told to hold: held is no check
\* of the coordinator, a client reports on gameLoadHold only (game-client.ts:86-95).
ReportBoundary(m, point) ==
  /\ Loading("freezing")
  /\ Present(m)
  /\ m \in LoadMembers(game.load)
  /\ game.load.held
  /\ Accept(LoadBoundary(game, m, point), room)

HostPrepared ==
  /\ HostPresent
  /\ Loading("staging")
  /\ Accept(LoadPrepared(game, Host), room)

\* replacementCommit(): gameLoadFinish is already sent when the room finds
\* another candidate, or none; the exception skips the publish.
CommitReplacement(replacement) ==
  LET announced == AnnounceReplacement(game)
      chosen    == SelectGame(room, replacement, TRUE)
  IN  IF room.candidate # replacement
        THEN Step(announced, room)
        ELSE Accept(ReplaceGame(announced, chosen.controllers), chosen)

Committed(m) ==
  /\ Loading("committing")
  /\ Present(m)
  /\ m \in game.load.required
  /\ CASE ~LoadComplete(game, m) ->
            Accept([game EXCEPT !.load.committed = @ \cup {m}], room)
       [] LoadComplete(game, m) /\ game.load.replacement = None ->
            Accept(FinishLoad(game),
                   [room EXCEPT !.started = TRUE, !.established = TRUE])
       [] LoadComplete(game, m) /\ game.load.replacement # None ->
            CommitReplacement(game.load.replacement)

LoadFailed(m) ==
  /\ ~Idle
  /\ m \in LoadMembers(game.load)
  /\ Present(m)
  /\ Accept(AbortLoad(game), room)

\* A member restored the boundary it had reported.
RolledBack(m) ==
  /\ Loading("rolling_back")
  /\ m \in LoadMembers(game.load)
  /\ Present(m)
  /\ game.load.boundaries[m] # None
  /\ Accept(LoadRolledBack(game, m), room)

-----------------------------------------------------------------------------
(* GameSession.sweep(): one expiry at a time, since several that are due in  *)
(* one pass have the effect of successive passes.                            *)

LoadTimer ==
  /\ ~Idle
  /\ Accept(IF game.load.phase = "rolling_back"
              THEN FinishLoadRollback(game, TRUE) ELSE AbortLoad(game), room)

\* When a controller transfer expires during a load the pass returns without
\* telling Rooms that anything changed, so nothing is published.
TransferTimer(t) ==
  CASE t.purpose = "live"       -> Accept(Without(game, t), room)
    [] t.purpose = "load"       -> Accept(AbortLoad(Without(game, t)), room)
    [] t.purpose = "controller" ->
         IF Idle THEN Accept(SyncFailed(Without(game, t)), room)
                 ELSE Step(SyncFailed(Without(game, t)), room)

\* Three seconds after the last acknowledgment the shared game starts.
StartTimer ==
  /\ game.status = "countdown"
  /\ Accept([game EXCEPT !.hasPlayed = TRUE, !.interruption = None,
                         !.restored = FALSE, !.status = "playing",
                         !.startRequested = FALSE], room)

\* The countdown's deadline is armed after startAt, so it never comes first.
BarrierDue ==
  \/ game.status \in {"starting", "pausing"}
  \/ game.startRequested /\ game.status # "countdown"
BarrierTimer ==
  /\ BarrierDue
  /\ Accept(IF game.pending # None THEN FailTransaction(game)
                                    ELSE Stop(game, "failed"), room)

-----------------------------------------------------------------------------
RosterStep ==
  \/ "join" \in Scope /\ \E m \in Member : Join(m) \/ Release(m)
  \/ "drop" \in Scope /\ \E m \in Member : Attach(m) \/ Detach(m)
  \/ "link" \in Scope /\ \E m, n \in Member : LinkDown(m, n)
  \/ "file" \in Scope /\ \E m \in Member : ChangeFile(m) \/ Acquire(m, FALSE)
  \/ "slot" \in Scope /\ \E i \in Slot : SlotAvailability(i) \/ \E j \in Slot : SlotMove(i, j)
  \/ "role" \in Scope /\ \E i \in Slot, role \in Role : SlotRole(i, role)
  \/ \E m, n \in Member : LinkUp(m, n)
  \/ \E m \in Member : Acquire(m, TRUE)

SelectionStep ==
  \/ "game" \in Scope /\ \E chosen \in NextGames : BeginSelection(chosen)
  \/ ConfirmSelection \/ CancelSelection \/ ExpireSelection
  \/ PrepareHost \/ StartRoom

CommandStep ==
  \/ \E point \in Point : Restore(point) \/ Frozen(point)
  \/ \E m \in Member : \/ ReadyForSlot(m) \/ Observe(m) \/ Unready(m)
                       \/ Resynchronize(m) \/ Pause(m) \/ Abort(m)
  \/ \E m \in Member, offer \in Offers : Ready(m, offer)
  \/ RoleCancel \/ RoleRetry \/ Resume
  \/ \E prepare \in game.sent : ReceiveAck(prepare)

TransferStep ==
  \E t \in game.transfers :
    \/ CheckpointReady(t) \/ LiveAck(t) \/ Observed(t) \/ ControllerAck(t)
    \/ LoadAck(t) \/ CheckpointFailed(t)
    \/ \E point \in Point : Captured(t, point) \/ CatchupBoundary(t, point)

LoadStep ==
  \/ "load" \in Scope /\ \E point \in Point : ProposePlain(point) \/ ProposeReplacement(point)
  \/ \E m \in Member, point \in Point : ReportBoundary(m, point)
  \/ HostPrepared
  \/ \E m \in Member : Committed(m) \/ LoadFailed(m) \/ RolledBack(m)

TimerStep ==
  \/ LoadTimer \/ StartTimer \/ BarrierTimer
  \/ \E t \in game.transfers : TransferTimer(t)

Next == RosterStep \/ SelectionStep \/ CommandStep \/ TransferStep \/ LoadStep \/ TimerStep

Spec == Init /\ [][Next]_vars

\* Sweeps run on an interval and before every command, so a timer that stays
\* armed is served; the host's client answers a rollback it was sent.  The
\* conditions are the guards of the actions, each of which then changes
\* something: this is their weak fairness, in a form TLC evaluates faster.
LoadArmed == ~Idle /\ (Loading("rolling_back") => Host \in game.load.rolledBack)
BarrierArmed == game.status \in {"starting", "pausing"}
RollbackSent ==
  /\ Loading("rolling_back")
  /\ HostPresent
  /\ Host \notin game.load.rolledBack
  /\ game.load.boundaries[Host] # None
Fairness ==
  /\ []<>~LoadArmed \/ []<><<LoadTimer>>_vars
  /\ []<>~BarrierArmed \/ []<><<BarrierTimer>>_vars
  /\ []<>(game.status # "countdown") \/ []<><<StartTimer>>_vars
  /\ []<>~RollbackSent \/ []<><<RolledBack(Host)>>_vars

FairSpec == Spec /\ Fairness

-----------------------------------------------------------------------------
(* Invariants *)

\* The session, the room and the accepted acknowledgments keep their shapes.
TypeOK ==
  /\ game \in SessionType
  /\ room \in Room
  /\ acked \subseteq Ack

\* The countdown runs, and play starts, only when every owner the barrier names
\* confirmed the very epoch and state that starts (handle, gameAck): an
\* acknowledgment of an earlier attempt never counts.
StartAcknowledged ==
  game.status \in {"countdown", "playing"} =>
    \A m \in game.required :
      [from |-> m, epoch |-> game.epoch, hash |-> game.point.hash] \in acked

\* While the session may still act on offers, each was made for the assignment
\* in force and, before the first epoch, for the roster in force.
OffersCurrent ==
  game.status \in {"waiting", "paused", "resume_ready", "failed"} =>
    \A m \in Member :
      game.offers[m] # None =>
        /\ game.offers[m].revision = game.controllers.revision
        /\ game.epoch = 0 => game.offers[m].roomRevision = game.roomRevision

\* From the proposal until its end, a load leaves the timeline it may have to
\* return to in force: its epoch, its assignment, its frame and its cartridge.
LoadHoldsTimeline ==
  game.load # None =>
    /\ game.epoch = game.load.oldEpoch
    /\ ~game.load.initial => game.point = game.load.oldPoint
    /\ game.load.phase # "rolling_back" =>
         game.controllers.revision = game.load.controllers
    /\ game.pending = None
    /\ game.status \in {"waiting", "pausing", "paused", "failed", "resume_ready"}

\* While a load of the same cartridge is staged, every guest it waits for has
\* the transfer that lets it answer, whatever was in transfer before (stageLoad).
StagingCanFinish ==
  Loading("staging") /\ game.load.replacement = None =>
    \A m \in game.load.required \ (game.load.prepared \cup {Host}) :
      \E t \in game.transfers : t.recipient = m /\ t.purpose = "load"

-----------------------------------------------------------------------------
(* Properties of steps *)

\* Once a timeline exists, controllers change hands only with a change of the
\* roster during play, where a role transaction commits exactly what it proposed
\* for a roster that did not move on, or with a replaced cartridge.
RosterDuringPlay ==
  /\ game.status = "playing"
  /\ room'.revision # room.revision
  /\ room'.controllers.owners = ControllerOwners(room')
ProposedCommits ==
  /\ game.pending # None
  /\ game.pending.revision = game.roomRevision
  /\ game'.controllers.owners = game.proposed
  /\ \A m \in OwnersOf(game.proposed) : Available(game, m)
AuthorityChanges ==
  [][game.epoch # 0 /\ game'.controllers # game.controllers =>
       \/ RosterDuringPlay
       \/ ProposedCommits
       \/ game'.epoch = 0 /\ room'.cartridge # room.cartridge]_vars

\* A load ends in one of two ways: every required member prepared and
\* committed it, or the previous timeline is back in force (handleLoad).
Unanimous(load) ==
  /\ load.phase = "committing"
  /\ load.required \subseteq load.prepared
  /\ \E last \in load.required : load.required \ {last} \subseteq load.committed
Restored(load) ==
  /\ game'.epoch = load.oldEpoch
  /\ game'.point = load.oldPoint
  /\ room'.cartridge = room.cartridge
LoadAllOrNothing ==
  [][game.load # None /\ game'.load = None =>
       Unanimous(game.load) \/ Restored(game.load)]_vars

-----------------------------------------------------------------------------
(* Liveness *)

\* Nobody waits forever for a start or a pause to complete (sweep).
BarriersResolve ==
  /\ game.status = "starting" ~> game.status # "starting"
  /\ game.status = "countdown" ~> game.status # "countdown"
  /\ game.status = "pausing" ~> game.status # "pausing"

\* A load ends, committed or rolled back, while the host stays (sweep).
LoadResolves == game.load # None ~> game.load = None

=============================================================================
