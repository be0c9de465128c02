# Retro-coop in TLA+

Retro-coop lets up to five people play one console game over the network.  A
coordinator (Node, `src/apps/coordinator`) keeps rooms and decides who may do
what and when; every member's browser (`src/apps/client`) runs the emulator, and
the browsers exchange inputs, frames and checkpoints over peer connections.
What must never happen is that two members play different games and believe
they share one, that somebody waits forever, or that progress is lost without a
word.

These modules model both sides.  TLC checks them on small instances, and TLAPS
proves the most important facts for instances of any size.

## Inventory

The coordinator and the browsers are single-threaded JavaScript, so a handler
without an `await` is atomic.  The hard behaviours come from what happens
between handlers: members send any command at any time, answer late or never,
lose sockets and links; timers fire in between; one handler reaches the same
object through several calls; and handlers that await (passwords, uploads,
downloads, the emulator's worker, the database) go on with what they read
before.

| Component | State it keeps | Interacts with | Hard behaviours | What makes it correct | Module |
|---|---|---|---|---|---|
| Game session (`gameplay.ts`) | status, epoch, common point, offers, acknowledgments, role transaction, transfers, load, deadlines | configured by Rooms, answers members with events | late acknowledgments, a roster that moves during a barrier, loads against role changes, every deadline | a start rests on fresh acknowledgments of all owners, loads are all or nothing, everything ends | `Session`, `GameSession` |
| Rooms (`rooms.ts`) | rooms, sessions, slots, roles, connections, assignment, candidate, revisions | game session, slots, ROM store, password work, peer broker, chat | handlers of several calls that may throw midway, expiries, withdrawn attempts | authority changes only where it may; who is in a room is in it once, and on both sides | `Roster`, `GameSession`, `RoomEntry`, `GameFiles` |
| Slots (`slots.ts`) | none | Rooms | first slot of a role wins | pure | `Roster` |
| Peer broker (`peer.ts`), client peers | negotiation per pair, rounds, relay slots | Rooms reads links | signals of an old round, retries, the limit of relay slots | slots are freed once, both ends agree on the round | `PeerLink` |
| ROM store (`rom-store.ts`), ZIP extraction | pending and stored files, byte budget | Rooms | concurrent uploads, failure after replacement, restart | the budget is exact, no file is left behind | `GameFiles` |
| Password work (`room-password.ts`) | running count, queue | Rooms | what was checked before a derivation is used after it | who is let in knew the password of then | `RoomEntry` |
| Server (`server.ts`, `admission-address.ts`) | sockets, admission windows | Rooms | sockets replaced by new ones | one live socket per session | `RoomEntry`, `GameFiles` (partly) |
| Scheduler (client `game-scheduler.ts`) | frames, leases, input history, hashes | game client | inputs of an expired lease, gaps, the bounded history | one committed sequence of frames on all machines; old input never controls one | `Timeline`, `InputLease` |
| Game client (client `game-client.ts`) | the link to each guest, transfers, local barrier and load | player, scheduler, room client | events that overtake local work, streams that cross | answers only for the epoch it was asked for | `Timeline`, `InputLease`, `SharedLoad` |
| Player and worker (client `player.ts`, `worker.ts`) | native state, prepared and rollback state, battery memory | game client, saves | a failure between prepare and commit | a rollback restores exactly the state before | `SharedLoad`, `LocalProgress` |
| Room client (client `room-client.ts`, uploads, downloads) | connection, requests, selection | coordinator | answers after a reconnection, lost replies | the room a tab shows is the one it is in | `RoomEntry`, `GameFiles` |
| Saves and host recovery (client `saves.ts`, `host-recovery.ts`, `rom-library.ts`) | records with a generation | player | another tab, a write under way, a clear | no write undoes another or a clear | `LocalProgress` |
| Voice and microphone (client `voice.ts`, `microphone.ts`) | capture, senders per peer | peers | answers after the question was withdrawn, replacements that fail | no capture is forgotten | `Voice` |
| Operator, chat, contracts, checkpoint wire, tab session, screens, emulator | see `PROJECT.json` | | | | not modelled |

Scripts, deployment files and review evidence are not part of the program's
logic.  The lines of the source are long - a whole method often sits on one -
so a few lines of the map stand for much code.

## Modules

A module has one action per handler, timer or step between two awaits.  Each
defines `TypeOK` or typed records, the properties, and, before some
definitions, a *mutation*: the same definition with a fault a property is known
to detect, not part of the specification.  `MC...` modules hold what their
instances need besides a `.cfg`.

**`Session`, `Roster`, `GameSession`** (`MCGameSession`).  `Session` has the
private fields of the class `GameSession` as one record (`game`; `state.*` is
flattened, epoch 0 is an undefined epoch, `issued` counts epochs drawn) and its
methods as operators from record to record: a handler of Rooms calls several
before it returns, and what lies between is no state anybody sees.  A check
that throws before anything changed is a guard.  `Roster` is the part of a
`Room` its session depends on.  `GameSession` composes them: an action is one
whole handler of Rooms with its checks, its calls, the trailing
`finishTransaction()` and the `publish()` at its end; where the code throws
after it changed something, the action is the state that leaves.  Members are
not modelled: any command the code would accept may come.  `acked` is a history
variable.

**`PeerLink`** (`MCPeerLink`).  One pair: the broker's round, the
`PeerConnection` at both ends, sockets that lose what is on the way, the data
channel, and other pairs that take relay slots.  The policy is always
`"standard"`, so the refusals of the other policy cannot occur.  The coordinator
notices a closed socket by itself (`Detach`); the browser finds out later, in its own
step, and closes its peers then.

**`Timeline`** (`MCTimeline`), with the abstract **`SharedTimeline`**.  One run
of a game: the host's scheduler, each guest's, their emulators as queues of
requests, the streams of frames and hashes between them, and the coordinator's
transfers.  A guest short of a pause asks for the frozen state once and keeps its run
until that transfer reaches it (`FrozenTransfer`); what the transfer then does is
`GameSession`'s.  A frame is its number, a native state the number of frames it ran
and whether it agrees with the host's.  `SharedTimeline` says what a run
promises: frames are committed one after another, and what a guest shows is
always a prefix of them, or its own if its emulator strays.

**`InputLease`** (`MCInputLease`).  One guest's buttons on their way to the
host's frames: leases with a clock, presses, the assignment of controllers that
moves, links that break, resynchronizations.  As history, each copy of a lease runs
down with the host's, so that `LeaseHonoured` speaks of every lease granted, not of
those the host still remembers.

**`SharedLoad`** (`MCSharedLoad`).  A coordinated load end to end:
coordinator, clients and workers, with failing machines, lost sockets and
unanswered requests.

**`RoomEntry`** (`MCRoomEntry`).  Tabs that create, enter and leave rooms over
sockets that break, with derivations of passwords that take time, requests that
are given up after eight seconds, cancellations and their tombstones, sweeps
and restarts.  `withdrawn` is a history variable.  A hello that is refused leaves a
socket without a session: what was sent behind it is answered
`authenticate_first`, and the client closes it and starts again without a token.
`lost` and `blind` mark what the client cannot know: a request to enter it gave up
after eight seconds, of which the reply is dropped (room-client.ts:150), and the
notice `creation_cancelled` it ignores (161).  `ViewsAgree` excepts both.  Left out:
the two-step `create`/`confirmCreate`, invitation codes
and offered lobbies, revocation and blocks, rate limits, deadlines of
reservations; a tombstone's age (their number is bounded by `Tombstones`).

**`GameFiles`** (`MCGameFiles`).  Selection, upload, extraction, confirmation and
download of a game, from await to await.  `wanted` is history: what the room had
selected when the guest asked.  Left out: files given with a room's
creation, the replacement of a started room's cartridge, rate limits, and the
guest's own cache.

**`Voice`** (`MCVoice`).  One microphone and the senders it feeds: generations of
captures, replacements of tracks that queue per sender, push-to-talk.  Left out:
device names, playback, the limit of four peers.

**`LocalProgress`** (`MCLocalProgress`).  Several tabs and one database: battery
memory, a host's captures, stored games, deletion and clearing.  Each kind of
row has behaviours of its own, since they share only the generation a clear
raises.  Left out: manual slots, preferences, rewinding, previews.

### Abstractions

- Native state is a *point* (frame and hash), a frame count, or a set of marks
  of progress: what the code compares, and no more.
- Epochs, leases and transfers are random in the code and compared for equality;
  here they are numbered as they are drawn.
- A deadline has no clock unless its length matters (`InputLease`): a timer may
  fire whenever it is armed.
- A command with a wrong revision, epoch or transfer is refused without effect
  and is no action.
- Sockets and channels are queues that may lose what they hold when they break.

## Checks

Each property's comment in the modules says what it means and where it bites.

| Run | Instance | Checks |
|---|---|---|
| `play` | host and guest, two cartridges, two epochs | `TypeOK`, `StartAcknowledged`, `LoadHoldsTimeline`, `StagingCanFinish`, `LoadAllOrNothing` |
| `seats` | host and guest who joins, leaves, moves and takes roles | `OffersCurrent`, `AuthorityChanges`, `BarriersResolve`, `LoadResolves` |
| `peers` | one pair, one relay slot, one socket that comes and goes | `RelaySlots`, `ViewsConverge`, `RoundsSettle` |
| `timeline` | host and one guest, two frames, one retained, one transfer | `StreamContiguous`, `BlameIsDeserved`, `TimelineIsShared`, `HostNeverWaits`, `PauseIsReached` |
| `inputs` | one guest, leases of two ticks, two courses of assignments | `NoStuckButton`, `NoOldControl`, `InputKeepsItsSlot`, `LeaseHonoured` |
| `loads` | host and guest, one load, one resumption, two faults | `StartedTogether`, `CopyKept`, `FailedLoadIsUndone`, `LoadEnds` |
| `rooms` | a tab that opens a room and one that enters it twice | `MembershipAgrees`, `CancelledStaysOut`, `ViewsAgree`, `AdmittedByPassword` |
| `absent` | the same with silent tabs and a restart | `AbsentHostEnds` |
| `files` | three games, two selections, an archive | `BudgetExact`, `NoFileLeft`, `SelectionTruthful`, `GuestGetsTheGame` |
| `voice` | two peers, three captures | `NoForgottenCapture`, `SendersFollow`, `PushToTalkReleased` |
| `progress` | two tabs | `ClearedStaysCleared`, `OwnProgressRead`, `NoLostUpdate` |
| `returned_guest` | a guest that falls silent and comes back | `ReturnedGuestStays` is violated: see the findings |

### Bounds and why they are enough

- Members: a start, a role change, a load and a run each have one authority (the
  host) and others who answer; one other is enough for each of them to be late,
  lost or gone.  Tabs and peers: two, the fewest that interfere.
- `MaxEpoch`, `MaxLoad`, `MaxTransfer`, `MaxSelect`, `MaxGeneration`: an attempt and
  the next one, so that late answers to the first exist; three captures, since a
  retry of the second may meet the first.
- `MaxRevision`, `MaxChanges`, `MaxAccess`: a change, and one on top of it.
- `MaxFrame = 2` with `HashInterval = 2` and `History = 1`: a frame is lost from the
  history, and a hash is compared, within the run.
- `LeaseTicks = 2` with `RenewTicks = 1`: two leases overlap.
- `MaxFault`, `MaxBreaks`, `MaxSockets`, `MaxRestarts`: one failure, and one during
  the recovery from it.  `Dropping`, `Slow`, `Silent`, `Straying`, `Scope` name who
  may fail and which families of outside events an instance explores; each
  multiplies the states, and a run takes those its properties are about: sockets, links
  and files are lost in `play`, and not in `seats`.
- `MaxFlight`, `MaxQueue`, `Tombstones`, `Total`, `Concurrent`: where the code has a
  limit the small one is reached; where it has none, the bound stops the sender.

The bounds are guards of the outside events.  Where behaviours may end at them, or
where the system may really stop (everybody left, the run is over), a
configuration says `CHECK_DEADLOCK FALSE`: `timeline`, `loads`, `rooms`, `absent`,
`returned_guest`, `files`, `progress`.  `voice` and `progress` use symmetry, and no
liveness property with it.  The theorems below hold for every value of the bounds.

### Fairness

- `GameSession!FairSpec`: an armed timer fires, because `sweep()` runs every second
  and before every command, and the host's client answers a rollback it was sent.
  The conditions are written out, because TLC evaluates them much faster than
  `ENABLED`.  A rollback waits for the host without a deadline, which is the code's
  design (gameplay.ts:273); a host that is gone for good ends the room
  (`AbsentHostEnds`).
- `PeerLink`: only the broker's sweep.
- `Timeline`, `InputLease`: event loops go on, channels deliver, timers expire; never
  that a guest asks to be resynchronized, answers in time or agrees.  That the machine
of a paused guest asks for the frozen state is its event loop, and that the transfer
reaches it or times out (`FrozenTransfer`) the coordinator's.
- `SharedLoad`: event loops, the machines answer (a failure is an answer), the load
  timer fires, members reconnect.
- `RoomEntry!FairSpec`: time passes for a session without a socket, and the sweep runs.
- The other specifications state none; their properties are safety.

### Refinement

`Timeline` implements `SharedTimeline` under `committed <- host.frame`,
`settled <- host.pausedSent \/ host.over` and `view <- ` what each running guest's
emulator holds (`TimelineIsShared`).  Every step of a guest that asks, catches up, or
is resynchronized maps to a step of what it shows, or to a stutter.  TLC checks this
on the instance of `timeline`; `SharedTimelineIsKept` proves it for every instance.

## Proofs

TLAPS checks these for every value of the constants, under the assumptions the
modules name.  They say what the constants are - bounds are numbers, the host is a
member, members are finitely many, `None` or `Nil` is not a value of the types it stands
beside (`SessionAssumption`, `RosterAssumption`, `InstanceAssumption`,
`PeerAssumption`, `NoneAssumption`, `LeaseAssumption`, `LoadAssumption`, `NilAssumption`, `GameFilesAssumption`,
`RoomEntryAssumption`, `TimelineAssumption`) - and nothing about behaviour.

| Module | Theorem | States |
|---|---|---|
| `GameSessionProofs` | `TypeCorrect` | `TypeOK` |
| | `StartCorrect` | `StartAcknowledged` |
| | `CoreHolds` | the inductive invariant behind the following |
| | `OffersStayCurrent` | `OffersCurrent` |
| | `LoadKeepsTimeline` | `LoadHoldsTimeline` |
| | `StagingAnswered` | `StagingCanFinish` |
| | `LoadsEndWell` | `LoadAllOrNothing` |
| | `AuthorityIsKept` | `AuthorityChanges` |
| | `ConfigureSound`, `FinishLoadRollbackSound` | what `configure()` and a rollback preserve |
| `PeerLinkProofs` | `InvHolds` | the inductive invariant behind the following |
| | `RelayWithinBounds`, `ViewsDoConverge` | `RelaySlots`, `ViewsConverge` |
| `TimelineProofs` | `InvHolds`, `TypeCorrect` | the inductive invariant behind the following |
| | `StreamsAreContiguous`, `OnlyStrayedAreBlamed` | `StreamContiguous`, `BlameIsDeserved` |
| | `SharedTimelineIsKept` | `TimelineIsShared`, the refinement |
| `GameClientProofs` | `ButtonsExpire`, `OldInputIsDead`, `InputStaysInItsSlot`, `LeasesAreHonoured` | `NoStuckButton`, `NoOldControl`, `InputKeepsItsSlot`, `LeaseHonoured` |
| | `LoadInvHolds`, `LoadTypes` | the inductive invariant behind the following, `LoadTypeOK` |
| | `StartsTogether`, `CopiesAreKept`, `FailedLoadsAreUndone` | `StartedTogether`, `CopyKept`, `FailedLoadIsUndone` |
| `RoomEntryProofs` | `RoomsAndSessionsAgree`, `PasswordStillKnown` | `MembershipAgrees`, `AdmittedByPassword` |
| | `CancelledStays`, `TabsAgree` | `CancelledStaysOut`, `ViewsAgree` |
| `GameFilesProofs` | `FilesAccounted`, `LoadedIsExpected`, `ToldTheTruth` | `NoFileLeft`, `GuestGetsTheGame`, `SelectionTruthful` |
| `VoiceProofs` | `CaptureStops`, `PushToTalkSilent`, `EveryPeerHears` | `NoForgottenCapture`, `PushToTalkReleased`, `SendersFollow` |
| `LocalProgressProofs` | `ClearedForever`, `OwnProgressKept`, `UpdatesContinue` | `ClearedStaysCleared`, `OwnProgressRead`, `NoLostUpdate` |

None of the invariants is inductive as it stands.  What each needs:

**GameSession.**  `Inv` is `TypeOK` with `Sound(game, acked)`: a timeline has a known
point, a load remembers a point to return to, and acknowledgments that are counted
were accepted for this epoch and hash (`Anchored`, `LoadAnchored`, `Acked`).  One
lemma per method of the session says that it returns a session record and keeps
`Sound`; `ConfigureSound` composes the steps of `configure()`.  `Core` adds what the
session and the room know of each other: a load in progress stands on the terms it
was proposed on (`InForce`), the session was told of the room as it is (`Told`), and
both agree on what a role transaction proposes, on whether there is a timeline, and
on whether a game is selected (`Agreed`); `Coherent` is the part of the session
alone.  It is proved once per action, in a lemma `...Well` that concludes `Core'`
and the two step properties together, because the same case distinction decides
all three.  `ConfigureFit` is its heart: `configure()` of a coherent session with
the room's new assignment is coherent with that room, whatever it interrupts.

**PeerLink.**  `Inv` says that relay slots are counted for the negotiation that holds
one (`Attached`), and of the messages on their way to an end that between two
`prepare`s there is a stop (`Separate`), and that an end which reads all of them has
the broker's round, unless it gave that up and its `failed` is on its way (`Ends`).

**Timeline.**  `Inv` is `TypeOK` with four parts.  `Fits` relates a guest to all that
is on its way to it: what it shows and is sent are frames of the host (`Replays`,
`Checks`), a capture reads a frame the host has passed (`Past`), a transfer's
checkpoint is on its way once and its stages come in order (`Once`, `Fresh`), packets
are numbered by the transfers that opened their streams (`Streams`), only a machine
that strayed reports a mismatch (`Blames`), what the host still sends belongs to the
open transfer or is followed by an event that ends it before the next capture
(`Closing`), and a guest that is served is served where its packets end (`Served`).
`Stopping` says that the host freezes once for a pause and has committed its last frame
when it reads where the pause is; `Owned`, that a transfer belongs to one guest and its
boundary is asked for once; `Bounded`, that the transfers issued stay within their bound.
All but `Bounded` were invariants of a TLC run before they were proved.  Each action has
a lemma that it keeps what concerns its own guest, and shares one that it leaves every
other guest alone (`KeepsGuest`, `KeepsHost`).  For the refinement, `SettlesTo` and
`Watches` say for each action what the host's timeline and a guest's view do:
one step of `SharedTimeline`, or a stutter.

**InputLease.**  `HostOK` says that the host's slot is the one of the assignment in
force, that leases are of this connection and end one after another, and that what
is held or was pressed has an age which, with the time it still has, is at most a
term; `Current` says that what is on its way under a lease the host still has was
sent since it was issued.  For `LeaseHonoured`, `Kept` says that every copy of a lease
of this connection and assignment that is not over - granted and on its way, in the
guest's hands, or in a packet - is still in the host's list with as much time left.

**SharedLoad.**  What a machine will do is decided by what is still on its way to it:
the chain of load events of its client followed by the inbox (`Road`), and the requests
its worker has to handle.  `LoadInv` is `LoadTypeOK` and, for every member, `Fits`.  A
hold comes before everything else of its attempt (`HoldFirst`).  Until a member has
reported its boundary the hold is the last it hears of (`Freezes`); afterwards no commit
waits anywhere before the load commits, and none behind a rollback once it is undone
(`Undoes`).  A prepared state has the copy of the present one beside it (`Copied`), so
that a committed one can be put back as long as the load lasts (`Undoable`), and
nobody has been told that it is over (`NotOver`).  A barrier is the last a member hears
of, and behind its request no commit waits, so a member that acknowledged it stays at
the state it answered for (`Barred`); this is where the epochs of barriers matter.  A
handler reduces to a few ways to change road and requests - what is taken away
(`Thins`), withdrawn (`Eased`), or appended (`MayHear`, `MayAsk`) - and each has one
lemma per part.  Each step of the coordinator also shows `Undone`: a load that it ends
undone is undone at the host and wherever a member answered.

**RoomEntry.**  `Agrees` (seats and sessions) holds inside the coordinator;
`Sides` and `Greetings` connect it with the tabs: a tab without a session, or with
one the coordinator forgot, is in no room and nothing is derived for it (`Bound`).
`Follows` describes what a handler leaves of the sessions: only the member it is for
enters a room.  For `CancelledStaysOut`, `Kind` says that no intent is both a
creation's and a join's: a tab numbers its requests as it sends them, and uses an
intent again only to repeat a creation.  `Memory` adds that a session's tombstones
are what was withdrawn from it, until there are more of these than the limit, and
that none of them has a seat; a cancellation finds the seat of its attempt because
`cancelCreate` names creations only and `leave` releases whatever its intent holds.
The code keeps 32 tombstones, the instance three; `CancelledStaysOut` speaks of
sessions that have withdrawn fewer than that.

For `ViewsAgree`, `Sight` says of every tab that what it has under way explains each
difference between what it shows and where it is.  `Linked` relates the two ends of
a socket: a tab asks for nothing before its hello was answered.  `Ties` orders what is
under way: requests are numbered as they are sent, no reply comes twice, creations are
answered in order, and the reply to an attempt that succeeded names its seat (`Awards`).
`Seen` then has three cases (`Claim`).  The last message that tells the tab where it is
names its seat, or there is none and it shows its seat already (`Shows`); the seat
will be given up, by a withdrawal on its way or by one the tab sends when it reads the
success of an attempt it does not want any more (`Undoing`); or the tab is out and will
not heed the notice (`Ignores`, which `blind` records).  `QuitsOK` and `QuitReplies` add
that a tab that quits has asked for nothing else, so that the answer leaves it nowhere.
All of it holds as long as no reply was lost, or mail that makes the lost attempt
obsolete is on its way (`Certain`).  The coordinator's steps are one lemma
(`DealtSights`), since each moves the tab in, out or nowhere and says so (`Moved`); what a
tab reads, sends or gives up has a lemma each.

**GameFiles.**  `Good` says that a file is the room's or that of an upload under way,
and that an upload with a lease has its entry unless that was discarded.  `Truth`
adds the wires: of the selections told to the host only the one being confirmed
can still be made, what begins one comes first, and the reply that is waited for is
true or comes after the end of the room.  For `GuestGetsTheGame`, `Served` says that
the file opened for a guest was confirmed, no earlier than what it asked about, and
that a guest still waiting expects the game the room had then.

**Voice.**  `Inv`: a request under way has nothing captured, and what runs is the
capture in force.  `SendersInv`: the last replacement in a bound sender's queue is
that of the capture in force; a sender that ends with another track is shown as
failed, or will be when its retry is over; replacements of a retry begin when those
of the capture are over.

**LocalProgress.**  `Kept`: every row is of the generation in force, and a write
that expects an older one is refused.  `Continued`: a machine holds what its session
read or writes nothing; what a tab had to save is in the record it reads, in the
write it waits for, or in one it was told has failed; a put continues the record it
expects.

Proving and reading again found faults of the models.  A host in `Timeline` that had frozen could
announce its pause although a player had given the game up meanwhile, which the
coordinator refuses (gameplay.ts:160); `HostHeld` now does what the code does.  A
member in `SharedLoad` could acknowledge a barrier with the answer to an earlier one;
the code compares the epoch (gameplay.ts:154, game-client.ts:183), and now the requests
and notices of a barrier carry it.  A hold there kept what a former attempt was
receiving, which the code cancels.  `RoomEntry` took a refused hello for an attached
socket, let a new session keep the tombstones of the old one, and did not mark the
join that a later join supersedes (room-client.ts:277) as unwanted.  `FailedLoadIsUndone` was stated of
every member that answered, which two loads refute: a host that lost the end of a
finished load goes back to it at the next stop, so only the members that joined this
load are at the session's state.

Only model-checked:

- liveness and everything with `ENABLED`: out of the prover's reach;
- `BudgetExact`, a sum over a set, since a fold is an induction over data.

## Findings

`returned_guest`: design/browser-nes-platform.md:57 allows 60 seconds to return, but a
heartbeat clears the deadline of a host only (rooms.ts:276).  A guest that was silent
for 30 seconds and then answers every heartbeat is removed when its old deadline
passes.

Other disagreements met while reading, without a run of their own:

- gameplay.ts:178 - a member that a role transaction makes an owner is none yet, so its
  `gameAbort` cancels only its transfer; the next acknowledgment of another owner finds
  no transfer left and `finishTransaction` (102) commits the roles, although
  implementation/five-slot-lobby.md:45 wants every proposed owner synchronized.
- gameplay.ts:180 - `stop()` in the middle of a role transaction leaves it `freezing` or
  `synchronizing` without transfer or deadline; Retry is refused because it never
  failed, and the host can only cancel it.
- gameplay.ts:250 - staging a load adds a transfer for a guest that may already have one
  for its controller (`capture` at 111 would not).  When the old one expires, the load
  is aborted.
- rooms.ts:183 - a controller owner is removed while a load rolls back: the slot is
  vacated, then `requestRoles` throws (gameplay.ts:85), and the controllers keep naming
  the member.
- rooms.ts:368 - a candidate expires after five minutes even while its replacement is
  committed: members were told `gameLoadFinish` (gameplay.ts:243) and the room then
  refuses the new cartridge (rooms.ts:258).
- gameplay.ts:282 - when a controller transfer expires during a load, the sweep returns
  early; the other timers wait for the next pass.
- rom-store.ts:93 - an upload that fails discards whatever pending entry its room has by
  then: one that was withdrawn and fails late takes the next selection's upload with it.
- player.ts:355 - quitting aborts an autosave whose export is under way and takes the
  aborted write for the last one: the progress since the save before is not written.
  player.ts:86-90 - taking a cartridge change back restores the old session with a failed
  write that was never shown.
- game-client.ts:197-201 - the host leases input to every link whose channel is open; a
  guest that is still testing the channel takes the packet for a failed test and hangs
  up.
- game-client.ts:49 - an observer that becomes a player while its synchronization is being
  confirmed ends synchronized and is sent no frame until it gives up and asks again.
- game-client.ts:237 - a guest short of the frame of a pause asks for the frozen state
  once.  If a transfer from before the pause is still open, the coordinator drops the
  request (gameplay.ts:111); when that transfer then stops without a checkpoint (168),
  the guest stays short of the frame, although implementation/host-immediate-input.md:50
  has a lagging participant replay to it or receive its checkpoint, and live recovery
  cancelled.  `PauseIsReached` excepts this guest (`Unheeded`) and no other.
- game-client.ts:171 - when the end of a finished load is lost with the host's socket, the
  next stop undoes the load on its machine.
- room-client.ts:104-110 - the reply to a join that was given up after eight seconds is
  dropped; the coordinator keeps the membership until the session shows it again.
- microphone.ts:49 - choosing another device while the browser asks shows a device that is
  not captured; choosing one after every peer left sets the phase `error` while the
  capture goes on.

## Not modelled

Operator interface, chat, contracts and validation, checkpoint chunks, the tab lock,
screens, the emulator, HTTP parsing, admission windows and deployment: input and
output, pure functions, or state nothing else depends on.  `PROJECT.json` says for
each component what is left out, and lists the hazards no property covers with the
reason.

## Plan

What was planned is modelled, checked and, but for the above, proved.  Next are the
hazards of `PROJECT.json` that no property covers yet.

## Running

    tlc -workers 2 -config play.cfg MCGameSession
    tlapm GameSessionProofs.tla

Runs take from 20 seconds to three minutes.
