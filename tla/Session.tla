------------------------------ MODULE Session ------------------------------
(***************************************************************************)
(* The private state of a room's GameSession and its methods.              *)
(*                                                                         *)
(* A handler of Rooms calls several of these methods on one object before  *)
(* it returns, so each method is an operator from a session record to the  *)
(* session record it leaves behind; GameSession.tla composes them into the *)
(* steps of the coordinator.  A method that throws before it changes       *)
(* anything has no value here: its guard is an operator of its own.        *)
(*                                                                         *)
(* Identifiers the code draws at random are kept only where a later        *)
(* decision compares them: epochs are numbered in the order they are       *)
(* issued.  Native state is a point: a completed frame and its hash.       *)
(***************************************************************************)
EXTENDS Naturals, FiniteSets

CONSTANTS
  Member,       \* membership identities a room may ever issue
  Host,         \* the membership that created the room
  Hash,         \* canonical state hashes the native cores may report
  MaxFrame,     \* highest completed frame a client reports
  None          \* an absent optional field

ASSUME SessionAssumption ==
  /\ Host \in Member
  /\ IsFiniteSet(Member)
  /\ None \notin Member
  /\ MaxFrame \in Nat

Seat == {"player1", "player2"}
Status == {"waiting", "starting", "countdown", "playing", "pausing", "paused",
           "resume_ready", "failed"}
Point == [frame : 0..MaxFrame, hash : Hash]

\* frame = 0 with an undefined hash: nothing native is known yet.
NoPoint == [frame |-> 0, hash |-> None]

Owner == Member \cup {None}
Assignment == [owners : [Seat -> Owner], revision : Nat]

View == [present : BOOLEAN, connected : BOOLEAN, loaded : BOOLEAN,
         hostTransport : BOOLEAN, allLinksReady : BOOLEAN]
Absent == [present |-> FALSE, connected |-> FALSE, loaded |-> FALSE,
           hostTransport |-> FALSE, allLinksReady |-> FALSE]

Offer == [point : Point, fresh : BOOLEAN, revision : Nat, roomRevision : Nat]

Purpose == {"controller", "live", "load"}
\* Nothing is sent before it was captured, and only an observer of a running
\* game catches up.
Transfer ==
  {t \in [recipient : Member, purpose : Purpose, epoch : Nat,
          point : Point \cup {None}, sending : BOOLEAN,
          catchingUp : BOOLEAN, boundary : Point \cup {None}] :
     /\ t.sending => t.point \in Point
     /\ t.catchingUp => t.purpose = "live"}

NoOffers == [m \in Member |-> None]

Pending == [revision : Nat, roles : SUBSET [slot : Nat, role : Seat \cup {"observer"}],
            status : {"freezing", "synchronizing", "failed"}]

Game == [cartridge : Nat, seats : 1..2]

Phase == {"freezing", "staging", "committing", "rolling_back"}
Load == [phase : Phase, epoch : Nat, target : Point, held : BOOLEAN,
         required : SUBSET Member, freezeRequired : SUBSET Member,
         initial : BOOLEAN, resume : BOOLEAN, revision : Nat,
         controllers : Nat, replacement : Game \cup {None},
         oldEpoch : Nat, oldPoint : Point \cup {NoPoint},
         boundaries : [Member -> Point \cup {None}],
         prepared : SUBSET Member, committed : SUBSET Member,
         rolledBack : SUBSET Member]

\* What is absent is not a load.
ASSUME NoneAssumption == None \notin Load

Prepare == [to : Member, epoch : Nat, hash : Hash]

\* Fields of the class, with state.* flattened; epoch 0 is an undefined epoch.
\* issued counts epochs drawn, sent holds the gamePrepare events sent so far,
\* and announced is the cartridge members were last told they now run.
SessionType ==
  [members : [Member -> View], offers : [Member -> Offer \cup {None}],
   acks : SUBSET Member, required : SUBSET Member, roomRevision : Nat,
   interruption : [epoch : Nat, controllers : Nat] \cup {None},
   restored : BOOLEAN, hasPlayed : BOOLEAN, transfers : SUBSET Transfer,
   point : Point \cup {NoPoint}, proposed : [Seat -> Owner] \cup {None},
   pending : Pending \cup {None}, load : Load \cup {None},
   controllers : Assignment, startRequested : BOOLEAN, status : Status,
   epoch : Nat, issued : Nat, sent : SUBSET Prepare, announced : Nat]


\* The assignment's distinct owners together with the host, who runs the
\* authoritative emulator whatever its role.
OwnersOf(owners) == {Host} \cup ({owners[s] : s \in Seat} \ {None})
Owners(g) == OwnersOf(g.controllers.owners)

Available(g, m) ==
  /\ g.members[m].connected
  /\ g.members[m].loaded
  /\ IF g.hasPlayed
       THEN m = Host \/ g.members[m].hostTransport
       ELSE g.members[m].allLinksReady

\* Every controller owner offered its state for this roster and assignment.
InitialReady(g) ==
  /\ g.members[Host].present
  /\ \A m \in Owners(g) :
       /\ Available(g, m)
       /\ g.offers[m] # None
       /\ g.offers[m].revision = g.controllers.revision
       /\ g.offers[m].roomRevision = g.roomRevision

\* The interrupted timeline the host may replace with a recovered one.
RecoveryOpen(g) ==
  /\ g.interruption # None
  /\ g.interruption.epoch = g.epoch
  /\ g.interruption.controllers = g.controllers.revision
  /\ g.status = "failed"
  /\ g.pending = None
  /\ g.load = None

LoadMembers(load) == load.freezeRequired \cup load.required

-----------------------------------------------------------------------------
(* Aborting and rolling back a coordinated load *)

FinishLoadRollback(g, timedOut) ==
  IF /\ g.load # None
     /\ g.load.phase = "rolling_back"
     /\ Host \in g.load.rolledBack
     /\ \/ timedOut
        \/ \A m \in LoadMembers(g.load) :
             g.members[m].connected => m \in g.load.rolledBack
    THEN [g EXCEPT !.point = g.load.oldPoint, !.epoch = g.load.oldEpoch,
                   !.status = IF g.load.initial THEN "waiting" ELSE "paused",
                   !.startRequested = FALSE, !.load = None]
    ELSE g

\* A mutation: members that never reported a boundary are waited for too.
AbortLoadUnmarked(g) ==
  IF g.load = None \/ g.load.phase = "rolling_back" THEN g
  ELSE [g EXCEPT !.transfers = {}, !.offers = NoOffers, !.acks = {},
                 !.status = IF g.load.initial THEN "waiting" ELSE "paused",
                 !.load.phase = "rolling_back"]

\* Members that never reported a boundary have nothing to roll back.
AbortLoad(g) ==
  IF g.load = None \/ g.load.phase = "rolling_back" THEN g
  ELSE FinishLoadRollback(
    [g EXCEPT !.transfers = {}, !.offers = NoOffers, !.acks = {},
              !.status = IF g.load.initial THEN "waiting" ELSE "paused",
              !.load.phase = "rolling_back",
              !.load.rolledBack = @ \cup
                {m \in LoadMembers(g.load) : g.load.boundaries[m] = None}],
    FALSE)

Stop(g, status) ==
  IF g.load # None THEN AbortLoad(g)
  ELSE [g EXCEPT !.transfers = {}, !.offers = NoOffers, !.acks = {},
                 !.status = status, !.startRequested = FALSE]

-----------------------------------------------------------------------------
(* Barriers *)

BeginAt(g, point, epoch) ==
  [g EXCEPT !.transfers = {}, !.point = point, !.required = Owners(g),
            !.acks = {}, !.status = "starting", !.epoch = epoch,
            !.sent = @ \cup {[to |-> m, epoch |-> epoch, hash |-> point.hash]
                               : m \in Owners(g)}]

\* A mutation: a barrier of a running timeline keeps its epoch.
BeginAgain(g, point) ==
  LET epoch == IF g.epoch = 0 THEN g.issued + 1 ELSE g.epoch
  IN  [BeginAt(g, point, epoch) EXCEPT !.issued = IF @ < epoch THEN epoch ELSE @]
\* begin() with a newly drawn epoch.
Begin(g, point) ==
  [BeginAt(g, point, g.issued + 1) EXCEPT !.issued = g.issued + 1]

\* The host alone is asked for its last completed frame.
Freeze(g) ==
  [g EXCEPT !.transfers = IF g.pending # None THEN {} ELSE @,
            !.offers = NoOffers, !.acks = {}, !.status = "pausing"]

-----------------------------------------------------------------------------
(* Checkpoint transfers *)

\* Both ends repeat the epoch of the capture request in their commands.
NewTransfer(m, purpose, epoch) ==
  [recipient |-> m, purpose |-> purpose, epoch |-> epoch, point |-> None,
   sending |-> FALSE, catchingUp |-> FALSE, boundary |-> None]

\* A recipient that already has a transfer keeps that one.
Capture(g, members, purpose) ==
  LET idle == {m \in members : \A t \in g.transfers : t.recipient # m}
  IN  [g EXCEPT !.transfers = @ \cup {NewTransfer(m, purpose, g.epoch) : m \in idle}]

\* The owners' offers differ from a fresh common machine.
InitialMismatch(g) ==
  \E m \in Owners(g) :
    \/ ~g.offers[m].fresh
    \/ g.offers[m].point.frame # 0
    \/ g.offers[m].point.hash # g.offers[Host].point.hash

\* Before the first play the owners begin from equal fresh machines.
PrepareInitial(g) ==
  CASE ~g.startRequested /\ g.epoch = 0 -> g
    [] g.startRequested \/ g.epoch # 0 ->
         IF InitialMismatch(g) THEN Stop(g, "failed")
                               ELSE Begin(g, g.offers[Host].point)

\* Afterwards the host's paused point is the authority, and an owner at
\* another point is sent a checkpoint first.
PrepareResume(g) ==
  LET authority == g.offers[Host].point
      agreed    == [g EXCEPT !.point = authority]
      differing == {m \in Owners(g) : g.offers[m].point # authority}
  IN  CASE \E t \in g.transfers : t.purpose = "controller" -> g
        [] \A t \in g.transfers : t.purpose # "controller" ->
             IF differing # {} THEN Capture(agreed, differing, "controller")
                               ELSE [agreed EXCEPT !.status = "resume_ready"]

OwnersOffered(g) == \A m \in Owners(g) : g.offers[m] # None /\ Available(g, m)

PrepareIfReady(g) ==
  CASE \/ g.pending # None \/ g.load # None \/ ~OwnersOffered(g)
       \/ ~g.hasPlayed /\ g.startRequested /\ ~InitialReady(g) -> g
    [] OTHER -> IF g.hasPlayed THEN PrepareResume(g) ELSE PrepareInitial(g)

-----------------------------------------------------------------------------
(* Role transactions *)

\* A mutation: a transaction that could not freeze goes on freezing.
FailTransactionAgain(g) ==
  [g EXCEPT !.transfers = {}, !.offers = NoOffers,
            !.status = IF @ = "pausing" THEN @ ELSE "paused",
            !.pending = CASE @ = None -> None
                          [] @ # None /\ @.status = "failed" ->
                               [@ EXCEPT !.status = "freezing"]
                          [] @ # None /\ @.status # "failed" ->
                               [@ EXCEPT !.status = "failed"]]
FailTransaction(g) ==
  [g EXCEPT !.transfers = {}, !.offers = NoOffers, !.status = "paused",
            !.pending = IF @ = None THEN None
                        ELSE [@ EXCEPT !.status = "failed"]]

CanRequestRoles(g) == g.load = None /\ g.pending = None /\ g.epoch # 0

\* owners is the assignment the transaction proposes; it replaces the
\* committed one only in FinishTransaction.
RequestRoles(g, pending, owners) ==
  LET asked == [g EXCEPT !.pending = pending, !.proposed = owners]
  IN  IF g.status = "pausing" THEN asked ELSE Freeze(asked)

DropRoles(g) == Stop([g EXCEPT !.pending = None, !.proposed = None], "paused")

AbortRoles(g) == IF g.pending = None THEN g ELSE DropRoles(g)

RetryRoles(g, revision, owners) ==
  Freeze([g EXCEPT !.pending.revision = revision,
                   !.pending.status = "freezing", !.proposed = owners])

\* Every proposed owner is synchronized and nothing else is in transfer.
TransactionDue(g) ==
  /\ g.pending # None
  /\ g.pending.status = "synchronizing"
  /\ g.transfers = {}

ProposedAvailable(g) == \A m \in OwnersOf(g.proposed) : Available(g, m)

\* commitRoles refuses when the roster moved on since the request.
Commits(g, roomRevision) ==
  /\ TransactionDue(g)
  /\ ProposedAvailable(g)
  /\ g.pending.revision = roomRevision

\* controllers is what the room's applyRoles returns when it commits.
FinishTransaction(g, roomRevision, controllers) ==
  CASE ~TransactionDue(g) -> g
    [] TransactionDue(g) /\ ~Commits(g, roomRevision) -> FailTransaction(g)
    [] Commits(g, roomRevision) ->
       LET done == [g EXCEPT !.controllers = controllers, !.pending = None,
                             !.proposed = None]
       IN  IF g.restored
             THEN [done EXCEPT !.offers = NoOffers, !.status = "paused"]
             ELSE Begin(done, g.point)
-----------------------------------------------------------------------------
(* configure(): the room published its roster, links or assignment *)

\* A mutation: an offer outlives the roster and assignment it was made for.
KeepAvailableOffers(g, roomRevision) ==
  IF g.epoch # 0 THEN g
  ELSE [g EXCEPT !.offers = [m \in Member |->
         IF Available(g, m) THEN g.offers[m] ELSE None]]
\* Before the first epoch an offer stands only for the roster, assignment and
\* availability it was made under.
KeepCurrentOffers(g, roomRevision) ==
  IF g.epoch # 0 THEN g
  ELSE [g EXCEPT !.offers = [m \in Member |->
         IF /\ roomRevision = g.roomRevision
            /\ Available(g, m)
            /\ g.offers[m] # None
            /\ g.offers[m].revision = g.controllers.revision
            /\ g.offers[m].roomRevision = roomRevision
           THEN g.offers[m] ELSE None]]

\* The host lost its connection while it held a played timeline.
HostLost(g, members) ==
  /\ g.hasPlayed
  /\ g.epoch # 0
  /\ g.members[Host].connected
  /\ ~members[Host].connected

TakeRoster(g, members, controllers) ==
  [g EXCEPT !.members = members,
            !.interruption = IF HostLost(g, members)
              THEN [epoch |-> g.epoch, controllers |-> g.controllers.revision]
              ELSE @,
            !.controllers = IF g.pending = None THEN controllers ELSE @]

LoadDisturbed(g, controllers) ==
  /\ g.load # None
  /\ g.load.phase # "rolling_back"
  /\ \/ g.load.revision # g.roomRevision
     \/ g.load.controllers # controllers.revision
     \/ \E m \in LoadMembers(g.load) : ~Available(g, m)

\* A member left, or lost its connection or its link to the host.
RosterShrank(old, new) ==
  \E m \in Member :
    \/ old[m].present /\ ~new[m].present
    \/ old[m].connected /\ ~new[m].connected
    \/ old[m].hostTransport /\ ~new[m].hostTransport

StopUnpreparedCountdown(g) ==
  IF g.status = "countdown" /\ ~g.hasPlayed /\ ~InitialReady(g)
    THEN Stop(g, "paused") ELSE g

\* A mutation: only the acknowledgment phase is watched.
StopUnavailableStart(g) ==
  IF /\ g.status = "starting"
     /\ \E m \in g.required : ~Available(g, m)
    THEN Stop(g, "paused") ELSE g
StopUnavailableBarrier(g) ==
  IF /\ g.status \in {"starting", "countdown"}
     /\ \E m \in g.required : ~Available(g, m)
    THEN Stop(g, "paused") ELSE g

FreezeForHost(g, hostLost) ==
  IF \/ g.status = "playing" /\ ~Available(g, Host)
     \/ /\ hostLost /\ g.load = None /\ g.pending = None
        /\ g.status \in {"paused", "failed", "resume_ready"}
    THEN Freeze(g) ELSE g

\* A mutation: a recipient that lost only its link to the host is kept.
DeliverableOnline(g, t) == g.members[t.recipient].connected
Deliverable(g, t) == Available(g, t.recipient)

Configure(g, members, controllers, roomRevision) ==
  LET taken   == TakeRoster(g, members, controllers)
      offered == [KeepCurrentOffers(taken, roomRevision)
                    EXCEPT !.roomRevision = roomRevision]
      loading == IF LoadDisturbed(offered, controllers)
                   THEN AbortLoad(offered) ELSE offered
      counted == StopUnpreparedCountdown(loading)
      linked  == [counted EXCEPT !.transfers =
                    {t \in @ : Deliverable(counted, t)}]
      roles   == IF /\ linked.pending # None
                    /\ \/ RosterShrank(g.members, members)
                       \/ linked.pending.revision # roomRevision
                   THEN FailTransaction(linked) ELSE linked
  IN  FreezeForHost(StopUnavailableBarrier(roles), HostLost(g, members))
-----------------------------------------------------------------------------
(* Coordinated load of saved progress or of a replacement cartridge *)

\* A mutation: the status is not checked.
CanProposeAnytime(g) ==
  /\ g.load = None
  /\ g.pending = None
  /\ \A t \in g.transfers : t.purpose = "live"
  /\ \A m \in Owners(g) : Available(g, m)

\* handleLoad's checks on gameLoadPropose, for a command that names the
\* current revisions.
CanPropose(g) ==
  /\ g.load = None
  /\ g.pending = None
  /\ \A t \in g.transfers : t.purpose = "live"
  /\ g.status \in {"waiting", "playing", "paused", "resume_ready", "failed"}
  /\ \A m \in Owners(g) : Available(g, m)

\* A running game is frozen first; otherwise members are told to hold at once.
ProposeLoad(g, target, replacement, owners) ==
  LET running == g.status = "playing"
      load == [phase |-> "freezing", epoch |-> g.issued + 1, target |-> target,
               held |-> ~running, required |-> OwnersOf(owners),
               freezeRequired |-> Owners(g), initial |-> g.epoch = 0,
               resume |-> running, revision |-> g.roomRevision,
               controllers |-> g.controllers.revision,
               replacement |-> replacement, oldEpoch |-> g.epoch,
               oldPoint |-> g.point,
               boundaries |-> [m \in Member |-> None],
               prepared |-> {}, committed |-> {}, rolledBack |-> {}]
      proposed == [g EXCEPT !.transfers = {}, !.load = load, !.offers = NoOffers,
                            !.issued = g.issued + 1]
  IN  IF running THEN Freeze(proposed) ELSE proposed

\* A mutation: a guest that is already being sent a checkpoint is skipped.
StageLoadOnce(g) ==
  LET staged == [g EXCEPT !.load.phase = "staging",
                          !.status = IF g.load.initial THEN "waiting" ELSE "paused"]
      idle   == {m \in g.load.required \ {Host} :
                   \A t \in g.transfers : t.recipient # m}
  IN  [staged EXCEPT !.transfers = @ \cup
         {NewTransfer(m, "load", g.load.epoch) : m \in idle}]
\* Every guest that will run the loaded state is sent it as a checkpoint.
StageLoad(g) ==
  [g EXCEPT !.load.phase = "staging",
            !.status = IF g.load.initial THEN "waiting" ELSE "paused",
            !.transfers = @ \cup {NewTransfer(m, "load", g.load.epoch)
                                    : m \in g.load.required \ {Host}}]

LoadBoundary(g, m, point) ==
  IF /\ ~g.load.initial
     /\ m \in g.load.freezeRequired
     /\ point # g.load.oldPoint
    THEN AbortLoad(g)
    ELSE LET reported == [g EXCEPT !.load.boundaries[m] = point,
                                   !.load.oldPoint = IF m = Host THEN point ELSE @]
         IN  IF \A x \in LoadMembers(g.load) : reported.load.boundaries[x] # None
               THEN StageLoad(reported) ELSE reported

LoadPrepared(g, m) ==
  LET prepared == g.load.prepared \cup {m}
  IN  [g EXCEPT !.load.prepared = prepared,
                !.load.phase = IF g.load.required \subseteq prepared
                                 THEN "committing" ELSE @]

\* A mutation: the host's commitment is enough.
HostComplete(g, m) == m = Host
LoadComplete(g, m) == g.load.required \subseteq g.load.committed \cup {m}

\* The last commitment of a load that keeps the cartridge.
FinishLoad(g) ==
  LET done == [g EXCEPT !.load = None, !.hasPlayed = TRUE]
  IN  IF g.load.resume
        THEN BeginAt(done, g.load.target, g.load.epoch)
        ELSE [done EXCEPT !.point = g.load.target, !.epoch = g.load.epoch,
                          !.status = "resume_ready", !.startRequested = FALSE]

\* The last commitment of a replacement: gameLoadFinish goes out and the load
\* is forgotten before the room is asked to commit.
AnnounceReplacement(g) ==
  [g EXCEPT !.load = None, !.announced = g.load.replacement.cartridge]

\* The session after the room committed the replacement.
ReplaceGame(g, controllers) ==
  [g EXCEPT !.controllers = controllers, !.offers = NoOffers, !.acks = {},
            !.transfers = {}, !.hasPlayed = FALSE, !.interruption = None,
            !.point = NoPoint, !.status = "waiting", !.startRequested = FALSE,
            !.epoch = 0, !.pending = None]

LoadRolledBack(g, m) ==
  FinishLoadRollback([g EXCEPT !.load.rolledBack = @ \cup {m}], FALSE)

=============================================================================
