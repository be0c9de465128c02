------------------------- MODULE GameSessionProofs -------------------------
(***************************************************************************)
(* For every number of members, slots, hashes and frames: the coordinator's*)
(* state keeps its shape; no game starts on anything but fresh, exact      *)
(* acknowledgments of all its controller owners; a session in service and  *)
(* its room agree; the offers and the load in progress fit the timeline;   *)
(* every load ends prepared and committed by all, or undone; and an        *)
(* assignment changes only with the roster, a proposal or the cartridge.   *)
(*                                                                         *)
(* The first part is about Session, method by method: the shape of the     *)
(* record it returns, the anchors of its timeline and of the load in       *)
(* progress and the acknowledgments a start rests on (Sound), the offers,  *)
(* the staging of a load and the terms a session is held to (Coherent),    *)
(* and what it tells its clients of the ends of loads and of assignments.  *)
(* A proof first types the record the method returns and then follows the  *)
(* few fields the invariant reads.  The second part is about Roster: rooms,*)
(* their revisions and the views that the session is configured from.  The *)
(* last part puts these together for the actions of GameSession.           *)
(***************************************************************************)
EXTENDS GameSession, FiniteSetTheorems, TLAPS

Running == {"starting", "countdown", "playing"}

\* A timeline has a known point; without one nothing runs and nothing about it
\* is pending.
Anchored(g) ==
  /\ g.epoch # 0 => g.point \in Point
  /\ g.epoch = 0 => /\ g.status \in {"waiting", "paused", "failed"}
                    /\ g.pending = None
                    /\ ~g.hasPlayed
  /\ g.pending # None => g.proposed \in [Seat -> Owner]

\* A load knows the timeline it may have to return to.
LoadAnchored(g) ==
  g.load # None =>
    /\ g.pending = None
    /\ g.epoch = g.load.oldEpoch
    /\ g.load.epoch # 0
    /\ g.load.initial <=> g.load.oldEpoch = 0
    /\ g.load.oldEpoch # 0 => g.load.oldPoint \in Point

\* A holds what members confirmed; a running session has no controller to
\* synchronize.
Acked(g, A) ==
  /\ g.status = "starting" =>
       \A m \in g.acks : [from |-> m, epoch |-> g.epoch, hash |-> g.point.hash] \in A
  /\ g.status \in {"countdown", "playing"} =>
       \A m \in g.required : [from |-> m, epoch |-> g.epoch, hash |-> g.point.hash] \in A
  /\ g.status \in Running => \A t \in g.transfers : t.purpose # "controller"

Sound(g, A) == Anchored(g) /\ LoadAnchored(g) /\ Acked(g, A)

-----------------------------------------------------------------------------
(* Typing of the records the methods build *)

\* No offers is a value of the offers field.
LEMMA NoOffersType == NoOffers \in [Member -> Offer \cup {None}]
  BY DEF NoOffers

\* The frame and the hash of a point.
LEMMA PointFields == ASSUME NEW p \in Point PROVE p.hash \in Hash /\ p.frame \in 0..MaxFrame
  BY DEF Point

\* The owners an assignment names, with the host, are members.
LEMMA OwnersOfType ==
  ASSUME NEW owners \in [Seat -> Owner]
  PROVE  OwnersOf(owners) \in SUBSET Member
  BY SessionAssumption DEF OwnersOf, Owner

\* The session's current controller owners are members.
LEMMA OwnersType ==
  ASSUME NEW g \in SessionType
  PROVE  Owners(g) \in SUBSET Member
BY OwnersOfType DEF SessionType, Assignment, Owners

\* A load in progress is a load, and the members it involves are members.
LEMMA LoadType ==
  ASSUME NEW g \in SessionType, g.load # None
  PROVE  /\ g.load \in Load
         /\ LoadMembers(g.load) \in SUBSET Member
BY DEF SessionType, Load, LoadMembers

\* Updates of a few fields at a time.
LEMMA StatusType ==
  ASSUME NEW g \in SessionType, NEW status \in Status
  PROVE  [g EXCEPT !.status = status] \in SessionType
  BY DEF SessionType

\* The fields stop() sets leave a session.
LEMMA StoppedType ==
  ASSUME NEW g \in SessionType, NEW status \in Status
  PROVE  [g EXCEPT !.transfers = {}, !.offers = NoOffers, !.acks = {},
                   !.status = status, !.startRequested = FALSE] \in SessionType
  BY DEF SessionType, NoOffers

\* Another load leaves a session.
LEMMA WithLoadType ==
  ASSUME NEW g \in SessionType, NEW load \in Load \cup {None}
  PROVE  [g EXCEPT !.load = load] \in SessionType
  BY DEF SessionType

-----------------------------------------------------------------------------
(* Aborting and rolling back a load *)

\* The fields finishLoadRollback() sets leave a session.
LEMMA RestoredType ==
  ASSUME NEW g \in SessionType, NEW point \in Point \cup {NoPoint},
         NEW epoch \in Nat, NEW status \in Status
  PROVE  [g EXCEPT !.point = point, !.epoch = epoch, !.status = status,
                   !.startRequested = FALSE, !.load = None] \in SessionType
  BY DEF SessionType

\* finishLoadRollback() returns to the timeline the load left, which is known.
LEMMA FinishLoadRollbackSound ==
  ASSUME NEW A, NEW g \in SessionType, Sound(g, A), NEW timedOut \in BOOLEAN
  PROVE  /\ FinishLoadRollback(g, timedOut) \in SessionType
         /\ Sound(FinishLoadRollback(g, timedOut), A)
  <1> DEFINE f == FinishLoadRollback(g, timedOut)
             h == [g EXCEPT !.point = g.load.oldPoint, !.epoch = g.load.oldEpoch,
                            !.status = IF g.load.initial THEN "waiting" ELSE "paused",
                            !.startRequested = FALSE, !.load = None]
  <1>1. CASE g.load # None /\ f = h
    <2>1. h \in SessionType BY <1>1, LoadType, RestoredType DEF Load, Status
    <2>2. /\ h.point = g.load.oldPoint /\ h.epoch = g.load.oldEpoch /\ h.load = None
          /\ h.status = IF g.load.initial THEN "waiting" ELSE "paused"
          /\ h.pending = g.pending /\ h.proposed = g.proposed /\ h.hasPlayed = g.hasPlayed
      BY DEF SessionType
    <2>3. Anchored(h) BY <1>1, <2>2 DEF Sound, Anchored, LoadAnchored
    <2>4. LoadAnchored(h) /\ Acked(h, A) BY <2>2 DEF LoadAnchored, Acked, Running
    <2> QED BY <1>1, <2>1, <2>3, <2>4 DEF Sound
  <1>2. CASE f = g BY <1>2
  <1> QED BY <1>1, <1>2 DEF FinishLoadRollback

-----------------------------------------------------------------------------
(* A session at rest, and one that goes on as it was *)

\* A session that comes to rest on the timeline it had is sound.
LEMMA RestingSound ==
  ASSUME NEW A, NEW g \in SessionType, NEW h \in SessionType, Sound(g, A),
         h.status \in {"waiting", "paused", "failed"},
         h.epoch = g.epoch, h.point = g.point, h.load = g.load \/ h.load = None,
         h.pending = g.pending \/ h.pending = None,
         h.pending # None => h.proposed = g.proposed,
         h.hasPlayed = g.hasPlayed
  PROVE  Sound(h, A)
  BY DEF Sound, Anchored, LoadAnchored, Acked, Running

\* A session that goes on as it was, with no controller to synchronize that it
\* did not have before, is sound.
LEMMA GoingOnSound ==
  ASSUME NEW A, NEW g \in SessionType, NEW h \in SessionType, Sound(g, A),
         h.status = g.status, h.epoch = g.epoch, h.point = g.point,
         h.load = g.load \/ h.load = None,
         h.pending = g.pending \/ h.pending = None,
         h.pending # None => h.proposed = g.proposed,
         h.hasPlayed = g.hasPlayed, h.required = g.required,
         h.acks \subseteq g.acks,
         \A t \in h.transfers : t \in g.transfers \/ t.purpose # "controller"
  PROVE  Sound(h, A)
  BY DEF Sound, Anchored, LoadAnchored, Acked, Running

\* The fields abortLoad() sets leave a session.
LEMMA AbortedType ==
  ASSUME NEW g \in SessionType, NEW status \in Status, NEW load \in Load
  PROVE  [g EXCEPT !.transfers = {}, !.offers = NoOffers, !.acks = {},
                   !.status = status, !.load = load] \in SessionType
  BY DEF SessionType, NoOffers

\* A load that starts rolling back is a load.
LEMMA LoadUpdate ==
  ASSUME NEW load \in Load, NEW members \in SUBSET Member
  PROVE  [load EXCEPT !.phase = "rolling_back", !.rolledBack = @ \cup members] \in Load
  BY DEF Load, Phase

\* abortLoad(), rolled back at once or not, preserves the invariant of the session.
LEMMA AbortLoadSound ==
  ASSUME NEW A, NEW g \in SessionType, Sound(g, A)
  PROVE  AbortLoad(g) \in SessionType /\ Sound(AbortLoad(g), A)
  <1>1. CASE g.load = None \/ g.load.phase = "rolling_back" BY <1>1 DEF AbortLoad
  <1>2. CASE g.load # None /\ g.load.phase # "rolling_back"
    <2> DEFINE status == IF g.load.initial THEN "waiting" ELSE "paused"
               unmarked == {m \in LoadMembers(g.load) : g.load.boundaries[m] = None}
               l == [g.load EXCEPT !.phase = "rolling_back", !.rolledBack = @ \cup unmarked]
               h == [g EXCEPT !.transfers = {}, !.offers = NoOffers, !.acks = {},
                              !.status = status, !.load = l]
    <2>1. l \in Load BY <1>2, LoadType, LoadUpdate
    <2>2. status \in Status BY DEF Status
    <2>3. h \in SessionType BY <2>1, <2>2, AbortedType
    <2>4. AbortLoad(g) = FinishLoadRollback(h, FALSE) BY <1>2 DEF AbortLoad, SessionType
    <2>5. Sound(h, A)
      <3>1. /\ h.status = status /\ h.epoch = g.epoch /\ h.point = g.point
            /\ h.pending = g.pending /\ h.proposed = g.proposed
            /\ h.hasPlayed = g.hasPlayed /\ h.load = l
        BY DEF SessionType
      <3>2. /\ l.oldEpoch = g.load.oldEpoch /\ l.epoch = g.load.epoch
            /\ l.initial = g.load.initial /\ l.oldPoint = g.load.oldPoint
        BY <1>2, LoadType DEF Load
      <3>3. Anchored(h) /\ LoadAnchored(h)
        <4> HIDE DEF h, l
        <4> QED BY <1>2, <3>1, <3>2 DEF Sound, Anchored, LoadAnchored
      <3>4. Acked(h, A)
        <4> HIDE DEF h, l
        <4> QED BY <3>1 DEF Acked, Running
      <3> QED BY <3>3, <3>4 DEF Sound
    <2> QED BY <2>3, <2>4, <2>5, FinishLoadRollbackSound
  <1> QED BY <1>1, <1>2

\* stop() preserves the invariant of the session, with a load or without.
LEMMA StopSound ==
  ASSUME NEW A, NEW g \in SessionType, Sound(g, A), NEW status \in {"paused", "failed"}
  PROVE  Stop(g, status) \in SessionType /\ Sound(Stop(g, status), A)
  <1> DEFINE h == [g EXCEPT !.transfers = {}, !.offers = NoOffers, !.acks = {},
                            !.status = status, !.startRequested = FALSE]
  <1>1. CASE g.load # None BY <1>1, AbortLoadSound DEF Stop
  <1>2. CASE g.load = None
    <2>1. h \in SessionType BY StoppedType DEF Status
    <2>2. /\ h.status = status /\ h.epoch = g.epoch /\ h.point = g.point
          /\ h.load = g.load /\ h.pending = g.pending /\ h.proposed = g.proposed
          /\ h.hasPlayed = g.hasPlayed
      BY DEF SessionType
    <2>3. Sound(h, A) BY <2>1, <2>2, RestingSound
    <2> QED BY <1>2, <2>1, <2>3 DEF Stop
  <1> QED BY <1>1, <1>2

-----------------------------------------------------------------------------
(* Barriers and checkpoint transfers *)

\* The fields begin() sets leave a session.
LEMMA BegunType ==
  ASSUME NEW g \in SessionType, NEW point \in Point, NEW epoch \in Nat,
         NEW required \in SUBSET Member, NEW sent \in SUBSET Prepare
  PROVE  [g EXCEPT !.transfers = {}, !.point = point, !.required = required,
                   !.acks = {}, !.status = "starting", !.epoch = epoch,
                   !.sent = sent] \in SessionType
  BY DEF SessionType, Status

\* begin() at a known point and a real epoch starts with no acknowledgment and no
\* transfer, whatever the session was before.
LEMMA BeginAtSound ==
  ASSUME NEW A, NEW g \in SessionType, NEW point \in Point, NEW epoch \in Nat,
         g.load = None, epoch # 0, g.pending # None => g.proposed \in [Seat -> Owner]
  PROVE  BeginAt(g, point, epoch) \in SessionType /\ Sound(BeginAt(g, point, epoch), A)
  <1> DEFINE sent == g.sent \cup {[to |-> m, epoch |-> epoch, hash |-> point.hash]
                                    : m \in Owners(g)}
             h == [g EXCEPT !.transfers = {}, !.point = point, !.required = Owners(g),
                            !.acks = {}, !.status = "starting", !.epoch = epoch,
                            !.sent = sent]
  <1>1. BeginAt(g, point, epoch) = h BY DEF BeginAt
  <1>2. sent \in SUBSET Prepare BY OwnersType, PointFields DEF SessionType, Prepare
  <1>3. h \in SessionType BY <1>2, OwnersType, BegunType
  <1>4. /\ h.transfers = {} /\ h.acks = {} /\ h.point = point /\ h.epoch = epoch
        /\ h.load = g.load /\ h.pending = g.pending /\ h.proposed = g.proposed
        /\ h.status = "starting"
    BY DEF SessionType
  <1>5. Sound(h, A)
    <2> HIDE DEF h
    <2> QED BY <1>4 DEF Sound, Anchored, LoadAnchored, Acked
  <1> QED BY <1>1, <1>3, <1>5

\* Another number of issued epochs leaves a session.
LEMMA IssuedType ==
  ASSUME NEW g \in SessionType, NEW issued \in Nat
  PROVE  [g EXCEPT !.issued = issued] \in SessionType
  BY DEF SessionType

\* begin() under a newly drawn epoch preserves the invariant of the session.
LEMMA BeginSound ==
  ASSUME NEW A, NEW g \in SessionType, NEW point \in Point, g.load = None, Sound(g, A)
  PROVE  Begin(g, point) \in SessionType /\ Sound(Begin(g, point), A)
  <1> DEFINE b == BeginAt(g, point, g.issued + 1)
             h == [b EXCEPT !.issued = g.issued + 1]
  <1>1. g.issued \in Nat BY DEF SessionType
  <1>2. b \in SessionType /\ Sound(b, A)
    <2>1. g.pending # None => g.proposed \in [Seat -> Owner] BY DEF Sound, Anchored
    <2> QED BY <1>1, <2>1, BeginAtSound
  <1>3. h \in SessionType
    <2> HIDE DEF b
    <2> QED BY <1>1, <1>2, IssuedType
  <1>4. Sound(h, A)
    <2> HIDE DEF b
    <2>1. /\ h.status = b.status /\ h.epoch = b.epoch /\ h.point = b.point
          /\ h.load = b.load /\ h.pending = b.pending /\ h.proposed = b.proposed
          /\ h.hasPlayed = b.hasPlayed /\ h.required = b.required
          /\ h.acks = b.acks /\ h.transfers = b.transfers
      BY <1>2 DEF SessionType
    <2> HIDE DEF h
    <2> QED BY <1>2, <1>3, <2>1, GoingOnSound
  <1> QED BY <1>3, <1>4 DEF Begin

\* The fields freeze() sets leave a session.
LEMMA FrozenType ==
  ASSUME NEW g \in SessionType, NEW transfers \in SUBSET Transfer
  PROVE  [g EXCEPT !.transfers = transfers, !.offers = NoOffers, !.acks = {},
                   !.status = "pausing"] \in SessionType
  BY DEF SessionType, Status, NoOffers

\* freeze() of an existing timeline preserves the invariant of the session.
LEMMA FreezeSound ==
  ASSUME NEW A, NEW g \in SessionType, Sound(g, A), g.epoch # 0
  PROVE  Freeze(g) \in SessionType /\ Sound(Freeze(g), A)
  <1> DEFINE transfers == IF g.pending # None THEN {} ELSE g.transfers
             h == [g EXCEPT !.transfers = transfers, !.offers = NoOffers,
                            !.acks = {}, !.status = "pausing"]
  <1>1. Freeze(g) = h BY DEF Freeze
  <1>2. transfers \in SUBSET Transfer BY DEF SessionType
  <1>3. h \in SessionType BY <1>2, FrozenType
  <1>4. /\ h.status = "pausing" /\ h.epoch = g.epoch /\ h.point = g.point
        /\ h.load = g.load /\ h.pending = g.pending /\ h.proposed = g.proposed
    BY DEF SessionType
  <1>5. Sound(h, A)
    <2> HIDE DEF h
    <2> QED BY <1>4 DEF Sound, Anchored, LoadAnchored, Acked, Running
  <1> QED BY <1>1, <1>3, <1>5

\* Other transfers leave a session.
LEMMA TransfersType ==
  ASSUME NEW g \in SessionType, NEW transfers \in SUBSET Transfer
  PROVE  [g EXCEPT !.transfers = transfers] \in SessionType
  BY DEF SessionType

\* Dropping or adding transfers, but no controller's while the session runs.
LEMMA TransfersSound ==
  ASSUME NEW A, NEW g \in SessionType, Sound(g, A), NEW transfers \in SUBSET Transfer,
         \/ g.status \notin Running
         \/ \A t \in transfers : t \in g.transfers \/ t.purpose # "controller"
  PROVE  /\ [g EXCEPT !.transfers = transfers] \in SessionType
         /\ Sound([g EXCEPT !.transfers = transfers], A)
  <1> DEFINE h == [g EXCEPT !.transfers = transfers]
  <1>1. h \in SessionType BY TransfersType
  <1>2. /\ h.status = g.status /\ h.epoch = g.epoch /\ h.point = g.point
        /\ h.load = g.load /\ h.pending = g.pending /\ h.proposed = g.proposed
        /\ h.hasPlayed = g.hasPlayed /\ h.required = g.required
        /\ h.acks = g.acks /\ h.transfers = transfers
    BY DEF SessionType
  <1>3. Sound(h, A)
    <2> HIDE DEF h
    <2> QED BY <1>2 DEF Sound, Anchored, LoadAnchored, Acked, Running
  <1> QED BY <1>1, <1>3

\* capture() makes transfers of the purpose it is asked for.
LEMMA NewTransferType ==
  ASSUME NEW m \in Member, NEW purpose \in Purpose, NEW epoch \in Nat
  PROVE  /\ NewTransfer(m, purpose, epoch) \in Transfer
         /\ NewTransfer(m, purpose, epoch).purpose = purpose
  BY DEF NewTransfer, Transfer

\* capture() preserves the invariant, for a controller only while nothing runs.
LEMMA CaptureSound ==
  ASSUME NEW A, NEW g \in SessionType, Sound(g, A), NEW members \in SUBSET Member,
         NEW purpose \in Purpose, purpose # "controller" \/ g.status \notin Running
  PROVE  Capture(g, members, purpose) \in SessionType /\ Sound(Capture(g, members, purpose), A)
  <1> DEFINE idle == {m \in members : \A t \in g.transfers : t.recipient # m}
             new == {NewTransfer(m, purpose, g.epoch) : m \in idle}
             transfers == g.transfers \cup new
  <1>1. Capture(g, members, purpose) = [g EXCEPT !.transfers = transfers] BY DEF Capture
  <1>2. g.epoch \in Nat /\ g.transfers \in SUBSET Transfer BY DEF SessionType
  <1>3. \A t \in new : t \in Transfer /\ t.purpose = purpose BY <1>2, NewTransferType
  <1>4. transfers \in SUBSET Transfer BY <1>2, <1>3
  <1>5. \/ g.status \notin Running
        \/ \A t \in transfers : t \in g.transfers \/ t.purpose # "controller"
    BY <1>3
  <1> HIDE DEF transfers
  <1> QED BY <1>1, <1>4, <1>5, TransfersSound

-----------------------------------------------------------------------------
(* Preparing a start or a resumption *)

\* What a member offered is a known point.
LEMMA OfferPoint ==
  ASSUME NEW g \in SessionType, NEW m \in Member, g.offers[m] # None
  PROVE  g.offers[m] \in Offer /\ g.offers[m].point \in Point
BY DEF SessionType, Offer

\* prepareIfReady() before the first play preserves the invariant of the session.
LEMMA PrepareInitialSound ==
  ASSUME NEW A, NEW g \in SessionType, Sound(g, A), g.load = None, g.offers[Host] # None
  PROVE  PrepareInitial(g) \in SessionType /\ Sound(PrepareInitial(g), A)
BY OfferPoint, SessionAssumption, StopSound, BeginSound DEF PrepareInitial, SessionType

\* Another known point leaves a session.
LEMMA PointType ==
  ASSUME NEW g \in SessionType, NEW point \in Point
  PROVE  [g EXCEPT !.point = point] \in SessionType
  BY DEF SessionType

\* Moving a session that does not run to another known point.
LEMMA MovedSound ==
  ASSUME NEW A, NEW g \in SessionType, Sound(g, A), NEW point \in Point,
         g.status \notin Running
  PROVE  /\ [g EXCEPT !.point = point] \in SessionType
         /\ Sound([g EXCEPT !.point = point], A)
  <1> DEFINE h == [g EXCEPT !.point = point]
  <1>1. h \in SessionType BY PointType
  <1>2. /\ h.status = g.status /\ h.epoch = g.epoch /\ h.point = point
        /\ h.load = g.load /\ h.pending = g.pending /\ h.proposed = g.proposed
        /\ h.hasPlayed = g.hasPlayed
    BY DEF SessionType
  <1>3. Sound(h, A)
    <2> HIDE DEF h
    <2> QED BY <1>2 DEF Sound, Anchored, LoadAnchored, Acked, Running
  <1> QED BY <1>1, <1>3

\* A session with a timeline changes its status and neither runs nor has to
\* forget anything.
LEMMA StatusSound ==
  ASSUME NEW A, NEW g \in SessionType, Sound(g, A), NEW status \in Status,
         status \notin Running, g.epoch # 0
  PROVE  /\ [g EXCEPT !.status = status] \in SessionType
         /\ Sound([g EXCEPT !.status = status], A)
  <1> DEFINE h == [g EXCEPT !.status = status]
  <1>1. h \in SessionType BY StatusType
  <1>2. /\ h.status = status /\ h.epoch = g.epoch /\ h.point = g.point
        /\ h.load = g.load /\ h.pending = g.pending /\ h.proposed = g.proposed
    BY DEF SessionType
  <1>3. Sound(h, A)
    <2> HIDE DEF h
    <2> QED BY <1>2 DEF Sound, Anchored, LoadAnchored, Acked, Running
  <1> QED BY <1>1, <1>3

\* prepareIfReady() after the first play preserves the invariant of the session.
LEMMA PrepareResumeSound ==
  ASSUME NEW A, NEW g \in SessionType, Sound(g, A), g.status \notin Running,
         g.hasPlayed, g.offers[Host] # None
  PROVE  PrepareResume(g) \in SessionType /\ Sound(PrepareResume(g), A)
  <1> DEFINE authority == g.offers[Host].point
             agreed    == [g EXCEPT !.point = authority]
             differing == {m \in Owners(g) : g.offers[m].point # authority}
  <1>1. CASE \E t \in g.transfers : t.purpose = "controller" BY <1>1 DEF PrepareResume
  <1>2. CASE \A t \in g.transfers : t.purpose # "controller"
    <2>1. authority \in Point BY OfferPoint, SessionAssumption
    <2>2. agreed \in SessionType /\ Sound(agreed, A) BY <2>1, MovedSound
    <2>3. agreed.status \notin Running /\ agreed.epoch # 0 BY DEF Sound, Anchored, SessionType
    <2>4. CASE differing # {}
      <3>1. PrepareResume(g) = Capture(agreed, differing, "controller")
        BY <1>2, <2>4 DEF PrepareResume
      <3>2. differing \in SUBSET Member BY OwnersType
      <3> HIDE DEF agreed, differing
      <3> QED BY <3>1, <3>2, <2>2, <2>3, CaptureSound DEF Purpose
    <2>5. CASE differing = {}
      <3>1. PrepareResume(g) = [agreed EXCEPT !.status = "resume_ready"]
        BY <1>2, <2>5 DEF PrepareResume
      <3> HIDE DEF agreed
      <3>2. "resume_ready" \in Status /\ "resume_ready" \notin Running BY DEF Status, Running
      <3> QED BY <3>1, <3>2, <2>2, <2>3, StatusSound
    <2> QED BY <2>4, <2>5
  <1> QED BY <1>1, <1>2

\* prepareIfReady() of a session that does not run preserves the invariant.
LEMMA PrepareIfReadySound ==
  ASSUME NEW A, NEW g \in SessionType, Sound(g, A), g.status \notin Running
  PROVE  PrepareIfReady(g) \in SessionType /\ Sound(PrepareIfReady(g), A)
  <1> DEFINE waits == \/ g.pending # None \/ g.load # None \/ ~OwnersOffered(g)
                      \/ ~g.hasPlayed /\ g.startRequested /\ ~InitialReady(g)
  <1>1. CASE waits BY <1>1 DEF PrepareIfReady
  <1>2. CASE ~waits
    <2>1. g.load = None /\ OwnersOffered(g) BY <1>2
    <2>3. g.offers[Host] # None BY <2>1 DEF Owners, OwnersOf, OwnersOffered
    <2> HIDE DEF waits
    <2> QED BY <2>1, <1>2, <2>3, PrepareResumeSound, PrepareInitialSound DEF PrepareIfReady
  <1> QED BY <1>1, <1>2

-----------------------------------------------------------------------------
(* Role transactions *)

\* The role transaction of a session is one.
LEMMA PendingType ==
  ASSUME NEW g \in SessionType, g.pending # None
  PROVE  g.pending \in Pending
  BY DEF SessionType

\* The fields failTransaction() sets leave a session.
LEMMA FailedType ==
  ASSUME NEW g \in SessionType, NEW pending \in Pending \cup {None}
  PROVE  [g EXCEPT !.transfers = {}, !.offers = NoOffers, !.status = "paused",
                   !.pending = pending] \in SessionType
  BY DEF SessionType, Status, NoOffers

\* failTransaction(), with a transaction or without, preserves the invariant.
LEMMA FailTransactionSound ==
  ASSUME NEW A, NEW g \in SessionType, Sound(g, A)
  PROVE  FailTransaction(g) \in SessionType /\ Sound(FailTransaction(g), A)
  <1> DEFINE pending == IF g.pending = None THEN None
                        ELSE [g.pending EXCEPT !.status = "failed"]
             h == [g EXCEPT !.transfers = {}, !.offers = NoOffers,
                            !.status = "paused", !.pending = pending]
  <1>1. FailTransaction(g) = h BY DEF FailTransaction
  <1>2. pending \in Pending \cup {None} BY PendingType DEF Pending
  <1>3. h \in SessionType BY <1>2, FailedType
  <1>4. /\ h.status = "paused" /\ h.epoch = g.epoch /\ h.point = g.point
        /\ h.load = g.load /\ h.pending = pending /\ h.proposed = g.proposed
        /\ h.hasPlayed = g.hasPlayed
    BY DEF SessionType
  <1>5. g.pending = None => pending = None OBVIOUS
  <1>6. Sound(h, A)
    <2> HIDE DEF h, pending
    <2> QED BY <1>4, <1>5 DEF Sound, Anchored, LoadAnchored, Acked, Running
  <1> QED BY <1>1, <1>3, <1>6

\* Another transaction with its proposed owners leaves a session.
LEMMA AskedType ==
  ASSUME NEW g \in SessionType, NEW pending \in Pending \cup {None},
         NEW proposed \in [Seat -> Owner] \cup {None}
  PROVE  [g EXCEPT !.pending = pending, !.proposed = proposed] \in SessionType
  BY DEF SessionType

\* A timeline without a load is asked for other owners.
LEMMA AskedSound ==
  ASSUME NEW A, NEW g \in SessionType, Sound(g, A), g.load = None, g.epoch # 0,
         NEW pending \in Pending, NEW proposed \in [Seat -> Owner]
  PROVE  /\ [g EXCEPT !.pending = pending, !.proposed = proposed] \in SessionType
         /\ Sound([g EXCEPT !.pending = pending, !.proposed = proposed], A)
         /\ [g EXCEPT !.pending = pending, !.proposed = proposed].epoch # 0
  <1> DEFINE h == [g EXCEPT !.pending = pending, !.proposed = proposed]
  <1>1. h \in SessionType BY AskedType
  <1>2. /\ h.status = g.status /\ h.epoch = g.epoch /\ h.point = g.point
        /\ h.load = g.load /\ h.proposed = proposed
        /\ h.acks = g.acks /\ h.required = g.required /\ h.transfers = g.transfers
    BY DEF SessionType
  <1>3. Sound(h, A)
    <2> HIDE DEF h
    <2> QED BY <1>2 DEF Sound, Anchored, LoadAnchored, Acked, Running
  <1> QED BY <1>1, <1>2, <1>3

\* requestRoles() preserves the invariant of the session when it does not throw.
LEMMA RequestRolesSound ==
  ASSUME NEW A, NEW g \in SessionType, Sound(g, A), CanRequestRoles(g),
         NEW pending \in Pending, NEW owners \in [Seat -> Owner]
  PROVE  /\ RequestRoles(g, pending, owners) \in SessionType
         /\ Sound(RequestRoles(g, pending, owners), A)
  <1> DEFINE h == [g EXCEPT !.pending = pending, !.proposed = owners]
  <1>1. h \in SessionType /\ Sound(h, A) /\ h.epoch # 0 BY AskedSound DEF CanRequestRoles
  <1>2. RequestRoles(g, pending, owners) = IF g.status = "pausing" THEN h ELSE Freeze(h)
    BY DEF RequestRoles
  <1> HIDE DEF h
  <1> QED BY <1>1, <1>2, FreezeSound

\* gameRoleCancel forgets the transaction and preserves the invariant.
LEMMA DropRolesSound ==
  ASSUME NEW A, NEW g \in SessionType, Sound(g, A)
  PROVE  DropRoles(g) \in SessionType /\ Sound(DropRoles(g), A)
  <1> DEFINE h == [g EXCEPT !.pending = None, !.proposed = None]
  <1>1. h \in SessionType BY AskedType
  <1>2. /\ h.status = g.status /\ h.epoch = g.epoch /\ h.point = g.point
        /\ h.load = g.load /\ h.pending = None /\ h.hasPlayed = g.hasPlayed
        /\ h.required = g.required /\ h.acks = g.acks /\ h.transfers = g.transfers
    BY DEF SessionType
  <1> HIDE DEF h
  <1>3. Sound(h, A) BY <1>1, <1>2, GoingOnSound
  <1>4. DropRoles(g) = Stop(h, "paused") BY DEF DropRoles, h
  <1> QED BY <1>1, <1>3, <1>4, StopSound

\* abortRoles() preserves the invariant of the session.
LEMMA AbortRolesSound ==
  ASSUME NEW A, NEW g \in SessionType, Sound(g, A)
  PROVE  AbortRoles(g) \in SessionType /\ Sound(AbortRoles(g), A)
  BY DropRolesSound DEF AbortRoles

\* gameRoleRetry of a transaction preserves the invariant of the session.
LEMMA RetryRolesSound ==
  ASSUME NEW A, NEW g \in SessionType, Sound(g, A), g.pending # None,
         NEW revision \in Nat, NEW owners \in [Seat -> Owner]
  PROVE  /\ RetryRoles(g, revision, owners) \in SessionType
         /\ Sound(RetryRoles(g, revision, owners), A)
  <1> DEFINE pending == [g.pending EXCEPT !.revision = revision, !.status = "freezing"]
             h == [g EXCEPT !.pending = pending, !.proposed = owners]
  <1>1. pending \in Pending BY PendingType DEF Pending
  <1>2. g.load = None /\ g.epoch # 0 BY DEF Sound, LoadAnchored, Anchored
  <1>3. h \in SessionType /\ Sound(h, A) /\ h.epoch # 0
    <2> HIDE DEF pending
    <2> QED BY <1>1, <1>2, AskedSound
  <1>4. RetryRoles(g, revision, owners) = Freeze(h) BY DEF RetryRoles, SessionType
  <1> HIDE DEF h
  <1> QED BY <1>3, <1>4, FreezeSound

\* An assignment committed by a transaction leaves a session.
LEMMA CommittedType ==
  ASSUME NEW g \in SessionType, NEW controllers \in Assignment
  PROVE  [g EXCEPT !.controllers = controllers, !.pending = None,
                   !.proposed = None] \in SessionType
  BY DEF SessionType

\* A restored session waits for new offers.
LEMMA RestoredRolesType ==
  ASSUME NEW g \in SessionType
  PROVE  [g EXCEPT !.offers = NoOffers, !.status = "paused"] \in SessionType
  BY DEF SessionType, NoOffers, Status

\* finishTransaction(), whether it waits, fails or commits, preserves the invariant.
LEMMA FinishTransactionSound ==
  ASSUME NEW A, NEW g \in SessionType, Sound(g, A), NEW roomRevision,
         NEW controllers \in Assignment
  PROVE  /\ FinishTransaction(g, roomRevision, controllers) \in SessionType
         /\ Sound(FinishTransaction(g, roomRevision, controllers), A)
  <1> DEFINE f == FinishTransaction(g, roomRevision, controllers)
  <1>1. CASE ~TransactionDue(g) BY <1>1 DEF Commits, FinishTransaction
  <1>2. CASE TransactionDue(g) /\ ~Commits(g, roomRevision)
    BY <1>2, FailTransactionSound DEF FinishTransaction, Commits
  <1>3. CASE TransactionDue(g) /\ Commits(g, roomRevision)
    <2> DEFINE done == [g EXCEPT !.controllers = controllers, !.pending = None,
                                 !.proposed = None]
               h == [done EXCEPT !.offers = NoOffers, !.status = "paused"]
    <2>1. f = IF g.restored THEN h ELSE Begin(done, g.point) BY <1>3 DEF FinishTransaction
    <2>2. done \in SessionType BY CommittedType
    <2>3. g.load = None /\ g.epoch # 0 /\ g.point \in Point
      BY <1>3 DEF TransactionDue, Sound, LoadAnchored, Anchored
    <2>4. /\ done.status = g.status /\ done.epoch = g.epoch /\ done.point = g.point
          /\ done.load = g.load /\ done.pending = None /\ done.hasPlayed = g.hasPlayed
          /\ done.required = g.required /\ done.acks = g.acks
          /\ done.transfers = g.transfers
      BY DEF SessionType
    <2> HIDE DEF done, f
    <2>5. Sound(done, A) BY <2>2, <2>4, GoingOnSound
    <2>6. h \in SessionType BY <2>2, RestoredRolesType
    <2>7. /\ h.status = "paused" /\ h.epoch = done.epoch /\ h.point = done.point
          /\ h.load = done.load /\ h.pending = done.pending /\ h.hasPlayed = done.hasPlayed
      BY <2>2 DEF SessionType
    <2> HIDE DEF h
    <2>8. Sound(h, A) BY <2>2, <2>4, <2>5, <2>6, <2>7, RestingSound
    <2>9. Begin(done, g.point) \in SessionType /\ Sound(Begin(done, g.point), A)
      BY <2>2, <2>3, <2>4, <2>5, BeginSound
    <2> QED BY <2>1, <2>6, <2>8, <2>9 DEF f
  <1> QED BY <1>1, <1>2, <1>3

-----------------------------------------------------------------------------
(* configure() *)

\* Rolling back a load or failing a transaction is not playing.
LEMMA HasPlayedKept ==
  ASSUME NEW g \in SessionType
  PROVE  /\ FinishLoadRollback(g, FALSE).hasPlayed = g.hasPlayed
         /\ FailTransaction(g).hasPlayed = g.hasPlayed
BY DEF FinishLoadRollback, SessionType, FailTransaction

\* abortLoad() does not change whether the session has played.
LEMMA AbortLoadKeepsPlayed ==
  ASSUME NEW g \in SessionType
  PROVE  AbortLoad(g).hasPlayed = g.hasPlayed
  <1>1. CASE g.load = None \/ g.load.phase = "rolling_back" BY <1>1 DEF AbortLoad
  <1>2. CASE g.load # None /\ g.load.phase # "rolling_back"
    <2> DEFINE status == IF g.load.initial THEN "waiting" ELSE "paused"
               unmarked == {m \in LoadMembers(g.load) : g.load.boundaries[m] = None}
               l == [g.load EXCEPT !.phase = "rolling_back", !.rolledBack = @ \cup unmarked]
               h == [g EXCEPT !.transfers = {}, !.offers = NoOffers, !.acks = {},
                              !.status = status, !.load = l]
    <2>1. AbortLoad(g) = FinishLoadRollback(h, FALSE) BY <1>2 DEF AbortLoad, SessionType
    <2>2. h \in SessionType BY <1>2, LoadType, LoadUpdate, AbortedType DEF Status
    <2>3. h.hasPlayed = g.hasPlayed BY DEF SessionType
    <2> HIDE DEF h
    <2> QED BY <2>1, <2>2, <2>3, HasPlayedKept
  <1> QED BY <1>1, <1>2

\* stop() does not change whether the session has played.
LEMMA StopKeepsPlayed ==
  ASSUME NEW g \in SessionType, NEW status \in {"paused", "failed"}
  PROVE  Stop(g, status).hasPlayed = g.hasPlayed
BY AbortLoadKeepsPlayed DEF Stop, SessionType

\* The fields configure() sets first leave a session.
LEMMA RosterTakenType ==
  ASSUME NEW g \in SessionType, NEW members \in [Member -> View],
         NEW interruption \in [epoch : Nat, controllers : Nat] \cup {None},
         NEW controllers \in Assignment
  PROVE  [g EXCEPT !.members = members, !.interruption = interruption,
                   !.controllers = controllers] \in SessionType
  BY DEF SessionType

\* Taking over the members and the assignment preserves the invariant.
LEMMA TakeRosterSound ==
  ASSUME NEW A, NEW g \in SessionType, Sound(g, A), NEW members \in [Member -> View],
         NEW controllers \in Assignment
  PROVE  /\ TakeRoster(g, members, controllers) \in SessionType
         /\ Sound(TakeRoster(g, members, controllers), A)
         /\ TakeRoster(g, members, controllers).hasPlayed = g.hasPlayed
  <1> DEFINE interruption == IF HostLost(g, members)
               THEN [epoch |-> g.epoch, controllers |-> g.controllers.revision]
               ELSE g.interruption
             current == IF g.pending = None THEN controllers ELSE g.controllers
             h == [g EXCEPT !.members = members, !.interruption = interruption,
                            !.controllers = current]
  <1>1. TakeRoster(g, members, controllers) = h BY DEF TakeRoster
  <1>2. interruption \in [epoch : Nat, controllers : Nat] \cup {None} BY DEF SessionType, Assignment
  <1>3. current \in Assignment BY DEF SessionType
  <1>4. h \in SessionType
    <2> HIDE DEF interruption, current
    <2> QED BY <1>2, <1>3, RosterTakenType
  <1>5. /\ h.status = g.status /\ h.epoch = g.epoch /\ h.point = g.point
        /\ h.load = g.load /\ h.pending = g.pending /\ h.proposed = g.proposed
        /\ h.hasPlayed = g.hasPlayed /\ h.required = g.required
        /\ h.acks = g.acks /\ h.transfers = g.transfers
    BY DEF SessionType
  <1> HIDE DEF h
  <1> QED BY <1>1, <1>4, <1>5, GoingOnSound

\* Other offers leave a session.
LEMMA OffersType ==
  ASSUME NEW g \in SessionType, NEW offers \in [Member -> Offer \cup {None}]
  PROVE  [g EXCEPT !.offers = offers] \in SessionType
  BY DEF SessionType

\* Offers may come and go at any time.
LEMMA OffersSound ==
  ASSUME NEW A, NEW g \in SessionType, Sound(g, A),
         NEW offers \in [Member -> Offer \cup {None}]
  PROVE  /\ [g EXCEPT !.offers = offers] \in SessionType
         /\ Sound([g EXCEPT !.offers = offers], A)
         /\ [g EXCEPT !.offers = offers].hasPlayed = g.hasPlayed
         /\ [g EXCEPT !.offers = offers].status = g.status
  <1> DEFINE h == [g EXCEPT !.offers = offers]
  <1>1. h \in SessionType BY OffersType
  <1>2. /\ h.status = g.status /\ h.epoch = g.epoch /\ h.point = g.point
        /\ h.load = g.load /\ h.pending = g.pending /\ h.proposed = g.proposed
        /\ h.hasPlayed = g.hasPlayed /\ h.required = g.required
        /\ h.acks = g.acks /\ h.transfers = g.transfers
    BY DEF SessionType
  <1> HIDE DEF h
  <1>3. Sound(h, A) BY <1>1, <1>2, GoingOnSound
  <1> QED BY <1>1, <1>2, <1>3 DEF h

\* Dropping offers that no longer stand preserves the invariant.
LEMMA KeepCurrentOffersSound ==
  ASSUME NEW A, NEW g \in SessionType, Sound(g, A), NEW roomRevision
  PROVE  /\ KeepCurrentOffers(g, roomRevision) \in SessionType
         /\ Sound(KeepCurrentOffers(g, roomRevision), A)
         /\ KeepCurrentOffers(g, roomRevision).hasPlayed = g.hasPlayed
  <1> DEFINE Stands(m) == /\ roomRevision = g.roomRevision
                          /\ Available(g, m)
                          /\ g.offers[m] # None
                          /\ g.offers[m].revision = g.controllers.revision
                          /\ g.offers[m].roomRevision = roomRevision
             offers == [m \in Member |-> IF Stands(m) THEN g.offers[m] ELSE None]
  <1>1. KeepCurrentOffers(g, roomRevision) =
          IF g.epoch # 0 THEN g ELSE [g EXCEPT !.offers = offers]
    BY DEF KeepCurrentOffers
  <1>2. offers \in [Member -> Offer \cup {None}]
    <2>1. g.offers \in [Member -> Offer \cup {None}] BY DEF SessionType
    <2> HIDE DEF Stands
    <2> QED BY <2>1
  <1> HIDE DEF offers
  <1> QED BY <1>1, <1>2, OffersSound

\* Taking over the revision of the roster preserves the invariant.
LEMMA RevisionSound ==
  ASSUME NEW A, NEW g \in SessionType, Sound(g, A), NEW revision \in Nat
  PROVE  /\ [g EXCEPT !.roomRevision = revision] \in SessionType
         /\ Sound([g EXCEPT !.roomRevision = revision], A)
         /\ [g EXCEPT !.roomRevision = revision].hasPlayed = g.hasPlayed
  <1> DEFINE h == [g EXCEPT !.roomRevision = revision]
  <1>1. h \in SessionType BY DEF SessionType
  <1>2. /\ h.status = g.status /\ h.epoch = g.epoch /\ h.point = g.point
        /\ h.load = g.load /\ h.pending = g.pending /\ h.proposed = g.proposed
        /\ h.hasPlayed = g.hasPlayed /\ h.required = g.required
        /\ h.acks = g.acks /\ h.transfers = g.transfers
    BY DEF SessionType
  <1> HIDE DEF h
  <1>3. Sound(h, A) BY <1>1, <1>2, GoingOnSound
  <1> QED BY <1>1, <1>2, <1>3 DEF h

\* Dropping transfers nobody can receive preserves the invariant.
LEMMA DeliverableSound ==
  ASSUME NEW A, NEW g \in SessionType, Sound(g, A)
  PROVE  LET h == [g EXCEPT !.transfers = {t \in @ : Deliverable(g, t)}]
         IN  h \in SessionType /\ Sound(h, A) /\ h.hasPlayed = g.hasPlayed
  <1> DEFINE transfers == {t \in g.transfers : Deliverable(g, t)}
  <1>1. transfers \in SUBSET Transfer BY DEF SessionType
  <1>3. \A t \in transfers : t \in g.transfers OBVIOUS
  <1> HIDE DEF transfers
  <1>4. /\ [g EXCEPT !.transfers = transfers] \in SessionType
        /\ Sound([g EXCEPT !.transfers = transfers], A)
    BY <1>1, <1>3, TransfersSound
  <1> QED BY <1>4 DEF transfers, SessionType

\* configure() preserves the invariant of the session, call by call: whichever of
\* the load, the countdown, the transfers, the transaction, the barrier and the
\* running timeline the new roster stops, the others are left sound.
LEMMA ConfigureSound ==
  ASSUME NEW A, NEW g \in SessionType, Sound(g, A), NEW members \in [Member -> View],
         NEW controllers \in Assignment, NEW roomRevision \in Nat
  PROVE  /\ Configure(g, members, controllers, roomRevision) \in SessionType
         /\ Sound(Configure(g, members, controllers, roomRevision), A)
  <1> DEFINE Good(x) == x \in SessionType /\ Sound(x, A) /\ x.hasPlayed = g.hasPlayed
             taken   == TakeRoster(g, members, controllers)
             kept    == KeepCurrentOffers(taken, roomRevision)
             offered == [kept EXCEPT !.roomRevision = roomRevision]
             loading == IF LoadDisturbed(offered, controllers)
                          THEN AbortLoad(offered) ELSE offered
             counted == StopUnpreparedCountdown(loading)
             linked  == [counted EXCEPT !.transfers =
                           {t \in @ : Deliverable(counted, t)}]
             roles   == IF /\ linked.pending # None
                           /\ \/ RosterShrank(g.members, members)
                              \/ linked.pending.revision # roomRevision
                          THEN FailTransaction(linked) ELSE linked
             stopped == StopUnavailableBarrier(roles)
  <1>1. Good(taken) BY TakeRosterSound
  <1>2. Good(kept)
    <2> HIDE DEF taken
    <2> QED BY <1>1, KeepCurrentOffersSound
  <1>3. Good(offered)
    <2> HIDE DEF kept
    <2> QED BY <1>2, RevisionSound
  <1>4. Good(loading)
    <2> HIDE DEF offered
    <2> QED BY <1>3, AbortLoadSound, AbortLoadKeepsPlayed
  <1>5. Good(counted)
    <2> HIDE DEF loading
    <2> QED BY <1>4, StopSound, StopKeepsPlayed DEF StopUnpreparedCountdown
  <1>6. Good(linked)
    <2> HIDE DEF counted
    <2> QED BY <1>5, DeliverableSound
  <1>7. Good(roles)
    <2> HIDE DEF linked
    <2> QED BY <1>6, FailTransactionSound, HasPlayedKept
  <1>8. Good(stopped)
    <2> HIDE DEF roles
    <2> QED BY <1>7, StopSound, StopKeepsPlayed DEF StopUnavailableBarrier
  <1>9. Configure(g, members, controllers, roomRevision)
          = FreezeForHost(stopped, HostLost(g, members))
    BY DEF Configure
  <1>10. stopped.status = "playing" \/ HostLost(g, members) => stopped.epoch # 0
    <2> HIDE DEF stopped
    <2> QED BY <1>8 DEF Sound, Anchored, HostLost
  <1> HIDE DEF stopped
  <1> QED BY <1>8, <1>9, <1>10, FreezeSound DEF FreezeForHost

-----------------------------------------------------------------------------
(* Coordinated loads *)

\* The parts of a load that say what it may have to return to.
SameAnchor(l, load) ==
  /\ l.epoch = load.epoch
  /\ l.initial = load.initial
  /\ l.oldEpoch = load.oldEpoch
  /\ l.oldPoint = load.oldPoint \/ l.oldPoint \in Point

\* A load that goes on and keeps what it returns to preserves the invariant.
LEMMA LoadStepSound ==
  ASSUME NEW A, NEW g \in SessionType, Sound(g, A), g.load # None,
         NEW l \in Load, SameAnchor(l, g.load)
  PROVE  /\ [g EXCEPT !.load = l] \in SessionType
         /\ Sound([g EXCEPT !.load = l], A)
         /\ [g EXCEPT !.load = l].load = l
  <1> DEFINE h == [g EXCEPT !.load = l]
  <1>1. h \in SessionType BY WithLoadType
  <1>2. /\ h.status = g.status /\ h.epoch = g.epoch /\ h.point = g.point
        /\ h.load = l /\ h.pending = g.pending /\ h.proposed = g.proposed
        /\ h.hasPlayed = g.hasPlayed /\ h.required = g.required
        /\ h.acks = g.acks /\ h.transfers = g.transfers
    BY DEF SessionType
  <1>3. Anchored(h) /\ LoadAnchored(h)
    <2> HIDE DEF h
    <2> QED BY <1>2 DEF Sound, Anchored, LoadAnchored, SameAnchor
  <1>4. Acked(h, A)
    <2> HIDE DEF h
    <2> QED BY <1>2 DEF Sound, Acked
  <1> QED BY <1>1, <1>2, <1>3, <1>4 DEF Sound

\* The fields gameLoadPropose sets leave a session.
LEMMA ProposedType ==
  ASSUME NEW g \in SessionType, NEW load \in Load, NEW issued \in Nat
  PROVE  [g EXCEPT !.transfers = {}, !.load = load, !.offers = NoOffers,
                   !.issued = issued] \in SessionType
  BY DEF SessionType, NoOffers

\* gameLoadPropose, from a running or a resting session, preserves the invariant.
LEMMA ProposeLoadSound ==
  ASSUME NEW A, NEW g \in SessionType, Sound(g, A), CanPropose(g), NEW target \in Point,
         NEW replacement \in Game \cup {None}, NEW owners \in [Seat -> Owner]
  PROVE  /\ ProposeLoad(g, target, replacement, owners) \in SessionType
         /\ Sound(ProposeLoad(g, target, replacement, owners), A)
  <1> DEFINE running == g.status = "playing"
             load == [phase |-> "freezing", epoch |-> g.issued + 1, target |-> target,
                      held |-> ~running, required |-> OwnersOf(owners),
                      freezeRequired |-> Owners(g), initial |-> g.epoch = 0,
                      resume |-> running, revision |-> g.roomRevision,
                      controllers |-> g.controllers.revision,
                      replacement |-> replacement, oldEpoch |-> g.epoch,
                      oldPoint |-> g.point,
                      boundaries |-> [m \in Member |-> None],
                      prepared |-> {}, committed |-> {}, rolledBack |-> {}]
             h == [g EXCEPT !.transfers = {}, !.load = load, !.offers = NoOffers,
                            !.issued = g.issued + 1]
  <1>1. ProposeLoad(g, target, replacement, owners) = IF running THEN Freeze(h) ELSE h
    BY DEF ProposeLoad
  <1>2. /\ g.issued \in Nat /\ g.roomRevision \in Nat /\ g.epoch \in Nat
        /\ g.controllers.revision \in Nat /\ g.point \in Point \cup {NoPoint}
    BY DEF SessionType, Assignment
  <1>3. load \in Load BY <1>2, OwnersOfType, OwnersType DEF Load, Phase
  <1>4. h \in SessionType
    <2> HIDE DEF load
    <2>1. g.issued + 1 \in Nat BY <1>2
    <2> QED BY <2>1, <1>3, ProposedType
  <1>5. /\ h.status = g.status /\ h.epoch = g.epoch /\ h.point = g.point
        /\ h.load = load /\ h.pending = g.pending /\ h.proposed = g.proposed
        /\ h.hasPlayed = g.hasPlayed /\ h.required = g.required
        /\ h.acks = g.acks /\ h.transfers = {}
    BY DEF SessionType
  <1>6. /\ load.epoch # 0 /\ load.oldEpoch = g.epoch /\ load.oldPoint = g.point
        /\ load.initial <=> g.epoch = 0
    <2>1. load.epoch = g.issued + 1 /\ load.oldEpoch = g.epoch /\ load.oldPoint = g.point OBVIOUS
    <2>2. load.initial = (g.epoch = 0) OBVIOUS
    <2>3. g.issued + 1 # 0 BY <1>2
    <2> HIDE DEF load
    <2> QED BY <2>1, <2>2, <2>3
  <1>7. g.pending = None BY DEF CanPropose
  <1>8. Sound(h, A)
    <2> HIDE DEF h, load
    <2>1. Anchored(h) /\ LoadAnchored(h) BY <1>5, <1>6, <1>7 DEF Sound, Anchored, LoadAnchored
    <2>2. Acked(h, A) BY <1>5 DEF Sound, Acked
    <2> QED BY <2>1, <2>2 DEF Sound
  <1>9. running => h.epoch # 0
    <2> HIDE DEF h
    <2> QED BY <1>5 DEF Sound, Anchored
  <1> HIDE DEF h
  <1> QED BY <1>1, <1>4, <1>8, <1>9, FreezeSound

\* Another status with other transfers leaves a session.
LEMMA StagedType ==
  ASSUME NEW g \in SessionType, NEW status \in Status, NEW transfers \in SUBSET Transfer
  PROVE  [g EXCEPT !.status = status, !.transfers = transfers] \in SessionType
  BY DEF SessionType

\* stageLoad() preserves the invariant of the session.
LEMMA StageLoadSound ==
  ASSUME NEW A, NEW g \in SessionType, Sound(g, A), g.load # None
  PROVE  StageLoad(g) \in SessionType /\ Sound(StageLoad(g), A)
  <1> DEFINE l == [g.load EXCEPT !.phase = "staging"]
             status == IF g.load.initial THEN "waiting" ELSE "paused"
             new == {NewTransfer(m, "load", g.load.epoch) : m \in g.load.required \ {Host}}
             transfers == g.transfers \cup new
             loaded == [g EXCEPT !.load = l]
             h == [loaded EXCEPT !.status = status, !.transfers = transfers]
  <1>1. StageLoad(g) = h BY DEF StageLoad, SessionType
  <1>2. l \in Load /\ SameAnchor(l, g.load) BY LoadType DEF Load, Phase, SameAnchor
  <1>3. loaded \in SessionType /\ Sound(loaded, A)
    <2> HIDE DEF l
    <2> QED BY <1>2, LoadStepSound
  <1>4. new \in SUBSET Transfer BY LoadType, NewTransferType DEF Load, Purpose
  <1>5. transfers \in SUBSET Transfer
    <2> HIDE DEF new
    <2> QED BY <1>4 DEF SessionType
  <1>6. status \in {"waiting", "paused"} OBVIOUS
  <1> HIDE DEF loaded, transfers, status
  <1>7. h \in SessionType BY <1>6, <1>3, <1>5, StagedType DEF Status
  <1>8. /\ h.status = status /\ h.epoch = loaded.epoch /\ h.point = loaded.point
        /\ h.load = loaded.load /\ h.pending = loaded.pending
        /\ h.proposed = loaded.proposed /\ h.hasPlayed = loaded.hasPlayed
    BY <1>3 DEF SessionType
  <1> HIDE DEF h
  <1>9. Sound(h, A) BY <1>3, <1>6, <1>7, <1>8, RestingSound
  <1> QED BY <1>1, <1>7, <1>9

\* gameLoadBoundary, whether it aborts, records or stages, preserves the invariant.
LEMMA LoadBoundarySound ==
  ASSUME NEW A, NEW g \in SessionType, Sound(g, A), g.load # None,
         NEW m \in Member, NEW point \in Point
  PROVE  LoadBoundary(g, m, point) \in SessionType /\ Sound(LoadBoundary(g, m, point), A)
  <1> DEFINE old == IF m = Host THEN point ELSE g.load.oldPoint
             l == [g.load EXCEPT !.boundaries = [@ EXCEPT ![m] = point], !.oldPoint = old]
             h == [g EXCEPT !.load = l]
             differs == /\ ~g.load.initial
                        /\ m \in g.load.freezeRequired
                        /\ point # g.load.oldPoint
  <1>1. l \in Load /\ SameAnchor(l, g.load)
    <2>1. g.load \in Load BY LoadType
    <2>2. /\ g.load.boundaries \in [Member -> Point \cup {None}]
          /\ g.load.oldPoint \in Point \cup {NoPoint}
      BY <2>1 DEF Load
    <2>4. old \in Point \cup {NoPoint} /\ (old = g.load.oldPoint \/ old \in Point) BY <2>2
    <2> HIDE DEF old
    <2> QED BY <2>1, <2>2, <2>4 DEF Load, SameAnchor
  <1>2. h \in SessionType /\ Sound(h, A) /\ h.load = l
    <2> HIDE DEF l
    <2> QED BY <1>1, LoadStepSound
  <1>4. CASE differs BY <1>4, AbortLoadSound DEF LoadBoundary
  <1>5. CASE ~differs
    <2>1. LoadBoundary(g, m, point) =
            IF \A x \in LoadMembers(g.load) : h.load.boundaries[x] # None
              THEN StageLoad(h) ELSE h
      BY <1>5 DEF LoadBoundary, SessionType
    <2>2. h.load # None => StageLoad(h) \in SessionType /\ Sound(StageLoad(h), A)
      <3> HIDE DEF h
      <3> QED BY <1>2, StageLoadSound
    <2>3. h.load # None BY <1>1, <1>2, NoneAssumption
    <2> HIDE DEF h
    <2> QED BY <1>2, <2>1, <2>2, <2>3
  <1> QED BY <1>4, <1>5

\* A member that prepared the loaded state preserves the invariant.
LEMMA LoadPreparedSound ==
  ASSUME NEW A, NEW g \in SessionType, Sound(g, A), g.load # None, NEW m \in Member
  PROVE  LoadPrepared(g, m) \in SessionType /\ Sound(LoadPrepared(g, m), A)
  <1> DEFINE prepared == g.load.prepared \cup {m}
             phase == IF g.load.required \subseteq prepared
                        THEN "committing" ELSE g.load.phase
             l == [g.load EXCEPT !.prepared = prepared, !.phase = phase]
  <1>1. g.load \in Load BY LoadType
  <1>2. prepared \in SUBSET Member /\ phase \in Phase BY <1>1 DEF Load, Phase
  <1>3. l \in Load /\ SameAnchor(l, g.load)
    <2> HIDE DEF prepared, phase
    <2> QED BY <1>1, <1>2 DEF Load, SameAnchor
  <1>4. LoadPrepared(g, m) = [g EXCEPT !.load = l] BY DEF LoadPrepared, SessionType
  <1> HIDE DEF l
  <1> QED BY <1>3, <1>4, LoadStepSound

\* gameLoadRolledBack preserves the invariant of the session.
LEMMA LoadRolledBackSound ==
  ASSUME NEW A, NEW g \in SessionType, Sound(g, A), g.load # None, NEW m \in Member
  PROVE  LoadRolledBack(g, m) \in SessionType /\ Sound(LoadRolledBack(g, m), A)
  <1> DEFINE l == [g.load EXCEPT !.rolledBack = @ \cup {m}]
             h == [g EXCEPT !.load = l]
  <1>1. l \in Load /\ SameAnchor(l, g.load) BY LoadType DEF Load, SameAnchor
  <1>2. LoadRolledBack(g, m) = FinishLoadRollback(h, FALSE) BY DEF LoadRolledBack, SessionType
  <1>3. h \in SessionType /\ Sound(h, A)
    <2> HIDE DEF l
    <2> QED BY <1>1, LoadStepSound
  <1> HIDE DEF h
  <1> QED BY <1>2, <1>3, FinishLoadRollbackSound

\* A load that is over leaves a session that has played.
LEMMA DoneType ==
  ASSUME NEW g \in SessionType
  PROVE  [g EXCEPT !.load = None, !.hasPlayed = TRUE] \in SessionType
  BY DEF SessionType

\* The fields the end of a load sets leave a session.
LEMMA LoadedType ==
  ASSUME NEW g \in SessionType, NEW point \in Point, NEW epoch \in Nat
  PROVE  [g EXCEPT !.point = point, !.epoch = epoch, !.status = "resume_ready",
                   !.startRequested = FALSE] \in SessionType
  BY DEF SessionType, Status

\* The last commitment of a load begins or offers its own timeline, soundly.
LEMMA FinishLoadSound ==
  ASSUME NEW A, NEW g \in SessionType, Sound(g, A), g.load # None
  PROVE  FinishLoad(g) \in SessionType /\ Sound(FinishLoad(g), A)
  <1> DEFINE done == [g EXCEPT !.load = None, !.hasPlayed = TRUE]
             point == g.load.target
             epoch == g.load.epoch
             h == [done EXCEPT !.point = point, !.epoch = epoch,
                               !.status = "resume_ready", !.startRequested = FALSE]
  <1>1. FinishLoad(g) = IF g.load.resume THEN BeginAt(done, point, epoch) ELSE h BY DEF FinishLoad
  <1>2. point \in Point /\ epoch \in Nat /\ epoch # 0 /\ g.pending = None
    BY LoadType DEF Load, Sound, LoadAnchored
  <1>3. done \in SessionType BY DoneType
  <1>4. done.load = None /\ done.pending = None BY <1>2 DEF SessionType
  <1> HIDE DEF done, point, epoch
  <1>5. BeginAt(done, point, epoch) \in SessionType /\ Sound(BeginAt(done, point, epoch), A)
    BY <1>2, <1>3, <1>4, BeginAtSound
  <1>6. h \in SessionType BY <1>2, <1>3, LoadedType
  <1>7. /\ h.point = point /\ h.epoch = epoch /\ h.status = "resume_ready"
        /\ h.load = None /\ h.pending = None
    BY <1>3, <1>4 DEF SessionType
  <1>8. Sound(h, A)
    <2> HIDE DEF h
    <2> QED BY <1>2, <1>7 DEF Sound, Anchored, LoadAnchored, Acked, Running
  <1> QED BY <1>1, <1>5, <1>6, <1>8

\* The fields the announcement of a replacement sets leave a session.
LEMMA AnnouncedType ==
  ASSUME NEW g \in SessionType, NEW cartridge \in Nat
  PROVE  [g EXCEPT !.load = None, !.announced = cartridge] \in SessionType
  BY DEF SessionType

\* The announcement of a replacement forgets the load and preserves the invariant.
LEMMA AnnounceReplacementSound ==
  ASSUME NEW A, NEW g \in SessionType, Sound(g, A), g.load # None,
         g.load.replacement # None
  PROVE  /\ AnnounceReplacement(g) \in SessionType
         /\ Sound(AnnounceReplacement(g), A)
         /\ AnnounceReplacement(g).load = None
  <1> DEFINE cartridge == g.load.replacement.cartridge
             h == [g EXCEPT !.load = None, !.announced = cartridge]
  <1>1. AnnounceReplacement(g) = h BY DEF AnnounceReplacement
  <1>2. cartridge \in Nat BY LoadType DEF Load, Game
  <1> HIDE DEF cartridge
  <1>3. h \in SessionType BY <1>2, AnnouncedType
  <1>4. /\ h.status = g.status /\ h.epoch = g.epoch /\ h.point = g.point
        /\ h.load = None /\ h.pending = g.pending /\ h.proposed = g.proposed
        /\ h.hasPlayed = g.hasPlayed /\ h.required = g.required
        /\ h.acks = g.acks /\ h.transfers = g.transfers
    BY DEF SessionType
  <1> HIDE DEF h
  <1>5. Sound(h, A) BY <1>3, <1>4, GoingOnSound
  <1> QED BY <1>1, <1>3, <1>4, <1>5

\* The fields a committed replacement sets leave a session.
LEMMA ReplacedType ==
  ASSUME NEW g \in SessionType, NEW controllers \in Assignment
  PROVE  [g EXCEPT !.controllers = controllers, !.offers = NoOffers, !.acks = {},
                   !.transfers = {}, !.hasPlayed = FALSE, !.interruption = None,
                   !.point = NoPoint, !.status = "waiting", !.startRequested = FALSE,
                   !.epoch = 0, !.pending = None] \in SessionType
  BY DEF SessionType, Status, NoOffers

\* A session of a replaced cartridge has no timeline and is sound.
LEMMA ReplaceGameSound ==
  ASSUME NEW A, NEW g \in SessionType, g.load = None, NEW controllers \in Assignment
  PROVE  ReplaceGame(g, controllers) \in SessionType /\ Sound(ReplaceGame(g, controllers), A)
  <1> DEFINE h == ReplaceGame(g, controllers)
  <1>1. h \in SessionType BY ReplacedType DEF ReplaceGame
  <1>2. /\ h.epoch = 0 /\ h.status = "waiting" /\ h.pending = None
        /\ h.hasPlayed = FALSE /\ h.load = None
    BY DEF SessionType, ReplaceGame
  <1>3. Sound(h, A)
    <2> HIDE DEF h
    <2> QED BY <1>2 DEF Sound, Anchored, LoadAnchored, Acked, Running
  <1> QED BY <1>1, <1>3

-----------------------------------------------------------------------------
(* What the offers and the load of a session rest on                       *)

Resting == {"waiting", "paused", "failed", "resume_ready"}
Standing(g) == g.load # None /\ g.load.phase # "rolling_back"

\* While nothing runs, each offer was made for the assignment in force and,
\* without a timeline, for the roster in force.
OffersFit(g) ==
  g.status \notin Running =>
    \A m \in Member :
      g.offers[m] # None =>
        /\ g.offers[m].revision = g.controllers.revision
        /\ g.epoch = 0 => g.offers[m].roomRevision = g.roomRevision

\* A load waits at the point it may return to, with no offer to act on.
LoadKept(g) ==
  g.load # None =>
    /\ ~g.load.initial => g.point = g.load.oldPoint
    /\ g.status \in Resting \cup {"pausing"}
    /\ Host \in g.load.freezeRequired
    /\ g.offers = NoOffers

\* Every guest a staged load waits for is being sent it.
Staged(g) ==
  (g.load # None /\ g.load.phase = "staging" /\ g.load.replacement = None) =>
    \A m \in g.load.required \ (g.load.prepared \cup {Host}) :
      \E t \in g.transfers : t.recipient = m /\ t.purpose = "load"

Fit(g, A) ==
  /\ g \in SessionType /\ Sound(g, A)
  /\ OffersFit(g) /\ LoadKept(g) /\ Staged(g)

\* The terms a load was proposed on still hold.
InForce(g) ==
  Standing(g) =>
    /\ g.load.controllers = g.controllers.revision
    /\ g.load.revision = g.roomRevision
    /\ \A m \in LoadMembers(g.load) : Available(g, m)
    /\ g.load.replacement = None => g.load.required = Owners(g)

\* A method leaves the assignment and the roster alone, starts no load and
\* proposes no other one.
SameTerms(l, k) ==
  /\ l.required = k.required /\ l.freezeRequired = k.freezeRequired
  /\ l.revision = k.revision /\ l.controllers = k.controllers
  /\ l.replacement = k.replacement /\ l.phase = k.phase
  /\ l.prepared = k.prepared
Keeps(g, h) ==
  /\ h.controllers = g.controllers /\ h.members = g.members
  /\ h.roomRevision = g.roomRevision /\ h.hasPlayed = g.hasPlayed
  /\ h.startRequested => g.startRequested
  /\ Standing(h) => Standing(g) /\ SameTerms(h.load, g.load)

\* It leaves a timeline without a load alone, and a load that ends returns.
Returns(g, h) ==
  /\ g.load = None => h.load = None /\ h.point = g.point /\ h.epoch = g.epoch
  /\ g.load # None /\ h.load = None =>
       h.point = g.load.oldPoint /\ h.epoch = g.load.oldEpoch
  /\ g.load # None /\ h.load # None =>
       h.load.oldPoint = g.load.oldPoint /\ h.load.oldEpoch = g.load.oldEpoch

\* It asks for no other owners.
SamePlan(g, h) ==
  h.pending # None =>
    /\ g.pending # None /\ h.proposed = g.proposed
    /\ h.pending.revision = g.pending.revision /\ h.pending.roles = g.pending.roles

Steady(g, h) == Keeps(g, h) /\ Returns(g, h) /\ SamePlan(g, h)

\* A method that changes nothing.
LEMMA SteadyAgain == \A g : Steady(g, g)
  BY DEF Steady, Keeps, Returns, SamePlan, Standing, SameTerms

\* One method after another.
LEMMA SteadyTwice ==
  ASSUME NEW g, NEW h, NEW k, Steady(g, h), Steady(h, k)
  PROVE  Steady(g, k)
BY DEF Steady, Keeps, SameTerms, Returns, SamePlan

\* The terms of a load keep holding.
LEMMA SteadyInForce ==
  ASSUME NEW g, NEW h, Keeps(g, h), InForce(g)
  PROVE  InForce(h)
  BY DEF Keeps, InForce, SameTerms, LoadMembers, Available, Owners

\* With a load the timeline is the one it may return to, so it stays the same.
LEMMA ReturnsEpoch ==
  ASSUME NEW A, NEW g, NEW h, Sound(g, A), Sound(h, A), Returns(g, h)
  PROVE  h.epoch = g.epoch
  BY DEF Sound, LoadAnchored, Returns

\* finishLoadRollback() returns to the timeline the load left, with no offers.
LEMMA FinishLoadRollbackFit ==
  ASSUME NEW A, NEW g, Fit(g, A), NEW timedOut \in BOOLEAN
  PROVE  LET h == FinishLoadRollback(g, timedOut) IN Fit(h, A) /\ Steady(g, h)
  <1> DEFINE f == FinishLoadRollback(g, timedOut)
             h == [g EXCEPT !.point = g.load.oldPoint, !.epoch = g.load.oldEpoch,
                            !.status = IF g.load.initial THEN "waiting" ELSE "paused",
                            !.startRequested = FALSE, !.load = None]
  <1>1. g \in SessionType BY DEF Fit
  <1>2. f \in SessionType /\ Sound(f, A) BY FinishLoadRollbackSound DEF Fit
  <1>3. CASE g.load # None /\ f = h
    <2>1. /\ h.point = g.load.oldPoint /\ h.epoch = g.load.oldEpoch /\ h.load = None
          /\ h.startRequested = FALSE /\ h.controllers = g.controllers
          /\ h.members = g.members /\ h.roomRevision = g.roomRevision
          /\ h.hasPlayed = g.hasPlayed /\ h.offers = g.offers
          /\ h.pending = g.pending /\ h.proposed = g.proposed
      BY <1>1 DEF SessionType
    <2> HIDE DEF h
    <2>2. OffersFit(h) /\ LoadKept(h) /\ Staged(h)
      BY <1>3, <2>1 DEF Fit, OffersFit, LoadKept, Staged, NoOffers
    <2>3. Steady(g, h) BY <1>3, <2>1 DEF Steady, Keeps, Returns, SamePlan, Standing
    <2> QED BY <1>2, <1>3, <2>2, <2>3 DEF Fit
  <1>4. CASE f = g BY <1>4, SteadyAgain
  <1> QED BY <1>3, <1>4 DEF FinishLoadRollback

\* abortLoad(), which drops every offer and transfer, fits.
LEMMA AbortLoadFit ==
  ASSUME NEW A, NEW g, Fit(g, A)
  PROVE  LET h == AbortLoad(g) IN Fit(h, A) /\ Steady(g, h)
  <1>1. CASE ~Standing(g) BY <1>1, SteadyAgain DEF AbortLoad, Standing
  <1>2. CASE Standing(g)
    <2> DEFINE status == IF g.load.initial THEN "waiting" ELSE "paused"
               unmarked == {m \in LoadMembers(g.load) : g.load.boundaries[m] = None}
               l == [g.load EXCEPT !.phase = "rolling_back", !.rolledBack = @ \cup unmarked]
               h == [g EXCEPT !.transfers = {}, !.offers = NoOffers, !.acks = {},
                              !.status = status, !.load = l]
    <2>1. g \in SessionType BY DEF Fit
    <2>2. AbortLoad(g) = FinishLoadRollback(h, FALSE)
      BY <1>2, <2>1 DEF AbortLoad, SessionType, Standing
    <2>3. /\ l \in Load /\ l.phase = "rolling_back" /\ l.oldPoint = g.load.oldPoint
          /\ l.oldEpoch = g.load.oldEpoch /\ l.initial = g.load.initial
          /\ l.freezeRequired = g.load.freezeRequired /\ l.epoch = g.load.epoch
      <3>1. g.load \in Load /\ unmarked \in SUBSET Member BY <1>2, <2>1, LoadType DEF Standing
      <3> HIDE DEF unmarked
      <3>2. l \in Load BY <3>1, LoadUpdate
      <3> QED BY <3>1, <3>2 DEF Load
    <2> HIDE DEF l
    <2>4. h \in SessionType BY <2>1, <2>3, AbortedType DEF Status
    <2>5. /\ h.status = status /\ h.epoch = g.epoch /\ h.point = g.point
          /\ h.pending = g.pending /\ h.proposed = g.proposed /\ h.hasPlayed = g.hasPlayed
          /\ h.load = l /\ h.offers = NoOffers /\ h.controllers = g.controllers
          /\ h.members = g.members /\ h.roomRevision = g.roomRevision
          /\ h.startRequested = g.startRequested
      BY <2>1 DEF SessionType
    <2>6. l # None BY <2>3, NoneAssumption
    <2> HIDE DEF h
    <2>7. Sound(h, A)
      BY <1>2, <2>3, <2>5 DEF Fit, Sound, Anchored, LoadAnchored, Standing, Acked, Running
    <2>8. OffersFit(h) /\ LoadKept(h) /\ Staged(h)
      BY <1>2, <2>3, <2>5
      DEF Fit, OffersFit, LoadKept, Staged, NoOffers, Standing, Resting
    <2>9. Steady(g, h) BY <1>2, <2>3, <2>5, <2>6 DEF Steady, Keeps, Returns, SamePlan, Standing
    <2>10. Fit(h, A) BY <2>4, <2>7, <2>8 DEF Fit
    <2> QED BY <2>2, <2>9, <2>10, FinishLoadRollbackFit, SteadyTwice
  <1> QED BY <1>1, <1>2

\* stop(), with a load or without, fits.
LEMMA StopFit ==
  ASSUME NEW A, NEW g, Fit(g, A), NEW status \in {"paused", "failed"}
  PROVE  LET h == Stop(g, status) IN Fit(h, A) /\ Steady(g, h)
  <1> DEFINE h == [g EXCEPT !.transfers = {}, !.offers = NoOffers, !.acks = {},
                            !.status = status, !.startRequested = FALSE]
  <1>1. CASE g.load # None BY <1>1, AbortLoadFit DEF Stop
  <1>2. CASE g.load = None
    <2>1. g \in SessionType BY DEF Fit
    <2>2. Stop(g, status) = h BY <1>2 DEF Stop
    <2>3. h \in SessionType /\ Sound(h, A) BY <2>2, StopSound DEF Fit
    <2>4. /\ h.epoch = g.epoch /\ h.point = g.point /\ h.load = g.load
          /\ h.pending = g.pending /\ h.proposed = g.proposed
          /\ h.hasPlayed = g.hasPlayed /\ h.offers = NoOffers
          /\ h.controllers = g.controllers /\ h.members = g.members
          /\ h.roomRevision = g.roomRevision /\ h.startRequested = FALSE
      BY <2>1 DEF SessionType
    <2> HIDE DEF h
    <2>5. OffersFit(h) /\ LoadKept(h) /\ Staged(h)
      BY <1>2, <2>4 DEF OffersFit, LoadKept, Staged, NoOffers
    <2>6. Steady(g, h) BY <1>2, <2>4 DEF Steady, Keeps, Returns, SamePlan, Standing
    <2> QED BY <2>2, <2>3, <2>5, <2>6 DEF Fit
  <1> QED BY <1>1, <1>2

-----------------------------------------------------------------------------
(* The same of barriers, transfers and preparations                        *)

\* begin() makes a session run, under a new epoch, with what it was told.
LEMMA BeginFit ==
  ASSUME NEW A, NEW g, Fit(g, A), NEW point \in Point, g.load = None
  PROVE  LET h == Begin(g, point)
         IN  /\ Fit(h, A) /\ Keeps(g, h) /\ SamePlan(g, h)
             /\ h.epoch # 0 /\ h.load = None /\ h.status = "starting"
  <1> DEFINE sent == g.sent \cup {[to |-> m, epoch |-> g.issued + 1, hash |-> point.hash]
                                    : m \in Owners(g)}
             b == [g EXCEPT !.transfers = {}, !.point = point, !.required = Owners(g),
                            !.acks = {}, !.status = "starting", !.epoch = g.issued + 1,
                            !.sent = sent]
             h == [b EXCEPT !.issued = g.issued + 1]
  <1>1. g \in SessionType /\ g.issued \in Nat BY DEF Fit, SessionType
  <1>2. Begin(g, point) = h BY DEF Begin, BeginAt
  <1>3. h \in SessionType /\ Sound(h, A) BY <1>2, BeginSound DEF Fit
  <1>4. /\ h.epoch = g.issued + 1 /\ h.load = g.load /\ h.status = "starting"
        /\ h.controllers = g.controllers /\ h.members = g.members
        /\ h.roomRevision = g.roomRevision /\ h.hasPlayed = g.hasPlayed
        /\ h.startRequested = g.startRequested
        /\ h.pending = g.pending /\ h.proposed = g.proposed
    BY <1>1 DEF SessionType
  <1>5. h.epoch # 0 BY <1>1, <1>4
  <1> HIDE DEF h
  <1>6. OffersFit(h) /\ LoadKept(h) /\ Staged(h) BY <1>4 DEF OffersFit, LoadKept, Staged, Running
  <1>7. Keeps(g, h) /\ SamePlan(g, h) BY <1>4 DEF Keeps, SamePlan, Standing
  <1> QED BY <1>2, <1>3, <1>4, <1>5, <1>6, <1>7 DEF Fit

\* freeze() drops every offer; a session with a load keeps its transfers.
LEMMA FreezeFit ==
  ASSUME NEW A, NEW g \in SessionType, Sound(g, A), g.epoch # 0,
         g.load # None => (~g.load.initial => g.point = g.load.oldPoint),
         g.load # None => Host \in g.load.freezeRequired, Staged(g)
  PROVE  LET h == Freeze(g)
         IN  Fit(h, A) /\ Steady(g, h) /\ h.pending = g.pending /\ h.proposed = g.proposed
  <1> DEFINE transfers == IF g.pending # None THEN {} ELSE g.transfers
             h == [g EXCEPT !.transfers = transfers, !.offers = NoOffers,
                            !.acks = {}, !.status = "pausing"]
  <1>1. Freeze(g) = h BY DEF Freeze
  <1>2. h \in SessionType /\ Sound(h, A) BY <1>1, FreezeSound
  <1>3. /\ h.epoch = g.epoch /\ h.point = g.point /\ h.load = g.load
        /\ h.status = "pausing" /\ h.pending = g.pending /\ h.proposed = g.proposed
        /\ h.hasPlayed = g.hasPlayed /\ h.offers = NoOffers
        /\ h.controllers = g.controllers /\ h.members = g.members
        /\ h.roomRevision = g.roomRevision /\ h.startRequested = g.startRequested
        /\ h.transfers = transfers
    BY DEF SessionType
  <1>4. g.load # None => transfers = g.transfers BY DEF Sound, LoadAnchored
  <1> HIDE DEF h, transfers
  <1>5. OffersFit(h) /\ LoadKept(h) BY <1>3 DEF OffersFit, LoadKept, NoOffers
  <1>6. Staged(h) BY <1>3, <1>4 DEF Staged
  <1>7. Steady(g, h) BY <1>3 DEF Steady, Keeps, Returns, SamePlan, Standing, SameTerms
  <1> QED BY <1>1, <1>2, <1>3, <1>5, <1>6, <1>7 DEF Fit

\* Other transfers that keep a staged load supplied.
LEMMA TransfersFit ==
  ASSUME NEW A, NEW g, Fit(g, A), NEW transfers \in SUBSET Transfer,
         \/ g.status \notin Running
         \/ \A t \in transfers : t \in g.transfers \/ t.purpose # "controller",
         Staged([g EXCEPT !.transfers = transfers])
  PROVE  LET h == [g EXCEPT !.transfers = transfers]
         IN  Fit(h, A) /\ Steady(g, h) /\ h.status = g.status /\ h.offers = g.offers
  <1> DEFINE h == [g EXCEPT !.transfers = transfers]
  <1>1. g \in SessionType /\ Sound(g, A) BY DEF Fit
  <1>2. h \in SessionType /\ Sound(h, A) BY <1>1, TransfersSound
  <1>3. /\ h.epoch = g.epoch /\ h.point = g.point /\ h.load = g.load
        /\ h.status = g.status /\ h.pending = g.pending /\ h.proposed = g.proposed
        /\ h.hasPlayed = g.hasPlayed /\ h.offers = g.offers
        /\ h.controllers = g.controllers /\ h.members = g.members
        /\ h.roomRevision = g.roomRevision /\ h.startRequested = g.startRequested
    BY <1>1 DEF SessionType
  <1>4. Staged(h) OBVIOUS
  <1> HIDE DEF h
  <1>5. OffersFit(h) /\ LoadKept(h) BY <1>3 DEF Fit, OffersFit, LoadKept
  <1>6. Steady(g, h) BY <1>3 DEF Steady, Keeps, Returns, SamePlan, Standing, SameTerms
  <1>7. Fit(h, A) BY <1>2, <1>4, <1>5 DEF Fit
  <1> QED BY <1>3, <1>6, <1>7 DEF h

\* More transfers keep a staged load supplied.
LEMMA MoreStaged ==
  ASSUME NEW g \in SessionType, Staged(g), NEW transfers, g.transfers \subseteq transfers
  PROVE  Staged([g EXCEPT !.transfers = transfers])
  <1> DEFINE h == [g EXCEPT !.transfers = transfers]
  <1>1. h.load = g.load /\ h.transfers = transfers BY DEF SessionType
  <1> HIDE DEF h
  <1>2. Staged(h) BY <1>1 DEF Staged
  <1> QED BY <1>2 DEF h

\* capture() fits.
LEMMA CaptureFit ==
  ASSUME NEW A, NEW g, Fit(g, A), NEW members \in SUBSET Member,
         NEW purpose \in Purpose, purpose # "controller" \/ g.status \notin Running
  PROVE  LET h == Capture(g, members, purpose)
         IN  Fit(h, A) /\ Steady(g, h) /\ h.status = g.status /\ h.offers = g.offers
  <1> DEFINE idle == {m \in members : \A t \in g.transfers : t.recipient # m}
             new == {NewTransfer(m, purpose, g.epoch) : m \in idle}
             transfers == g.transfers \cup new
  <1>1. Capture(g, members, purpose) = [g EXCEPT !.transfers = transfers] BY DEF Capture
  <1>2. g \in SessionType /\ g.epoch \in Nat /\ g.transfers \in SUBSET Transfer
    BY DEF Fit, SessionType
  <1>3. \A t \in new : t \in Transfer /\ t.purpose = purpose BY <1>2, NewTransferType
  <1>4. transfers \in SUBSET Transfer /\ g.transfers \subseteq transfers BY <1>2, <1>3
  <1>5. \/ g.status \notin Running
        \/ \A t \in transfers : t \in g.transfers \/ t.purpose # "controller"
    BY <1>3
  <1> HIDE DEF transfers
  <1>6. Staged([g EXCEPT !.transfers = transfers]) BY <1>2, <1>4, MoreStaged DEF Fit
  <1> QED BY <1>1, <1>4, <1>5, <1>6, TransfersFit

\* prepareIfReady() before the first play fits, and answers a requested Start.
LEMMA PrepareInitialFit ==
  ASSUME NEW A, NEW g, Fit(g, A), g.load = None, g.offers[Host] # None
  PROVE  LET h == PrepareInitial(g)
         IN  /\ Fit(h, A) /\ Keeps(g, h) /\ SamePlan(g, h)
             /\ g.epoch = 0 /\ ~g.startRequested => h.epoch = 0
             /\ g.epoch # 0 => h.epoch # 0
             /\ g.startRequested /\ h.epoch = 0 => ~h.startRequested
  <1>1. g.offers[Host].point \in Point /\ g.startRequested \in BOOLEAN
    BY OfferPoint, SessionAssumption DEF Fit, SessionType
  <1>2. CASE ~g.startRequested /\ g.epoch = 0 BY <1>2, SteadyAgain DEF PrepareInitial, Steady
  <1>3. CASE g.startRequested \/ g.epoch # 0
    <2>1. CASE InitialMismatch(g)
      <3> DEFINE h == Stop(g, "failed")
      <3>1. PrepareInitial(g) = h BY <1>3, <2>1 DEF PrepareInitial
      <3>2. Fit(h, A) /\ Steady(g, h) BY StopFit
      <3>3. h.epoch = g.epoch /\ ~h.startRequested BY DEF Stop, Fit, SessionType
      <3> QED BY <3>1, <3>2, <3>3, <1>3 DEF Steady
    <2>2. CASE ~InitialMismatch(g) BY <1>3, <2>2, <1>1, BeginFit DEF PrepareInitial
    <2> QED BY <2>1, <2>2
  <1> QED BY <1>1, <1>2, <1>3

\* A session that agrees on the host's paused point, or is ready to resume there.
LEMMA PrepareResumeFit ==
  ASSUME NEW A, NEW g, Fit(g, A), g.status \notin Running, g.load = None,
         g.hasPlayed, g.offers[Host] # None
  PROVE  LET h == PrepareResume(g)
         IN  Fit(h, A) /\ Keeps(g, h) /\ SamePlan(g, h) /\ h.epoch = g.epoch
  <1> DEFINE authority == g.offers[Host].point
             agreed    == [g EXCEPT !.point = authority]
             differing == {m \in Owners(g) : g.offers[m].point # authority}
             ready     == [agreed EXCEPT !.status = "resume_ready"]
  <1>1. g \in SessionType /\ Sound(g, A) BY DEF Fit
  <1>2. authority \in Point BY <1>1, OfferPoint, SessionAssumption
  <1> HIDE DEF authority
  <1>3. agreed \in SessionType /\ Sound(agreed, A) BY <1>1, <1>2, MovedSound
  <1>4. /\ agreed.status = g.status /\ agreed.epoch = g.epoch /\ agreed.load = g.load
        /\ agreed.pending = g.pending /\ agreed.proposed = g.proposed
        /\ agreed.hasPlayed = g.hasPlayed /\ agreed.offers = g.offers
        /\ agreed.controllers = g.controllers /\ agreed.members = g.members
        /\ agreed.roomRevision = g.roomRevision
        /\ agreed.startRequested = g.startRequested
    BY <1>1 DEF SessionType
  <1> HIDE DEF agreed
  <1>5. Fit(agreed, A) BY <1>3, <1>4 DEF Fit, OffersFit, LoadKept, Staged
  <1>7. CASE \E t \in g.transfers : t.purpose = "controller"
    BY <1>7, SteadyAgain DEF PrepareResume, Steady
  <1>8. CASE /\ \A t \in g.transfers : t.purpose # "controller"
             /\ differing # {}
    <2> DEFINE h == Capture(agreed, differing, "controller")
    <2>1. PrepareResume(g) = h BY <1>8 DEF PrepareResume, agreed, authority
    <2>2. differing \in SUBSET Member BY <1>1, OwnersType
    <2> HIDE DEF differing
    <2>3. Fit(h, A) /\ Steady(agreed, h) BY <1>4, <1>5, <2>2, CaptureFit DEF Purpose
    <2> HIDE DEF h
    <2> QED BY <1>4, <2>1, <2>3 DEF Steady, Keeps, Returns, SamePlan, Standing
  <1>9. CASE /\ \A t \in g.transfers : t.purpose # "controller"
             /\ differing = {}
    <2>1. PrepareResume(g) = ready BY <1>9 DEF PrepareResume, agreed, authority
    <2>2. ready \in SessionType /\ Sound(ready, A)
      BY <1>1, <1>3, <1>4, StatusSound DEF Sound, Anchored, Status, Running
    <2>3. /\ ready.epoch = g.epoch /\ ready.load = g.load
          /\ ready.pending = g.pending /\ ready.proposed = g.proposed
          /\ ready.hasPlayed = g.hasPlayed /\ ready.offers = g.offers
          /\ ready.controllers = g.controllers /\ ready.members = g.members
          /\ ready.roomRevision = g.roomRevision
          /\ ready.startRequested = g.startRequested
      BY <1>3, <1>4 DEF SessionType
    <2> HIDE DEF ready
    <2>4. Fit(ready, A) BY <2>2, <2>3 DEF Fit, OffersFit, LoadKept, Staged
    <2>5. Keeps(g, ready) /\ SamePlan(g, ready) BY <2>3 DEF Keeps, SamePlan, Standing
    <2> QED BY <2>1, <2>3, <2>4, <2>5
  <1> QED BY <1>7, <1>8, <1>9

\* prepareIfReady() of a session that does not run fits, and begins no timeline
\* that was not asked for.
LEMMA PrepareIfReadyFit ==
  ASSUME NEW A, NEW g, Fit(g, A), g.status \notin Running
  PROVE  LET h == PrepareIfReady(g)
         IN  /\ Fit(h, A) /\ Keeps(g, h) /\ SamePlan(g, h)
             /\ g.epoch = 0 /\ ~g.startRequested => h.epoch = 0
             /\ g.epoch # 0 => h.epoch # 0
  <1> DEFINE waits == \/ g.pending # None \/ g.load # None \/ ~OwnersOffered(g)
                      \/ ~g.hasPlayed /\ g.startRequested /\ ~InitialReady(g)
  <1>1. CASE waits BY <1>1, SteadyAgain DEF PrepareIfReady, Steady
  <1>2. CASE ~waits
    <2>1. g.load = None /\ OwnersOffered(g) BY <1>2
    <2>2. PrepareIfReady(g) = IF g.hasPlayed THEN PrepareResume(g) ELSE PrepareInitial(g)
      BY <1>2 DEF PrepareIfReady
    <2>3. g.offers[Host] # None BY <2>1 DEF Owners, OwnersOf, OwnersOffered
    <2> HIDE DEF waits
    <2> QED BY <2>1, <2>2, <2>3, PrepareResumeFit, PrepareInitialFit
  <1> QED BY <1>1, <1>2

-----------------------------------------------------------------------------
(* The same of role transactions                                           *)

\* failTransaction(), with a transaction or without, fits when no load is under way.
LEMMA FailTransactionFit ==
  ASSUME NEW A, NEW g, Fit(g, A), g.load = None
  PROVE  LET h == FailTransaction(g) IN Fit(h, A) /\ Steady(g, h)
  <1> DEFINE pending == IF g.pending = None THEN None
                        ELSE [g.pending EXCEPT !.status = "failed"]
             h == [g EXCEPT !.transfers = {}, !.offers = NoOffers,
                            !.status = "paused", !.pending = pending]
  <1>1. g \in SessionType BY DEF Fit
  <1>2. FailTransaction(g) = h BY <1>1 DEF FailTransaction, SessionType
  <1>3. h \in SessionType /\ Sound(h, A) BY <1>2, FailTransactionSound DEF Fit
  <1>4. /\ h.epoch = g.epoch /\ h.point = g.point /\ h.load = g.load
        /\ h.pending = pending /\ h.proposed = g.proposed
        /\ h.hasPlayed = g.hasPlayed /\ h.offers = NoOffers
        /\ h.controllers = g.controllers /\ h.members = g.members
        /\ h.roomRevision = g.roomRevision /\ h.startRequested = g.startRequested
    BY <1>1 DEF SessionType
  <1>5. pending # None => /\ g.pending # None /\ pending.revision = g.pending.revision
                          /\ pending.roles = g.pending.roles
    BY <1>1, PendingType DEF Pending
  <1> HIDE DEF h, pending
  <1>6. OffersFit(h) /\ LoadKept(h) /\ Staged(h) BY <1>4 DEF OffersFit, LoadKept, Staged, NoOffers
  <1>7. Steady(g, h) BY <1>4, <1>5 DEF Steady, Keeps, Returns, SamePlan, Standing
  <1> QED BY <1>2, <1>3, <1>6, <1>7 DEF Fit

\* requestRoles() proposes exactly what it is asked for, and freezes the game.
LEMMA RequestRolesFit ==
  ASSUME NEW A, NEW g, Fit(g, A), CanRequestRoles(g),
         NEW pending \in Pending, NEW owners \in [Seat -> Owner]
  PROVE  LET h == RequestRoles(g, pending, owners)
         IN  /\ Fit(h, A) /\ Keeps(g, h) /\ Returns(g, h)
             /\ h.pending = pending /\ h.proposed = owners
  <1> DEFINE h == [g EXCEPT !.pending = pending, !.proposed = owners]
  <1>1. g \in SessionType /\ Sound(g, A) /\ g.load = None /\ g.epoch # 0 BY DEF Fit, CanRequestRoles
  <1>2. h \in SessionType /\ Sound(h, A) /\ h.epoch # 0 BY <1>1, AskedSound
  <1>3. /\ h.epoch = g.epoch /\ h.point = g.point /\ h.load = g.load
        /\ h.pending = pending /\ h.proposed = owners /\ h.status = g.status
        /\ h.hasPlayed = g.hasPlayed /\ h.offers = g.offers
        /\ h.controllers = g.controllers /\ h.members = g.members
        /\ h.roomRevision = g.roomRevision /\ h.startRequested = g.startRequested
        /\ h.transfers = g.transfers
    BY <1>1 DEF SessionType
  <1>4. RequestRoles(g, pending, owners) = IF g.status = "pausing" THEN h ELSE Freeze(h)
    BY DEF RequestRoles
  <1> HIDE DEF h
  <1>5. Fit(h, A) BY <1>2, <1>3 DEF Fit, OffersFit, LoadKept, Staged
  <1>6. Keeps(g, h) /\ Returns(g, h) BY <1>1, <1>3 DEF Keeps, Returns, Standing
  <1> DEFINE f == Freeze(h)
  <1>8. Fit(f, A) /\ Steady(h, f) /\ f.pending = pending /\ f.proposed = owners
    BY <1>3, <1>1, <1>2, <1>5, FreezeFit DEF Fit
  <1> HIDE DEF f
  <1>9. Keeps(g, f) /\ Returns(g, f) BY <1>1, <1>3, <1>6, <1>8 DEF Steady, Keeps, Returns, Standing
  <1> QED BY <1>3, <1>4, <1>5, <1>6, <1>8, <1>9 DEF f

\* A transaction that is dropped fits.
LEMMA DropRolesFit ==
  ASSUME NEW A, NEW g, Fit(g, A)
  PROVE  LET h == DropRoles(g) IN Fit(h, A) /\ Steady(g, h)
  <1> DEFINE h == [g EXCEPT !.pending = None, !.proposed = None]
  <1>1. g \in SessionType /\ Sound(g, A) BY DEF Fit
  <1>2. h \in SessionType BY <1>1 DEF SessionType
  <1>3. /\ h.epoch = g.epoch /\ h.point = g.point /\ h.load = g.load
        /\ h.pending = None /\ h.status = g.status
        /\ h.hasPlayed = g.hasPlayed /\ h.offers = g.offers
        /\ h.controllers = g.controllers /\ h.members = g.members
        /\ h.roomRevision = g.roomRevision /\ h.startRequested = g.startRequested
        /\ h.transfers = g.transfers /\ h.required = g.required /\ h.acks = g.acks
    BY <1>1 DEF SessionType
  <1>4. DropRoles(g) = Stop(h, "paused") BY DEF DropRoles
  <1> HIDE DEF h
  <1>5. Sound(h, A) BY <1>1, <1>2, <1>3, GoingOnSound
  <1>6. Fit(h, A) BY <1>2, <1>3, <1>5 DEF Fit, OffersFit, LoadKept, Staged
  <1>7. Steady(g, h) BY <1>3 DEF Steady, Keeps, Returns, SamePlan, Standing, SameTerms
  <1> QED BY <1>4, <1>6, <1>7, StopFit, SteadyTwice

\* abortRoles() fits, and leaves no transaction.
LEMMA AbortRolesFit ==
  ASSUME NEW A, NEW g, Fit(g, A)
  PROVE  LET h == AbortRoles(g) IN Fit(h, A) /\ Steady(g, h)
  BY DropRolesFit, SteadyAgain DEF AbortRoles

\* gameRoleRetry proposes the same roles for the roster it names.
LEMMA RetryRolesFit ==
  ASSUME NEW A, NEW g, Fit(g, A), g.pending # None,
         NEW revision \in Nat, NEW owners \in [Seat -> Owner]
  PROVE  LET h == RetryRoles(g, revision, owners)
         IN  /\ Fit(h, A) /\ Keeps(g, h) /\ Returns(g, h)
             /\ h.pending.revision = revision
             /\ h.pending.roles = g.pending.roles /\ h.proposed = owners
  <1> DEFINE pending == [g.pending EXCEPT !.revision = revision, !.status = "freezing"]
             h == [g EXCEPT !.pending = pending, !.proposed = owners]
  <1>1. g \in SessionType /\ Sound(g, A) /\ g.load = None /\ g.epoch # 0
    BY DEF Fit, Sound, LoadAnchored, Anchored
  <1>2. /\ pending \in Pending /\ pending.revision = revision
        /\ pending.roles = g.pending.roles
    BY <1>1, PendingType DEF Pending
  <1>3. RetryRoles(g, revision, owners) = Freeze(h) BY <1>1 DEF RetryRoles, SessionType
  <1> HIDE DEF pending
  <1>4. h \in SessionType /\ Sound(h, A) /\ h.epoch # 0 BY <1>1, <1>2, AskedSound
  <1>5. /\ h.epoch = g.epoch /\ h.point = g.point /\ h.load = g.load
        /\ h.pending = pending /\ h.proposed = owners
        /\ h.hasPlayed = g.hasPlayed
        /\ h.controllers = g.controllers /\ h.members = g.members
        /\ h.roomRevision = g.roomRevision /\ h.startRequested = g.startRequested
    BY <1>1 DEF SessionType
  <1> HIDE DEF h
  <1> DEFINE f == Freeze(h)
  <1>7. Fit(f, A) /\ Steady(h, f) /\ f.pending = h.pending /\ f.proposed = h.proposed
    BY <1>1, <1>4, <1>5, FreezeFit DEF Staged
  <1> HIDE DEF f
  <1>8. Keeps(g, f) /\ Returns(g, f) BY <1>1, <1>5, <1>7 DEF Steady, Keeps, Returns, Standing
  <1> QED BY <1>2, <1>3, <1>5, <1>7, <1>8 DEF f

\* finishTransaction() that waits or fails leaves the assignment alone; one that
\* commits puts the new one in force, with every offer for the old one gone.
LEMMA FinishTransactionFit ==
  ASSUME NEW A, NEW g, Fit(g, A), NEW roomRevision, NEW controllers \in Assignment
  PROVE  LET h == FinishTransaction(g, roomRevision, controllers)
         IN  /\ Fit(h, A)
             /\ ~Commits(g, roomRevision) => Steady(g, h)
             /\ Commits(g, roomRevision) =>
                  /\ h.controllers = controllers /\ h.members = g.members
                  /\ h.roomRevision = g.roomRevision /\ h.pending = None
                  /\ h.load = None /\ h.epoch # 0
  <1> DEFINE f == FinishTransaction(g, roomRevision, controllers)
  <1>1. CASE ~TransactionDue(g) BY <1>1, SteadyAgain DEF Commits, FinishTransaction
  <1>2. CASE TransactionDue(g) /\ ~Commits(g, roomRevision)
    BY <1>2, FailTransactionFit DEF FinishTransaction, Commits, TransactionDue, Fit, Sound,
       LoadAnchored
  <1>3. CASE TransactionDue(g) /\ Commits(g, roomRevision)
    <2> DEFINE done == [g EXCEPT !.controllers = controllers, !.pending = None,
                                 !.proposed = None]
               h == [done EXCEPT !.offers = NoOffers, !.status = "paused"]
               b == Begin(done, g.point)
    <2>1. f = IF g.restored THEN h ELSE b BY <1>3 DEF FinishTransaction
    <2>2. g \in SessionType /\ Sound(g, A) BY DEF Fit
    <2>3. g.load = None /\ g.epoch # 0 /\ g.point \in Point /\ g.issued \in Nat
      BY <1>3, <2>2 DEF TransactionDue, Sound, LoadAnchored, Anchored, SessionType
    <2>4. f \in SessionType /\ Sound(f, A) BY <2>2, FinishTransactionSound
    <2>5. done \in SessionType BY <2>2, CommittedType
    <2>6. /\ done.epoch = g.epoch /\ done.load = g.load /\ done.pending = None
          /\ done.controllers = controllers /\ done.members = g.members
          /\ done.roomRevision = g.roomRevision /\ done.issued = g.issued
      BY <2>2 DEF SessionType
    <2> HIDE DEF done, f
    <2>7. /\ h.epoch = g.epoch /\ h.load = None /\ h.pending = None
          /\ h.controllers = controllers /\ h.members = g.members
          /\ h.roomRevision = g.roomRevision /\ h.offers = NoOffers
      BY <2>3, <2>5, <2>6 DEF SessionType
    <2>8. /\ b.epoch = g.issued + 1 /\ b.load = None /\ b.pending = None
          /\ b.controllers = controllers /\ b.members = g.members
          /\ b.roomRevision = g.roomRevision /\ b.status = "starting"
      BY <2>3, <2>5, <2>6 DEF Begin, BeginAt, SessionType
    <2> HIDE DEF h, b
    <2>9. /\ f.controllers = controllers /\ f.members = g.members
          /\ f.roomRevision = g.roomRevision /\ f.pending = None
          /\ f.load = None /\ f.epoch # 0
          /\ f.offers = NoOffers \/ f.status = "starting"
      BY <2>1, <2>3, <2>7, <2>8
    <2>10. OffersFit(f) /\ LoadKept(f) /\ Staged(f)
      BY <2>9 DEF OffersFit, LoadKept, Staged, NoOffers, Running
    <2> QED BY <1>3, <2>4, <2>9, <2>10 DEF Fit, f
  <1> QED BY <1>1, <1>2, <1>3

-----------------------------------------------------------------------------
(* The same of configure()                                                 *)

\* A load that is not rolling back was proposed on the assignment in force, and
\* one that keeps the cartridge needs its owners.
OnTerms(g) ==
  Standing(g) =>
    /\ g.load.controllers = g.controllers.revision
    /\ g.load.replacement = None => g.load.required = Owners(g)

\* Nobody commits a load before everybody it needs has prepared it.
Prepared(g) ==
  Standing(g) /\ g.load.phase = "committing" => g.load.required \subseteq g.load.prepared

\* The assignment may change while a game plays, or before there is a timeline.
Handed(g, controllers) ==
  \/ controllers = g.controllers
  \/ /\ g.pending = None
     /\ g.epoch = 0 \/ g.status = "playing"
     /\ g.load # None => controllers.revision # g.controllers.revision

\* Terms that hold in full hold.
LEMMA InForceOnTerms == \A g : InForce(g) => OnTerms(g)
  BY DEF InForce, OnTerms

\* A method that keeps the terms of a load keeps it on terms and prepared.
LEMMA KeepsTerms ==
  ASSUME NEW g, NEW h, Keeps(g, h)
  PROVE  (OnTerms(g) => OnTerms(h)) /\ (Prepared(g) => Prepared(h))
  BY DEF Keeps, OnTerms, Prepared, SameTerms, Owners

\* An aborted load does not stand.
LEMMA AbortLoadEnds ==
  ASSUME NEW g \in SessionType
  PROVE  ~Standing(AbortLoad(g))
  <1>1. CASE ~Standing(g) BY <1>1 DEF AbortLoad, Standing
  <1>2. CASE Standing(g)
    <2> DEFINE status == IF g.load.initial THEN "waiting" ELSE "paused"
               unmarked == {m \in LoadMembers(g.load) : g.load.boundaries[m] = None}
               l == [g.load EXCEPT !.phase = "rolling_back", !.rolledBack = @ \cup unmarked]
               h == [g EXCEPT !.transfers = {}, !.offers = NoOffers, !.acks = {},
                              !.status = status, !.load = l]
    <2>1. AbortLoad(g) = FinishLoadRollback(h, FALSE) BY <1>2 DEF AbortLoad, SessionType, Standing
    <2>2. l.phase = "rolling_back" BY <1>2, LoadType DEF Standing, Load
    <2> HIDE DEF l
    <2>3. h \in [DOMAIN g -> UNION {{h[x]} : x \in DOMAIN g}] /\ h.load = l BY DEF SessionType
    <2>4. h.load.phase = "rolling_back" BY <2>2, <2>3
    <2>5. FinishLoadRollback(h, FALSE) = h \/ FinishLoadRollback(h, FALSE).load = None
      BY <2>3 DEF FinishLoadRollback, SessionType
    <2> QED BY <2>1, <2>4, <2>5 DEF Standing
  <1> QED BY <1>1, <1>2

\* The session configure() works on, once it took over the roster and dropped
\* the offers that no longer stand.
Offered(g, members, controllers, revision) ==
  [KeepCurrentOffers(TakeRoster(g, members, controllers), revision)
     EXCEPT !.roomRevision = revision]

\* It differs from the session before in what it took over, and in its offers.
LEMMA OfferedFields ==
  ASSUME NEW A, NEW g \in SessionType, Sound(g, A), NEW members \in [Member -> View],
         NEW controllers \in Assignment, NEW revision \in Nat, Handed(g, controllers)
  PROVE  LET h == Offered(g, members, controllers, revision)
         IN  /\ h \in SessionType /\ Sound(h, A)
             /\ h.members = members /\ h.controllers = controllers
             /\ h.roomRevision = revision
             /\ h.load = g.load /\ h.pending = g.pending /\ h.proposed = g.proposed
             /\ h.status = g.status /\ h.epoch = g.epoch /\ h.point = g.point
             /\ h.hasPlayed = g.hasPlayed /\ h.startRequested = g.startRequested
             /\ h.transfers = g.transfers /\ h.required = g.required
             /\ g.epoch # 0 => h.offers = g.offers
             /\ g.epoch = 0 =>
                  \A m \in Member :
                    h.offers[m] # None =>
                      /\ h.offers[m] = g.offers[m]
                      /\ h.offers[m].revision = controllers.revision
                      /\ h.offers[m].roomRevision = revision
  <1> DEFINE taken == TakeRoster(g, members, controllers)
             kept == KeepCurrentOffers(taken, revision)
             h == [kept EXCEPT !.roomRevision = revision]
             Stands(m) == /\ revision = taken.roomRevision
                          /\ Available(taken, m)
                          /\ taken.offers[m] # None
                          /\ taken.offers[m].revision = taken.controllers.revision
                          /\ taken.offers[m].roomRevision = revision
             offers == [m \in Member |-> IF Stands(m) THEN taken.offers[m] ELSE None]
  <1>1. taken \in SessionType /\ Sound(taken, A) BY TakeRosterSound
  <1>2. /\ taken.members = members /\ taken.controllers = controllers
        /\ taken.load = g.load /\ taken.pending = g.pending
        /\ taken.proposed = g.proposed /\ taken.status = g.status
        /\ taken.epoch = g.epoch /\ taken.point = g.point
        /\ taken.hasPlayed = g.hasPlayed /\ taken.startRequested = g.startRequested
        /\ taken.transfers = g.transfers /\ taken.required = g.required
        /\ taken.offers = g.offers
    BY DEF TakeRoster, SessionType, Handed
  <1> HIDE DEF taken
  <1>3. kept \in SessionType /\ Sound(kept, A) BY <1>1, KeepCurrentOffersSound
  <1>4. kept = IF taken.epoch # 0 THEN taken ELSE [taken EXCEPT !.offers = offers]
    BY DEF KeepCurrentOffers
  <1>5. \A m \in Member : offers[m] # None =>
          /\ offers[m] = g.offers[m]
          /\ offers[m].revision = controllers.revision
          /\ offers[m].roomRevision = revision
    BY <1>2
  <1> HIDE DEF offers
  <1>6. /\ kept.members = members /\ kept.controllers = controllers
        /\ kept.load = g.load /\ kept.pending = g.pending
        /\ kept.proposed = g.proposed /\ kept.status = g.status
        /\ kept.epoch = g.epoch /\ kept.point = g.point
        /\ kept.hasPlayed = g.hasPlayed /\ kept.startRequested = g.startRequested
        /\ kept.transfers = g.transfers /\ kept.required = g.required
        /\ kept.offers = IF g.epoch # 0 THEN g.offers ELSE offers
    BY <1>1, <1>2, <1>4 DEF SessionType
  <1> HIDE DEF kept
  <1>7. h \in SessionType /\ Sound(h, A) BY <1>3, RevisionSound
  <1>8. /\ h.members = members /\ h.controllers = controllers
        /\ h.load = g.load /\ h.pending = g.pending
        /\ h.proposed = g.proposed /\ h.status = g.status
        /\ h.epoch = g.epoch /\ h.point = g.point
        /\ h.hasPlayed = g.hasPlayed /\ h.startRequested = g.startRequested
        /\ h.transfers = g.transfers /\ h.required = g.required
        /\ h.offers = IF g.epoch # 0 THEN g.offers ELSE offers
        /\ h.roomRevision = revision
    BY <1>3, <1>6 DEF SessionType
  <1>9. Offered(g, members, controllers, revision) = h BY DEF Offered, kept, taken
  <1> HIDE DEF h
  <1> QED BY <1>5, <1>7, <1>8, <1>9

\* What configure() makes of that session.
Configured(offered, controllers, shrank, hostLost, revision) ==
  LET loading == IF LoadDisturbed(offered, controllers)
                   THEN AbortLoad(offered) ELSE offered
      counted == StopUnpreparedCountdown(loading)
      linked  == [counted EXCEPT !.transfers =
                    {t \in @ : Deliverable(counted, t)}]
      roles   == IF /\ linked.pending # None
                    /\ shrank \/ linked.pending.revision # revision
                   THEN FailTransaction(linked) ELSE linked
  IN  FreezeForHost(StopUnavailableBarrier(roles), hostLost)

LEMMA ConfigureInTwo ==
  ASSUME NEW g, NEW members, NEW controllers, NEW revision
  PROVE  Configure(g, members, controllers, revision) =
           Configured(Offered(g, members, controllers, revision), controllers,
                      RosterShrank(g.members, members), HostLost(g, members), revision)
  BY DEF Configure, Configured, Offered

\* A transfer nobody can receive is dropped; a staged load that is in force keeps
\* the transfers it waits for.
LEMMA LinkedFit ==
  ASSUME NEW A, NEW g, Fit(g, A), InForce(g)
  PROVE  LET h == [g EXCEPT !.transfers = {t \in @ : Deliverable(g, t)}]
         IN  Fit(h, A) /\ Steady(g, h)
  <1> DEFINE transfers == {t \in g.transfers : Deliverable(g, t)}
             k == [g EXCEPT !.transfers = transfers]
  <1>1. g \in SessionType /\ transfers \in SUBSET Transfer BY DEF Fit, SessionType
  <1>2. k.load = g.load /\ k.transfers = transfers BY <1>1 DEF SessionType
  <1>3. \A t \in transfers : t \in g.transfers OBVIOUS
  <1> HIDE DEF k
  <1>4. Staged(k)
    <2> SUFFICES ASSUME g.load # None, g.load.phase = "staging", g.load.replacement = None,
                        NEW m \in g.load.required \ (g.load.prepared \cup {Host})
                 PROVE  \E t \in transfers : t.recipient = m /\ t.purpose = "load"
      BY <1>2 DEF Staged
    <2>1. PICK t \in g.transfers : t.recipient = m /\ t.purpose = "load" BY DEF Fit, Staged
    <2>2. Available(g, m) BY DEF Standing, InForce, LoadMembers
    <2> QED BY <2>1, <2>2 DEF Deliverable
  <1> HIDE DEF transfers
  <1>5. Fit(k, A) /\ Steady(g, k) BY <1>1, <1>3, <1>4, TransfersFit DEF k
  <1> QED BY <1>5 DEF k, transfers

\* Stopping a countdown or a barrier, and freezing for a host that left.
LEMMA StopUnpreparedCountdownFit ==
  ASSUME NEW A, NEW g, Fit(g, A)
  PROVE  LET h == StopUnpreparedCountdown(g) IN Fit(h, A) /\ Steady(g, h)
  BY StopFit, SteadyAgain DEF StopUnpreparedCountdown

LEMMA StopUnavailableBarrierFit ==
  ASSUME NEW A, NEW g, Fit(g, A)
  PROVE  LET h == StopUnavailableBarrier(g) IN Fit(h, A) /\ Steady(g, h)
  BY StopFit, SteadyAgain DEF StopUnavailableBarrier

LEMMA FreezeForHostFit ==
  ASSUME NEW A, NEW g, Fit(g, A), NEW hostLost, hostLost => g.epoch # 0
  PROVE  LET h == FreezeForHost(g, hostLost) IN Fit(h, A) /\ Steady(g, h)
BY SteadyAgain, FreezeFit DEF FreezeForHost, Fit, Sound, Anchored, LoadKept

\* configure() hands the session the roster and the assignment, and leaves a load
\* that is not rolling back in force: one whose terms changed was aborted.
LEMMA ConfigureFit ==
  ASSUME NEW A, NEW g, Fit(g, A), OnTerms(g), Prepared(g),
         NEW members \in [Member -> View], NEW controllers \in Assignment,
         NEW revision \in Nat, Handed(g, controllers)
  PROVE  LET h == Configure(g, members, controllers, revision)
         IN  /\ Fit(h, A) /\ InForce(h) /\ Prepared(h)
             /\ h.controllers = controllers /\ h.members = members
             /\ h.roomRevision = revision
             /\ h.startRequested => g.startRequested
             /\ Returns(g, h) /\ SamePlan(g, h)
  <1> DEFINE shrank   == RosterShrank(g.members, members)
             hostLost == HostLost(g, members)
             offered  == Offered(g, members, controllers, revision)
             loading  == IF LoadDisturbed(offered, controllers)
                           THEN AbortLoad(offered) ELSE offered
             counted  == StopUnpreparedCountdown(loading)
             linked   == [counted EXCEPT !.transfers =
                            {t \in @ : Deliverable(counted, t)}]
             roles    == IF /\ linked.pending # None
                            /\ shrank \/ linked.pending.revision # revision
                           THEN FailTransaction(linked) ELSE linked
             stopped  == StopUnavailableBarrier(roles)
             h        == FreezeForHost(stopped, hostLost)
             Good(x)  == Fit(x, A) /\ Steady(loading, x)
  <1>1. g \in SessionType /\ Sound(g, A) BY DEF Fit
  <1>2. /\ offered \in SessionType /\ Sound(offered, A)
        /\ offered.members = members /\ offered.controllers = controllers
        /\ offered.roomRevision = revision
        /\ offered.load = g.load /\ offered.pending = g.pending
        /\ offered.proposed = g.proposed
        /\ offered.status = g.status /\ offered.epoch = g.epoch /\ offered.point = g.point
        /\ offered.hasPlayed = g.hasPlayed /\ offered.startRequested = g.startRequested
        /\ offered.transfers = g.transfers
        /\ g.epoch # 0 => offered.offers = g.offers
        /\ g.epoch = 0 =>
             \A m \in Member :
               offered.offers[m] # None =>
                 /\ offered.offers[m] = g.offers[m]
                 /\ offered.offers[m].revision = controllers.revision
                 /\ offered.offers[m].roomRevision = revision
    BY <1>1, OfferedFields
  <1>3. Configure(g, members, controllers, revision) = h BY ConfigureInTwo DEF Configured
  <1> HIDE DEF offered
  <1>4. OffersFit(offered) BY <1>2 DEF OffersFit, Fit, Handed, Running
  <1>5. LoadKept(offered)
    <2>1. ASSUME g.load # None PROVE offered.offers = NoOffers
      BY <2>1, <1>2 DEF Fit, LoadKept, SessionType, NoOffers
    <2> QED BY <1>2, <2>1 DEF Fit, LoadKept
  <1>6. Staged(offered) BY <1>2 DEF Fit, Staged
  <1>7. Fit(offered, A) BY <1>2, <1>4, <1>5, <1>6 DEF Fit
  <1>8. Returns(g, offered) /\ SamePlan(g, offered) /\ Prepared(offered)
    BY <1>2 DEF Returns, SamePlan, Prepared, Standing
  <1>9. /\ Fit(loading, A) /\ InForce(loading) /\ Steady(offered, loading)
    <2>1. CASE LoadDisturbed(offered, controllers)
      <3>1. loading = AbortLoad(offered) BY <2>1
      <3>2. ~Standing(AbortLoad(offered)) BY <1>2, AbortLoadEnds
      <3> HIDE DEF loading
      <3> QED BY <3>1, <3>2, <1>7, AbortLoadFit DEF InForce
    <2>2. CASE ~LoadDisturbed(offered, controllers)
      <3>1. loading = offered BY <2>2
      <3>2. InForce(offered)
        <4> SUFFICES ASSUME Standing(offered)
                     PROVE  /\ offered.load.controllers = offered.controllers.revision
                            /\ offered.load.revision = offered.roomRevision
                            /\ \A m \in LoadMembers(offered.load) : Available(offered, m)
                            /\ offered.load.replacement = None =>
                                 offered.load.required = Owners(offered)
          BY DEF InForce
        <4>1. /\ offered.load.revision = offered.roomRevision
              /\ offered.load.controllers = controllers.revision
              /\ \A m \in LoadMembers(offered.load) : Available(offered, m)
          BY <2>2 DEF LoadDisturbed, Standing
        <4>2. Standing(g) BY <1>2 DEF Standing
        <4> QED BY <1>2, <4>1, <4>2 DEF OnTerms, Owners, Handed, Standing
      <3> HIDE DEF loading
      <3> QED BY <1>7, <3>1, <3>2, SteadyAgain
    <2> QED BY <2>1, <2>2
  <1> HIDE DEF loading
  <1>10. Good(counted) BY <1>9, StopUnpreparedCountdownFit
  <1> HIDE DEF counted
  <1>11. Good(linked)
    <2>1. InForce(counted) BY <1>9, <1>10, SteadyInForce DEF Steady
    <2> HIDE DEF linked
    <2>2. Fit(linked, A) /\ Steady(counted, linked) BY <1>10, <2>1, LinkedFit DEF linked
    <2> QED BY <1>10, <2>2, SteadyTwice
  <1> HIDE DEF linked
  <1>12. Good(roles)
    <2>1. CASE roles = linked BY <1>11, <2>1
    <2>2. CASE roles # linked
      <3>1. roles = FailTransaction(linked) /\ linked.pending # None BY <2>2
      <3>2. linked.load = None BY <1>11, <3>1 DEF Fit, Sound, LoadAnchored
      <3>4. Fit(roles, A) /\ Steady(linked, roles) BY <3>1, <1>11, <3>2, FailTransactionFit
      <3> HIDE DEF roles
      <3> QED BY <1>11, <3>4, SteadyTwice
    <2> QED BY <2>1, <2>2
  <1> HIDE DEF roles
  <1>13. Good(stopped)
    <2> HIDE DEF stopped
    <2>1. Fit(stopped, A) /\ Steady(roles, stopped) BY <1>12, StopUnavailableBarrierFit DEF stopped
    <2> QED BY <1>12, <2>1, SteadyTwice
  <1> HIDE DEF stopped
  <1>14. Returns(g, loading) BY <1>8, <1>9 DEF Steady, Returns
  <1>15. hostLost => stopped.epoch # 0
    BY <1>13, <1>14, <1>1, ReturnsEpoch DEF Steady, Returns, Fit, HostLost
  <1> HIDE DEF hostLost
  <1>16. Good(h)
    <2> HIDE DEF h
    <2>1. Fit(h, A) /\ Steady(stopped, h) BY <1>13, <1>15, FreezeForHostFit DEF h
    <2> QED BY <1>13, <2>1, SteadyTwice
  <1> HIDE DEF h
  <1>17. Steady(offered, h) BY <1>9, <1>16, SteadyTwice
  <1>18. InForce(h) BY <1>9, <1>16, SteadyInForce DEF Steady
  <1>19. Prepared(h) BY <1>8, <1>17, KeepsTerms DEF Steady
  <1>20. Returns(g, h) BY <1>8, <1>17 DEF Steady, Returns
  <1>21. SamePlan(g, h) BY <1>8, <1>17 DEF Steady, SamePlan
  <1>22. /\ h.controllers = controllers /\ h.members = members
         /\ h.roomRevision = revision
         /\ h.startRequested => g.startRequested
    BY <1>2, <1>17 DEF Steady, Keeps
  <1> QED BY <1>3, <1>16, <1>18, <1>19, <1>20, <1>21, <1>22

\* A configure() that does not disturb a load leaves it alone.
LEMMA ConfigureUndisturbed ==
  ASSUME NEW A, NEW g, Fit(g, A), g.load # None,
         NEW members \in [Member -> View], NEW controllers \in Assignment,
         NEW revision \in Nat, Handed(g, controllers),
         ~LoadDisturbed(Offered(g, members, controllers, revision), controllers)
  PROVE  Configure(g, members, controllers, revision).load # None
  <1> DEFINE shrank   == RosterShrank(g.members, members)
             hostLost == HostLost(g, members)
             offered  == Offered(g, members, controllers, revision)
             linked   == [offered EXCEPT !.transfers =
                            {t \in @ : Deliverable(offered, t)}]
             h        == FreezeForHost(linked, hostLost)
  <1>1. g \in SessionType /\ Sound(g, A) BY DEF Fit
  <1>2. g.pending = None /\ g.status \notin Running
    BY DEF Fit, Sound, LoadAnchored, LoadKept, Resting, Running
  <1>3. /\ offered \in SessionType
        /\ offered.load = g.load /\ offered.pending = g.pending
        /\ offered.status = g.status
    BY <1>1, OfferedFields
  <1>4. Configure(g, members, controllers, revision)
          = Configured(offered, controllers, shrank, hostLost, revision)
    BY ConfigureInTwo
  <1>5. ~LoadDisturbed(offered, controllers) OBVIOUS
  <1> HIDE DEF offered
  <1>6. StopUnpreparedCountdown(offered) = offered
    BY <1>2, <1>3 DEF StopUnpreparedCountdown, Running
  <1>7. linked.load = g.load /\ linked.pending = None /\ linked.status = g.status
    BY <1>2, <1>3 DEF SessionType
  <1>8. Configured(offered, controllers, shrank, hostLost, revision)
          = FreezeForHost(StopUnavailableBarrier(linked), hostLost)
    BY <1>5, <1>6, <1>7 DEF Configured
  <1>9. linked.load # None /\ "load" \in DOMAIN linked BY <1>3, <1>7 DEF SessionType
  <1> HIDE DEF linked
  <1>10. StopUnavailableBarrier(linked) = linked BY <1>2, <1>7 DEF StopUnavailableBarrier, Running
  <1>11. Freeze(linked).load = linked.load BY <1>9 DEF Freeze
  <1> QED BY <1>4, <1>8, <1>9, <1>10, <1>11 DEF FreezeForHost

\* One that brings nothing new does not disturb a load that is in force, and
\* none disturbs a load that is rolling back.
LEMMA ConfigureAgain ==
  ASSUME NEW A, NEW g, Fit(g, A), g.load # None, InForce(g),
         NEW members \in [Member -> View],
         members = g.members \/ g.load.phase = "rolling_back"
  PROVE  Configure(g, members, g.controllers, g.roomRevision).load # None
  <1> DEFINE offered == Offered(g, members, g.controllers, g.roomRevision)
  <1>1. /\ g \in SessionType /\ Sound(g, A)
        /\ g.controllers \in Assignment /\ g.roomRevision \in Nat
        /\ Handed(g, g.controllers)
    BY DEF Fit, SessionType, Handed
  <1>2. /\ offered.members = members /\ offered.roomRevision = g.roomRevision
        /\ offered.load = g.load /\ offered.hasPlayed = g.hasPlayed
    BY <1>1, OfferedFields
  <1> HIDE DEF offered
  <1>3. ~LoadDisturbed(offered, g.controllers)
    BY <1>2 DEF LoadDisturbed, InForce, Standing, Available
  <1> QED BY <1>1, <1>3, ConfigureUndisturbed DEF offered

-----------------------------------------------------------------------------
(* The same of coordinated loads                                           *)

\* What every method of a session leaves behind.
Coherent(g, A) == Fit(g, A) /\ OnTerms(g) /\ Prepared(g)

\* The roster and the assignment a session was last told.
SameRoster(g, h) ==
  /\ h.controllers = g.controllers /\ h.members = g.members
  /\ h.roomRevision = g.roomRevision
  /\ h.startRequested => g.startRequested

\* What a load was proposed for.
SameDeal(l, k) ==
  /\ l.required = k.required /\ l.freezeRequired = k.freezeRequired
  /\ l.revision = k.revision /\ l.controllers = k.controllers
  /\ l.replacement = k.replacement
  /\ l.phase # "rolling_back" => k.phase # "rolling_back"

\* A method that keeps what a coherent session rests on leaves it coherent.
LEMMA KeepsCoherent ==
  ASSUME NEW A, NEW g, NEW h, Coherent(g, A), Fit(h, A), Keeps(g, h)
  PROVE  Coherent(h, A) /\ SameRoster(g, h)
  BY KeepsTerms DEF Coherent, Keeps, SameRoster

\* A load that goes on with its promises kept leaves the session coherent.
LEMMA LoadStepFit ==
  ASSUME NEW A, NEW g \in SessionType, Sound(g, A), OffersFit(g), LoadKept(g),
         OnTerms(g), g.load # None, NEW l \in Load,
         SameAnchor(l, g.load), SameDeal(l, g.load),
         ~l.initial => g.point = l.oldPoint,
         l.phase = "staging" /\ l.replacement = None =>
           \A m \in l.required \ (l.prepared \cup {Host}) :
             \E t \in g.transfers : t.recipient = m /\ t.purpose = "load",
         l.phase = "committing" => l.required \subseteq l.prepared
  PROVE  LET h == [g EXCEPT !.load = l]
         IN  /\ Coherent(h, A) /\ SameRoster(g, h) /\ h.load = l
             /\ h.epoch = g.epoch /\ h.point = g.point /\ h.status = g.status
             /\ h.transfers = g.transfers /\ h.offers = g.offers
             /\ InForce(g) => InForce(h)
  <1> DEFINE h == [g EXCEPT !.load = l]
  <1>1. h \in SessionType /\ Sound(h, A) BY LoadStepSound
  <1>2. /\ h.load = l /\ h.epoch = g.epoch /\ h.point = g.point /\ h.status = g.status
        /\ h.transfers = g.transfers /\ h.offers = g.offers /\ h.hasPlayed = g.hasPlayed
        /\ h.controllers = g.controllers /\ h.members = g.members
        /\ h.roomRevision = g.roomRevision /\ h.startRequested = g.startRequested
    BY DEF SessionType
  <1> HIDE DEF h
  <1>3. Fit(h, A) BY <1>1, <1>2 DEF Fit, OffersFit, LoadKept, Staged, SameDeal
  <1>4. OnTerms(h) /\ Prepared(h) BY <1>2 DEF OnTerms, Prepared, Standing, SameDeal, Owners
  <1>5. InForce(g) => InForce(h)
    BY <1>2 DEF InForce, Standing, SameDeal, LoadMembers, Available, Owners
  <1>6. Coherent(h, A) /\ SameRoster(g, h) BY <1>2, <1>3, <1>4 DEF Coherent, SameRoster
  <1> QED BY <1>2, <1>5, <1>6 DEF h

\* gameLoadPropose starts a load on the terms in force.
LEMMA ProposeLoadFit ==
  ASSUME NEW A, NEW g, Fit(g, A), CanPropose(g), NEW target \in Point,
         NEW replacement \in Game \cup {None}, NEW owners \in [Seat -> Owner],
         replacement = None => owners = g.controllers.owners
  PROVE  LET h == ProposeLoad(g, target, replacement, owners)
         IN  Coherent(h, A) /\ SameRoster(g, h) /\ h.epoch = g.epoch
  <1> DEFINE running == g.status = "playing"
             load == [phase |-> "freezing", epoch |-> g.issued + 1, target |-> target,
                      held |-> ~running, required |-> OwnersOf(owners),
                      freezeRequired |-> Owners(g), initial |-> g.epoch = 0,
                      resume |-> running, revision |-> g.roomRevision,
                      controllers |-> g.controllers.revision,
                      replacement |-> replacement, oldEpoch |-> g.epoch,
                      oldPoint |-> g.point,
                      boundaries |-> [m \in Member |-> None],
                      prepared |-> {}, committed |-> {}, rolledBack |-> {}]
             h == [g EXCEPT !.transfers = {}, !.load = load, !.offers = NoOffers,
                            !.issued = g.issued + 1]
  <1>1. ProposeLoad(g, target, replacement, owners) = IF running THEN Freeze(h) ELSE h
    BY DEF ProposeLoad
  <1>2. g \in SessionType /\ Sound(g, A) BY DEF Fit
  <1>3. /\ g.issued \in Nat /\ g.roomRevision \in Nat /\ g.epoch \in Nat
        /\ g.controllers.revision \in Nat /\ g.point \in Point \cup {NoPoint}
    BY <1>2 DEF SessionType, Assignment
  <1>4. load \in Load BY <1>2, <1>3, OwnersOfType, OwnersType DEF Load, Phase
  <1>5. /\ load.phase = "freezing" /\ load.oldPoint = g.point
        /\ load.oldEpoch = g.epoch /\ load.epoch # 0
        /\ load.initial <=> g.epoch = 0
        /\ load.freezeRequired = Owners(g) /\ load.required = OwnersOf(owners)
        /\ load.controllers = g.controllers.revision /\ load.replacement = replacement
    <2>1. g.issued + 1 # 0 BY <1>3
    <2>2. load.initial = (g.epoch = 0) OBVIOUS
    <2> QED BY <2>1, <2>2
  <1> HIDE DEF load
  <1>6. h \in SessionType
    <2>1. g.issued + 1 \in Nat BY <1>3
    <2> QED BY <2>1, <1>2, <1>4, ProposedType
  <1>7. /\ h.status = g.status /\ h.epoch = g.epoch /\ h.point = g.point
        /\ h.load = load /\ h.pending = g.pending /\ h.proposed = g.proposed
        /\ h.hasPlayed = g.hasPlayed /\ h.required = g.required
        /\ h.acks = g.acks /\ h.transfers = {} /\ h.offers = NoOffers
        /\ h.controllers = g.controllers /\ h.members = g.members
        /\ h.roomRevision = g.roomRevision /\ h.startRequested = g.startRequested
    BY <1>2 DEF SessionType
  <1> HIDE DEF h
  <1>8. Sound(h, A) BY <1>2, <1>5, <1>7 DEF CanPropose, Sound, Anchored, LoadAnchored, Acked
  <1>9. /\ Staged(h) /\ Prepared(h) /\ SameRoster(g, h)
        /\ Host \in load.freezeRequired
    BY <1>5, <1>7 DEF Staged, Prepared, SameRoster, Owners, OwnersOf
  <1>10. OnTerms(h) BY <1>5, <1>7 DEF OnTerms, Owners
  <1>11. CASE running
    <2>1. h.epoch # 0 BY <1>2, <1>7, <1>11 DEF Sound, Anchored
    <2>2. /\ h.load # None => (~h.load.initial => h.point = h.load.oldPoint)
          /\ h.load # None => Host \in h.load.freezeRequired
      BY <1>5, <1>7, <1>9
    <2> DEFINE f == Freeze(h)
    <2>3. Fit(f, A) /\ Steady(h, f) BY <1>6, <1>8, <1>9, <2>1, <2>2, FreezeFit
    <2>4. f.epoch = h.epoch BY <1>6 DEF Freeze, SessionType
    <2> HIDE DEF f
    <2>5. OnTerms(f) /\ Prepared(f) BY <1>9, <1>10, <2>3, KeepsTerms DEF Steady
    <2>6. SameRoster(g, f) BY <1>9, <2>3 DEF Steady, Keeps, SameRoster
    <2> QED BY <1>1, <1>7, <1>11, <2>3, <2>4, <2>5, <2>6 DEF Coherent, f
  <1>12. CASE ~running
    BY <1>7, <1>12, <1>5, <1>9, <1>1, <1>6, <1>8, <1>10 DEF CanPropose, Resting, OffersFit,
       LoadKept, NoOffers, Coherent, Fit
  <1> QED BY <1>11, <1>12

\* stageLoad() sends the loaded state to everybody it will wait for.
LEMMA StageLoadFit ==
  ASSUME NEW A, NEW g, Coherent(g, A), Standing(g)
  PROVE  LET h == StageLoad(g)
         IN  /\ Coherent(h, A) /\ SameRoster(g, h) /\ h.epoch = g.epoch
             /\ h.load # None
             /\ InForce(g) => InForce(h)
  <1> DEFINE l == [g.load EXCEPT !.phase = "staging"]
             status == IF g.load.initial THEN "waiting" ELSE "paused"
             new == {NewTransfer(m, "load", g.load.epoch) : m \in g.load.required \ {Host}}
             transfers == g.transfers \cup new
             h == [g EXCEPT !.load = l, !.status = status, !.transfers = transfers]
  <1>1. g \in SessionType /\ Sound(g, A) /\ g.load # None /\ g.load \in Load
    BY LoadType DEF Coherent, Fit, Standing
  <1>2. StageLoad(g) = h BY <1>1 DEF StageLoad, SessionType
  <1>3. h \in SessionType /\ Sound(h, A) BY <1>1, <1>2, StageLoadSound
  <1>4. /\ l \in Load /\ SameAnchor(l, g.load) /\ SameDeal(l, g.load)
        /\ l.phase = "staging" /\ l.oldPoint = g.load.oldPoint
    BY <1>1 DEF Load, Phase, SameAnchor, SameDeal, Standing
  <1>5. \A m \in l.required \ {Host} :
          \E t \in transfers : t.recipient = m /\ t.purpose = "load"
    <2> SUFFICES ASSUME NEW m \in l.required \ {Host}
                 PROVE  \E t \in transfers : t.recipient = m /\ t.purpose = "load"
      OBVIOUS
    <2>1. NewTransfer(m, "load", g.load.epoch) \in transfers BY <1>4 DEF SameDeal
    <2> QED BY <2>1 DEF NewTransfer
  <1>6. status \in {"waiting", "paused"} OBVIOUS
  <1> HIDE DEF l, status, transfers
  <1>7. /\ h.load = l /\ h.status = status /\ h.transfers = transfers
        /\ h.epoch = g.epoch /\ h.point = g.point /\ h.offers = g.offers
        /\ h.hasPlayed = g.hasPlayed
        /\ h.controllers = g.controllers /\ h.members = g.members
        /\ h.roomRevision = g.roomRevision /\ h.startRequested = g.startRequested
    BY <1>1 DEF SessionType
  <1>8. h.load # None BY <1>4, <1>7, NoneAssumption
  <1> HIDE DEF h
  <1>9. OffersFit(h) BY <1>1, <1>7 DEF Coherent, Fit, LoadKept, OffersFit, NoOffers
  <1>10. LoadKept(h)
    BY <1>1, <1>4, <1>6, <1>7 DEF Coherent, Fit, LoadKept, SameAnchor, SameDeal, Resting
  <1>11. Staged(h) BY <1>5, <1>7 DEF Staged
  <1>12. OnTerms(h) /\ Prepared(h) /\ SameRoster(g, h)
    BY <1>1, <1>4, <1>7
    DEF Coherent, OnTerms, Prepared, SameRoster, Standing, SameDeal, Owners
  <1>13. InForce(g) => InForce(h)
    BY <1>1, <1>4, <1>7 DEF InForce, Standing, SameDeal, LoadMembers, Available, Owners
  <1> QED BY <1>2, <1>3, <1>7, <1>8, <1>9, <1>10, <1>11, <1>12, <1>13 DEF Coherent, Fit

\* gameLoadBoundary aborts the load, or records where a member stopped and goes
\* on with it.
LEMMA LoadBoundaryFit ==
  ASSUME NEW A, NEW g, Coherent(g, A), InForce(g), g.load # None,
         g.load.phase = "freezing", NEW m \in Member, NEW point \in Point
  PROVE  LET h == LoadBoundary(g, m, point)
         IN  /\ Coherent(h, A) /\ SameRoster(g, h) /\ h.epoch = g.epoch
             /\ Returns(g, h) \/ (h.load # None /\ InForce(h))
  <1> DEFINE old == IF m = Host THEN point ELSE g.load.oldPoint
             l == [g.load EXCEPT !.boundaries = [@ EXCEPT ![m] = point], !.oldPoint = old]
             h == [g EXCEPT !.load = l]
             differs == /\ ~g.load.initial
                        /\ m \in g.load.freezeRequired
                        /\ point # g.load.oldPoint
  <1>1. g \in SessionType /\ Sound(g, A) /\ g.load \in Load BY LoadType DEF Coherent, Fit
  <1>2. CASE differs
    <2>1. LoadBoundary(g, m, point) = AbortLoad(g) BY <1>2 DEF LoadBoundary
    <2> DEFINE f == AbortLoad(g)
    <2>2. Fit(f, A) /\ Steady(g, f) BY AbortLoadFit DEF Coherent
    <2> HIDE DEF f
    <2>3. Coherent(f, A) /\ SameRoster(g, f) BY <2>2, KeepsCoherent DEF Steady
    <2>4. f.epoch = g.epoch BY <1>1, <2>2, ReturnsEpoch DEF Fit, Steady
    <2> QED BY <2>1, <2>2, <2>3, <2>4 DEF Steady, f
  <1>3. CASE ~differs
    <2>2. LoadBoundary(g, m, point) =
            IF \A x \in LoadMembers(g.load) : h.load.boundaries[x] # None
              THEN StageLoad(h) ELSE h
      BY <1>3, <1>1 DEF LoadBoundary, SessionType
    <2>4. /\ l \in Load /\ SameAnchor(l, g.load) /\ SameDeal(l, g.load)
          /\ l.phase = "freezing" /\ l.oldPoint = old /\ l.initial = g.load.initial
      <3>1. /\ g.load.boundaries \in [Member -> Point \cup {None}]
            /\ g.load.oldPoint \in Point \cup {NoPoint}
        BY <1>1 DEF Load
      <3>3. old \in Point \cup {NoPoint} /\ (old = g.load.oldPoint \/ old \in Point) BY <3>1
      <3> HIDE DEF old
      <3> QED BY <1>1, <3>1, <3>3 DEF Load, SameAnchor, SameDeal
    <2>5. ~l.initial => g.point = l.oldPoint BY <1>3, <2>4 DEF Coherent, Fit, LoadKept
    <2> HIDE DEF l
    <2>6. /\ Coherent(h, A) /\ SameRoster(g, h) /\ h.load = l
          /\ h.epoch = g.epoch /\ InForce(h)
      BY <1>1, <2>4, <2>5, LoadStepFit DEF Coherent, Fit
    <2>7. h.load # None /\ Standing(h) BY <2>4, <2>6, NoneAssumption DEF Standing
    <2> HIDE DEF h
    <2> DEFINE f == StageLoad(h)
    <2>8. /\ Coherent(f, A) /\ SameRoster(h, f) /\ f.epoch = h.epoch
          /\ f.load # None /\ InForce(f)
      BY <2>6, <2>7, StageLoadFit
    <2> HIDE DEF f
    <2>9. SameRoster(g, f) BY <2>6, <2>8 DEF SameRoster
    <2> QED BY <2>2, <2>6, <2>7, <2>8, <2>9 DEF f
  <1> QED BY <1>2, <1>3

\* A member that prepared the loaded state no longer needs a transfer.
LEMMA LoadPreparedFit ==
  ASSUME NEW A, NEW g \in SessionType, Sound(g, A), OffersFit(g), LoadKept(g), OnTerms(g),
         g.load # None, g.load.phase = "staging", NEW m \in Member,
         g.load.replacement = None =>
           \A x \in g.load.required \ (g.load.prepared \cup {Host, m}) :
             \E t \in g.transfers : t.recipient = x /\ t.purpose = "load"
  PROVE  LET h == LoadPrepared(g, m)
         IN  Coherent(h, A) /\ SameRoster(g, h) /\ h.epoch = g.epoch /\ Returns(g, h)
  <1> DEFINE prepared == g.load.prepared \cup {m}
             phase == IF g.load.required \subseteq prepared
                        THEN "committing" ELSE g.load.phase
             l == [g.load EXCEPT !.prepared = prepared, !.phase = phase]
             h == [g EXCEPT !.load = l]
  <1>1. g.load \in Load BY LoadType
  <1>2. prepared \in SUBSET Member /\ phase \in Phase BY <1>1 DEF Load, Phase
  <1>3. /\ phase = "committing" => g.load.required \subseteq prepared
        /\ phase \in {"staging", "committing"}
    OBVIOUS
  <1>4. /\ l \in Load /\ SameAnchor(l, g.load) /\ SameDeal(l, g.load)
        /\ l.phase = phase /\ l.prepared = prepared /\ l.initial = g.load.initial
        /\ l.oldPoint = g.load.oldPoint /\ l.oldEpoch = g.load.oldEpoch
    <2> HIDE DEF prepared, phase
    <2> QED BY <1>1, <1>2, <1>3 DEF Load, SameAnchor, SameDeal
  <1>5. LoadPrepared(g, m) = h BY DEF LoadPrepared, SessionType
  <1>7. l.phase = "committing" => l.required \subseteq l.prepared BY <1>3, <1>4 DEF SameDeal
  <1>8. ~l.initial => g.point = l.oldPoint BY <1>4 DEF LoadKept
  <1> HIDE DEF l
  <1>9. /\ Coherent(h, A) /\ SameRoster(g, h) /\ h.load = l /\ h.epoch = g.epoch
    BY <1>4, <1>7, <1>8, LoadStepFit DEF SameDeal
  <1>10. h.load # None BY <1>4, <1>9, NoneAssumption
  <1> HIDE DEF h
  <1>11. Returns(g, h) BY <1>4, <1>9, <1>10 DEF Returns
  <1> QED BY <1>5, <1>9, <1>11

\* gameLoadRolledBack records a rollback, and returns once nobody is missing.
LEMMA LoadRolledBackFit ==
  ASSUME NEW A, NEW g, Fit(g, A), g.load # None, g.load.phase = "rolling_back",
         NEW m \in Member
  PROVE  LET h == LoadRolledBack(g, m) IN Fit(h, A) /\ Steady(g, h)
  <1> DEFINE l == [g.load EXCEPT !.rolledBack = @ \cup {m}]
             h == [g EXCEPT !.load = l]
  <1>1. g \in SessionType /\ Sound(g, A) /\ g.load \in Load BY LoadType DEF Fit
  <1>2. /\ l \in Load /\ SameAnchor(l, g.load) /\ l.phase = "rolling_back"
        /\ l.freezeRequired = g.load.freezeRequired /\ l.initial = g.load.initial
        /\ l.oldPoint = g.load.oldPoint /\ l.oldEpoch = g.load.oldEpoch
    BY <1>1 DEF Load, SameAnchor
  <1>3. LoadRolledBack(g, m) = FinishLoadRollback(h, FALSE) BY <1>1 DEF LoadRolledBack, SessionType
  <1> HIDE DEF l
  <1>4. h \in SessionType /\ Sound(h, A) BY <1>1, <1>2, LoadStepSound
  <1>5. /\ h.load = l /\ h.epoch = g.epoch /\ h.point = g.point /\ h.status = g.status
        /\ h.offers = g.offers /\ h.hasPlayed = g.hasPlayed
        /\ h.pending = g.pending /\ h.proposed = g.proposed
        /\ h.controllers = g.controllers /\ h.members = g.members
        /\ h.roomRevision = g.roomRevision /\ h.startRequested = g.startRequested
    BY <1>1 DEF SessionType
  <1>6. l # None BY <1>2, NoneAssumption
  <1> HIDE DEF h
  <1>7. Fit(h, A) BY <1>2, <1>4, <1>5 DEF Fit, OffersFit, LoadKept, Staged
  <1>8. Steady(g, h) BY <1>2, <1>5, <1>6 DEF Steady, Keeps, Returns, SamePlan, Standing
  <1> QED BY <1>3, <1>8, <1>7, FinishLoadRollbackFit, SteadyTwice

\* The last commitment begins or offers the loaded timeline, without offers.
LEMMA FinishLoadFit ==
  ASSUME NEW A, NEW g, Fit(g, A), g.load # None
  PROVE  LET h == FinishLoad(g)
         IN  Coherent(h, A) /\ SameRoster(g, h) /\ h.load = None /\ h.epoch # 0
  <1> DEFINE done == [g EXCEPT !.load = None, !.hasPlayed = TRUE]
             point == g.load.target
             epoch == g.load.epoch
             h == [done EXCEPT !.point = point, !.epoch = epoch,
                               !.status = "resume_ready", !.startRequested = FALSE]
             b == BeginAt(done, point, epoch)
             f == FinishLoad(g)
  <1>1. f = IF g.load.resume THEN b ELSE h BY DEF FinishLoad
  <1>2. g \in SessionType /\ Sound(g, A) /\ epoch # 0 BY DEF Fit, Sound, LoadAnchored
  <1>3. f \in SessionType /\ Sound(f, A) BY <1>2, FinishLoadSound
  <1>4. /\ done \in SessionType /\ done.load = None /\ done.offers = g.offers
        /\ done.controllers = g.controllers /\ done.members = g.members
        /\ done.roomRevision = g.roomRevision
        /\ done.startRequested = g.startRequested
    BY <1>2, DoneType DEF SessionType
  <1> HIDE DEF done, epoch, point, f
  <1>5. /\ b.load = None /\ b.epoch = epoch /\ b.status = "starting"
        /\ b.controllers = g.controllers /\ b.members = g.members
        /\ b.roomRevision = g.roomRevision /\ b.startRequested = g.startRequested
    BY <1>4 DEF BeginAt, SessionType
  <1>6. /\ h.load = None /\ h.epoch = epoch /\ h.offers = g.offers
        /\ h.controllers = g.controllers /\ h.members = g.members
        /\ h.roomRevision = g.roomRevision /\ h.startRequested = FALSE
    BY <1>4 DEF SessionType
  <1>7. g.offers = NoOffers BY DEF Fit, LoadKept
  <1> HIDE DEF h, b
  <1>8. /\ f.load = None /\ f.epoch # 0 /\ SameRoster(g, f)
        /\ f.status = "starting" \/ f.offers = NoOffers
    BY <1>1, <1>2, <1>5, <1>6, <1>7 DEF SameRoster
  <1>9. OffersFit(f) /\ LoadKept(f) /\ Staged(f) /\ OnTerms(f) /\ Prepared(f)
    BY <1>8
    DEF OffersFit, LoadKept, Staged, OnTerms, Prepared, Standing, NoOffers, Running
  <1> QED BY <1>3, <1>8, <1>9 DEF Coherent, Fit, f

\* The announcement of a replacement forgets the load, and nothing else.
LEMMA AnnounceReplacementFit ==
  ASSUME NEW A, NEW g, Fit(g, A), g.load # None, g.load.replacement # None
  PROVE  LET h == AnnounceReplacement(g)
         IN  Coherent(h, A) /\ SameRoster(g, h) /\ h.load = None /\ h.epoch = g.epoch
  <1> DEFINE h == AnnounceReplacement(g)
  <1>1. g \in SessionType /\ Sound(g, A) BY DEF Fit
  <1>2. h \in SessionType /\ Sound(h, A) BY <1>1, AnnounceReplacementSound
  <1>3. /\ h.load = None /\ h.epoch = g.epoch /\ h.offers = g.offers
        /\ h.controllers = g.controllers /\ h.members = g.members
        /\ h.roomRevision = g.roomRevision /\ h.startRequested = g.startRequested
    BY <1>1 DEF AnnounceReplacement, SessionType
  <1>4. g.offers = NoOffers BY DEF Fit, LoadKept
  <1> HIDE DEF h
  <1>5. OffersFit(h) /\ LoadKept(h) /\ Staged(h) /\ OnTerms(h) /\ Prepared(h)
    BY <1>3, <1>4 DEF OffersFit, LoadKept, Staged, OnTerms, Prepared, Standing, NoOffers
  <1> QED BY <1>2, <1>3, <1>5 DEF Coherent, Fit, SameRoster, h

\* A replaced cartridge leaves no timeline, no offers and nothing requested.
LEMMA ReplaceGameFit ==
  ASSUME NEW A, NEW g \in SessionType, g.load = None, NEW controllers \in Assignment
  PROVE  LET h == ReplaceGame(g, controllers)
         IN  /\ Coherent(h, A) /\ h.controllers = controllers /\ h.members = g.members
             /\ h.roomRevision = g.roomRevision /\ h.startRequested = FALSE
             /\ h.load = None /\ h.epoch = 0
  <1> DEFINE h == ReplaceGame(g, controllers)
  <1>1. h \in SessionType /\ Sound(h, A) BY ReplaceGameSound
  <1>2. /\ h.load = None /\ h.epoch = 0 /\ h.offers = NoOffers
        /\ h.controllers = controllers /\ h.members = g.members
        /\ h.roomRevision = g.roomRevision /\ h.startRequested = FALSE
    BY DEF ReplaceGame, SessionType
  <1> HIDE DEF h
  <1> QED
    BY <1>1, <1>2 DEF Coherent, Fit, h, OffersFit, LoadKept, Staged, OnTerms, Prepared, Standing,
       NoOffers

-----------------------------------------------------------------------------
(* Rooms and what they tell the session                                    *)

\* Role changes as RoleChange and ApplyRoles take them.
Roles == [slot : Nat, role : Role]

\* What a slot of a room holds.
LEMMA SlotType ==
  ASSUME NEW r \in Room, NEW i \in Slot
  PROVE  /\ r.slots[i] \in SlotState /\ r.slots[i].member \in Owner
         /\ r.slots[i].role \in Role
BY DEF Room, SlotState

\* controllerOwners() is an assignment of seats to members or to nobody.
LEMMA ControllerOwnersType ==
  ASSUME NEW r \in Room
  PROVE  ControllerOwners(r) \in [Seat -> Owner]
  <1> SUFFICES ASSUME NEW seat \in Seat
               PROVE  (IF \E i \in Slot : IsFirst(r, i, seat)
                         THEN r.slots[CHOOSE i \in Slot : IsFirst(r, i, seat)].member
                         ELSE None) \in Owner
    BY DEF ControllerOwners
  <1>1. CASE \E i \in Slot : IsFirst(r, i, seat) BY <1>1, SlotType
  <1>2. CASE ~(\E i \in Slot : IsFirst(r, i, seat)) BY <1>2 DEF Owner
  <1> QED BY <1>1, <1>2

\* The next assignment of a room is an assignment.
LEMMA AssignedType ==
  ASSUME NEW r \in Room
  PROVE  Assigned(r) \in Assignment
BY ControllerOwnersType DEF Room, Assignment, Assigned

\* Replacing the slots, or an assignment, of a room.
LEMMA SlotsType ==
  ASSUME NEW r \in Room, NEW slots \in [Slot -> SlotState]
  PROVE  [r EXCEPT !.slots = slots] \in Room
  BY DEF Room

\* Other slots under another revision leave a room.
LEMMA SlotsRevisedType ==
  ASSUME NEW r \in Room, NEW slots \in [Slot -> SlotState], NEW revision \in Nat
  PROVE  [r EXCEPT !.slots = slots, !.revision = revision] \in Room
  BY DEF Room

\* Another revision leaves a room.
LEMMA RevisionType ==
  ASSUME NEW r \in Room, NEW revision \in Nat
  PROVE  [r EXCEPT !.revision = revision] \in Room
  BY DEF Room

\* Another assignment leaves a room.
LEMMA ControllersType ==
  ASSUME NEW r \in Room, NEW controllers \in Assignment
  PROVE  [r EXCEPT !.controllers = controllers] \in Room
  BY DEF Room

\* refreshAssignment() leaves a room.
LEMMA ReassignedType ==
  ASSUME NEW r \in Room
  PROVE  [r EXCEPT !.controllers = Assigned(r)] \in Room
  BY AssignedType, ControllersType

\* Revisions of a room are numbers.
LEMMA NextRevision ==
  ASSUME NEW r \in Room
  PROVE  r.revision \in Nat /\ r.revision + 1 \in Nat
  BY DEF Room

\* Another role leaves a slot.
LEMMA SlotRoleType ==
  ASSUME NEW s \in SlotState, NEW role \in Role
  PROVE  [s EXCEPT !.role = role] \in SlotState
  BY DEF SlotState

\* Another occupant leaves a slot.
LEMMA SlotMemberType ==
  ASSUME NEW s \in SlotState, NEW member \in Owner
  PROVE  [s EXCEPT !.member = member] \in SlotState
  BY DEF SlotState

\* Giving slots other roles leaves a room.
LEMMA WithRolesType ==
  ASSUME NEW r \in Room, NEW roles \in SUBSET Roles
  PROVE  WithRoles(r, roles) \in Room
  <1> DEFINE S(i) == IF \E x \in roles : x.slot = i
                       THEN [r.slots[i] EXCEPT !.role = (CHOOSE x \in roles : x.slot = i).role]
                       ELSE r.slots[i]
             slots == [i \in Slot |-> S(i)]
  <1>1. ASSUME NEW i \in Slot PROVE S(i) \in SlotState
    <2>1. CASE \E x \in roles : x.slot = i
      <3> DEFINE x == CHOOSE x \in roles : x.slot = i
      <3>1. x \in roles BY <2>1
      <3>2. x.role \in Role
        <4> HIDE DEF x
        <4> QED BY <3>1 DEF Roles
      <3> QED BY <2>1, <3>2, SlotType, SlotRoleType
    <2>2. CASE ~(\E x \in roles : x.slot = i) BY <2>2, SlotType
    <2> QED BY <2>1, <2>2
  <1>2. WithRoles(r, roles) = [r EXCEPT !.slots = slots] BY DEF WithRoles
  <1>3. slots \in [Slot -> SlotState]
    <2> HIDE DEF S
    <2> QED BY <1>1
  <1> HIDE DEF slots
  <1> QED BY <1>2, <1>3, SlotsType

\* applyRoles() leaves a room.
LEMMA ApplyRolesType ==
  ASSUME NEW r \in Room, NEW roles \in SUBSET Roles
  PROVE  ApplyRoles(r, roles) \in Room
  <1> DEFINE with == WithRoles(r, roles)
             changed == [with EXCEPT !.revision = @ + 1]
  <1>1. with \in Room BY WithRolesType
  <1> HIDE DEF with
  <1>2. changed \in Room BY <1>1, NextRevision, RevisionType
  <1>3. ApplyRoles(r, roles) = [changed EXCEPT !.controllers = Assigned(changed)]
    BY DEF ApplyRoles, with
  <1> HIDE DEF changed
  <1> QED BY <1>2, <1>3, ReassignedType

\* A cartridge gives slots roles.
LEMMA CartridgeRoleType ==
  ASSUME NEW i, NEW seats
  PROVE  CartridgeRole(i, seats) \in Role
  BY DEF CartridgeRole, Role, Seat

\* A cartridge's roles leave a room.
LEMMA WithCartridgeRolesType ==
  ASSUME NEW r \in Room, NEW seats
  PROVE  WithCartridgeRoles(r, seats) \in Room
  <1> DEFINE slots == [i \in Slot |-> [r.slots[i] EXCEPT !.role = CartridgeRole(i, seats)]]
  <1>1. slots \in [Slot -> SlotState] BY SlotType, CartridgeRoleType, SlotRoleType
  <1>2. WithCartridgeRoles(r, seats) = [r EXCEPT !.slots = slots] BY DEF WithCartridgeRoles
  <1> HIDE DEF slots
  <1> QED BY <1>1, <1>2, SlotsType

\* The fields selectGame() sets leave a room.
LEMMA ChosenType ==
  ASSUME NEW r \in Room, NEW game1 \in Game, NEW revision \in Nat,
         NEW started \in BOOLEAN, NEW established \in BOOLEAN
  PROVE  [r EXCEPT !.cartridge = game1.cartridge, !.seats = game1.seats,
                   !.candidate = None, !.loaded = {Host}, !.revision = revision,
                   !.started = started, !.established = established] \in Room
  BY SessionAssumption DEF Room, Game

\* selectGame() leaves a room with an assignment of its new roles.
LEMMA SelectGameType ==
  ASSUME NEW r \in Room, NEW game1 \in Game, NEW replacement \in BOOLEAN
  PROVE  /\ SelectGame(r, game1, replacement) \in Room
         /\ SelectGame(r, game1, replacement).controllers \in Assignment
  <1> DEFINE with == WithCartridgeRoles(r, game1.seats)
             chosen == [with EXCEPT !.cartridge = game1.cartridge, !.seats = game1.seats,
                          !.candidate = None, !.loaded = {Host}, !.revision = @ + 1,
                          !.started = IF replacement THEN FALSE ELSE @,
                          !.established = IF replacement THEN FALSE ELSE @]
  <1>1. with \in Room BY WithCartridgeRolesType
  <1> HIDE DEF with
  <1>2. /\ (IF replacement THEN FALSE ELSE with.started) \in BOOLEAN
        /\ (IF replacement THEN FALSE ELSE with.established) \in BOOLEAN
    BY <1>1 DEF Room
  <1>3. chosen \in Room BY <1>1, <1>2, NextRevision, ChosenType
  <1>4. SelectGame(r, game1, replacement) = [chosen EXCEPT !.controllers = Assigned(chosen)]
    BY DEF SelectGame, with
  <1> HIDE DEF chosen
  <1>5. SelectGame(r, game1, replacement) \in Room BY <1>3, <1>4, ReassignedType
  <1> QED BY <1>5 DEF Room

-----------------------------------------------------------------------------
(* Members come and go *)

\* Whoever moves into a slot when a gap closes is a member, or nobody.
LEMMA OccupantType ==
  ASSUME NEW r \in Room, NEW i \in Slot
  PROVE  Occupant(r, i) \in Owner
  <1> DEFINE moved == {j \in Slot : /\ r.slots[j].open
                                    /\ r.slots[j].member # None
                                    /\ Cardinality(OccupiedBefore(r, j))
                                         = Cardinality(OpenBefore(r, i))}
             j == CHOOSE j \in moved : TRUE
  <1>1. moved # {} => j \in Slot OBVIOUS
  <1> HIDE DEF moved, j
  <1> QED BY <1>1, SlotType DEF Owner, Occupant

\* Closing the gaps of the open slots leaves a room.
LEMMA CompactedType ==
  ASSUME NEW r \in Room
  PROVE  Compacted(r) \in Room
  <1> DEFINE slots == [i \in Slot |-> [r.slots[i] EXCEPT !.member = Occupant(r, i)]]
             moved == {i \in Slot : Occupant(r, i) # r.slots[i].member}
  <1>1. slots \in [Slot -> SlotState] BY OccupantType, SlotType, SlotMemberType
  <1>2. Cardinality(moved) \in Nat
    <2>1. IsFiniteSet(Slot) BY FS_Interval, RosterAssumption DEF Slot
    <2>2. IsFiniteSet(moved) BY <2>1, FS_Subset
    <2> QED BY <2>2, FS_CardinalityType
  <1>3. Compacted(r) = [r EXCEPT !.slots = slots, !.revision = @ + Cardinality(moved)]
    BY DEF Compacted
  <1> HIDE DEF slots, moved
  <1>4. r.revision + Cardinality(moved) \in Nat BY <1>2, NextRevision
  <1> QED BY <1>1, <1>3, <1>4, SlotsRevisedType

\* The links that stay when a member loses its own.
LEMMA UnlinkedType ==
  ASSUME NEW r \in Room, NEW m
  PROVE  Unlinked(r, m) \in SUBSET Link
  BY DEF Unlinked, Room

\* The fields a departure sets besides the slots leave a room.
LEMMA GoneType ==
  ASSUME NEW r \in Room, NEW m \in Member, NEW links \in SUBSET Link
  PROVE  [r EXCEPT !.connected = @ \ {m}, !.loaded = @ \ {m},
                   !.links = links, !.former = @ \cup {m}] \in Room
  BY DEF Room

\* A departure leaves a room.
LEMMA VacatedType ==
  ASSUME NEW r \in Room, NEW m \in Member
  PROVE  Vacated(r, m) \in Room
  <1> DEFINE slots == [i \in Slot |-> IF r.slots[i].member = m
                        THEN [r.slots[i] EXCEPT !.member = None] ELSE r.slots[i]]
  <1>1. slots \in [Slot -> SlotState] BY SlotType, SlotMemberType DEF Owner
  <1>2. Vacated(r, m) = [r EXCEPT !.slots = slots, !.connected = @ \ {m},
                           !.loaded = @ \ {m}, !.links = Unlinked(r, m),
                           !.former = @ \cup {m}, !.revision = r.revision + 1]
    BY DEF Vacated
  <1>3. Unlinked(r, m) \in SUBSET Link /\ r.revision + 1 \in Nat BY UnlinkedType, NextRevision
  <1> DEFINE left == [r EXCEPT !.slots = slots, !.revision = r.revision + 1]
  <1> HIDE DEF slots
  <1>4. left \in Room BY <1>1, <1>3, SlotsRevisedType
  <1>5. Vacated(r, m) = [left EXCEPT !.connected = @ \ {m}, !.loaded = @ \ {m},
                           !.links = Unlinked(r, m), !.former = @ \cup {m}]
    BY <1>2 DEF Room
  <1> HIDE DEF left
  <1> QED BY <1>5, <1>3, <1>4, GoneType

-----------------------------------------------------------------------------
(* Configuring the session from the room *)

\* What publish() tells the session of a member.
LEMMA ViewOfType ==
  ASSUME NEW r \in Room, NEW m \in Member
  PROVE  ViewOf(r, m) \in View
  BY DEF ViewOf, View, Absent

\* publish() preserves the invariant of the session, whatever the room has become.
LEMMA PublishSound ==
  ASSUME NEW A, NEW g \in SessionType, Sound(g, A), NEW r \in Room
  PROVE  Publish(g, r) \in SessionType /\ Sound(Publish(g, r), A)
BY ViewOfType, ConfigureSound DEF Room, Publish

\* A requested role change is a transaction.
LEMMA RoleChangeType ==
  ASSUME NEW r \in Room, NEW roles \in SUBSET Roles
  PROVE  RoleChange(r, roles) \in Pending
  BY NextRevision DEF RoleChange, Pending, Roles, Role

-----------------------------------------------------------------------------
(* What the owners a room names, and the views it publishes, depend on     *)

Views(r) == [m \in Member |-> ViewOf(r, m)]

\* A room keeps its assignment, its game and what the host has chosen next.
SameGame(r, s) ==
  /\ s.controllers = r.controllers /\ s.started = r.started
  /\ s.cartridge = r.cartridge /\ s.offered = r.offered
  /\ s.candidate \in {r.candidate, None}

\* Nobody changes seats under the same revision.
Later(r, s) ==
  \/ s.revision > r.revision
  \/ s.revision = r.revision /\ s.slots = r.slots

\* A transaction proposes the owners of the roster it was requested for.
Planned(g, r) ==
  g.pending # None =>
    /\ g.pending.revision <= r.revision
    /\ g.pending.revision = r.revision =>
         g.proposed = ControllerOwners(WithRoles(r, g.pending.roles))

\* The cartridge chosen next is another than the one that runs.
Shelf(r) ==
  /\ r.cartridge <= r.offered
  /\ r.candidate # None =>
       r.cartridge < r.candidate.cartridge /\ r.candidate.cartridge <= r.offered

\* What publish() tells the session.
LEMMA ViewsType ==
  ASSUME NEW r \in Room
  PROVE  Views(r) \in [Member -> View]
  BY ViewOfType DEF Views

LEMMA PublishViews ==
  \A g, r : Publish(g, r) = Configure(g, Views(r), r.controllers, r.revision)
  BY DEF Publish, Views

\* Views follow from the slots, connections, links, files and the assignment.
LEMMA SameViews ==
  ASSUME NEW r, NEW s, s.slots = r.slots, s.connected = r.connected,
         s.loaded = r.loaded, s.links = r.links, s.controllers = r.controllers,
         s.cartridge = r.cartridge
  PROVE  Views(s) = Views(r)
  <1>1. ASSUME NEW m \in Member PROVE ViewOf(s, m) = ViewOf(r, m)
    BY DEF ViewOf, Members, StartParticipants
  <1> QED BY <1>1 DEF Views

\* Owners follow from the slots.
LEMMA SameOwners ==
  ASSUME NEW r, NEW s, s.slots = r.slots
  PROVE  ControllerOwners(s) = ControllerOwners(r)
BY DEF IsFirst, ControllerOwners

\* The slots after some of them were given other roles.
RoledSlots(slots, roles) ==
  [i \in Slot |->
     IF \E x \in roles : x.slot = i
       THEN [slots[i] EXCEPT !.role = (CHOOSE x \in roles : x.slot = i).role]
       ELSE slots[i]]

LEMMA WithRolesSlots ==
  ASSUME NEW r \in Room, NEW roles
  PROVE  WithRoles(r, roles) = [r EXCEPT !.slots = RoledSlots(r.slots, roles)]
  BY DEF WithRoles, RoledSlots

LEMMA SameRoles ==
  ASSUME NEW r \in Room, NEW s \in Room, s.slots = r.slots, NEW roles
  PROVE  ControllerOwners(WithRoles(s, roles)) = ControllerOwners(WithRoles(r, roles))
  <1> DEFINE roled == RoledSlots(r.slots, roles)
  <1>1. /\ WithRoles(s, roles) = [s EXCEPT !.slots = roled]
        /\ WithRoles(r, roles) = [r EXCEPT !.slots = roled]
    BY WithRolesSlots
  <1> HIDE DEF roled
  <1>2. [s EXCEPT !.slots = roled].slots = [r EXCEPT !.slots = roled].slots BY DEF Room
  <1> QED BY <1>1, <1>2, SameOwners

\* Roles that slots already have change no owner.
LEMMA RolesHeld ==
  ASSUME NEW r \in Room, NEW roles, \A x \in roles : x.role = r.slots[x.slot].role
  PROVE  ControllerOwners(WithRoles(r, roles)) = ControllerOwners(r)
  <1> DEFINE roled == RoledSlots(r.slots, roles)
  <1>1. roled = r.slots
    <2>1. r.slots \in [Slot -> SlotState] BY DEF Room
    <2>2. ASSUME NEW i \in Slot PROVE roled[i] = r.slots[i]
      <3>1. CASE \E x \in roles : x.slot = i
        <4> DEFINE role == (CHOOSE x \in roles : x.slot = i).role
        <4>1. role = r.slots[i].role BY <3>1
        <4>3. roled[i] = [r.slots[i] EXCEPT !.role = role] BY <3>1 DEF RoledSlots
        <4> HIDE DEF role
        <4> QED BY <4>1, SlotType, <4>3 DEF SlotState
      <3>2. CASE ~(\E x \in roles : x.slot = i) BY <3>2 DEF RoledSlots
      <3> QED BY <3>1, <3>2
    <2>3. roled = [i \in Slot |-> roled[i]] BY DEF RoledSlots
    <2> HIDE DEF roled
    <2> QED BY <2>1, <2>2, <2>3
  <1>2. WithRoles(r, roles) = [r EXCEPT !.slots = roled] BY WithRolesSlots
  <1> HIDE DEF roled
  <1>3. [r EXCEPT !.slots = r.slots] = r BY DEF Room
  <1> QED BY <1>1, <1>2, <1>3

\* A transaction stays planned while the seats of its roster stay as they were.
LEMMA PlannedLater ==
  ASSUME NEW g \in SessionType, NEW r \in Room, NEW s \in Room,
         Planned(g, r), Later(r, s)
  PROVE  Planned(g, s)
  <1> SUFFICES ASSUME g.pending # None
               PROVE  /\ g.pending.revision <= s.revision
                      /\ g.pending.revision = s.revision =>
                           g.proposed = ControllerOwners(WithRoles(s, g.pending.roles))
    BY DEF Planned
  <1>1. r.revision \in Nat /\ s.revision \in Nat BY NextRevision
  <1>2. g.pending.revision \in Nat BY DEF SessionType, Pending
  <1>3. CASE s.revision > r.revision BY <1>1, <1>2, <1>3 DEF Planned
  <1>4. CASE s.revision = r.revision /\ s.slots = r.slots BY <1>4, SameRoles DEF Planned
  <1> QED BY <1>3, <1>4 DEF Later

\* A room with the same game keeps its shelf.
LEMMA ShelfKept ==
  ASSUME NEW r, NEW s, Shelf(r), SameGame(r, s)
  PROVE  Shelf(s)
  BY DEF Shelf, SameGame

\* A method that asks for no other owners keeps what is planned.
LEMMA PlannedSame ==
  ASSUME NEW g, NEW h, NEW r, Planned(g, r), SamePlan(g, h)
  PROVE  Planned(h, r)
  BY DEF Planned, SamePlan

-----------------------------------------------------------------------------
(* What the operators of Roster change in a room                           *)

\* applyRoles() publishes a later roster and the owners its roles name.
LEMMA ApplyRolesChanges ==
  ASSUME NEW r \in Room, NEW roles \in SUBSET Roles
  PROVE  LET s == ApplyRoles(r, roles)
         IN  /\ Later(r, s)
             /\ s.started = r.started /\ s.cartridge = r.cartridge
             /\ s.offered = r.offered /\ s.candidate = r.candidate
             /\ s.controllers.revision = r.controllers.revision + 1
             /\ s.controllers.owners = ControllerOwners(WithRoles(r, roles))
             /\ s.controllers.owners = ControllerOwners(s)
  <1> DEFINE with == WithRoles(r, roles)
             changed == [with EXCEPT !.revision = @ + 1]
             s == [changed EXCEPT !.controllers = Assigned(changed)]
  <1>1. with \in Room BY WithRolesType
  <1>2. /\ with.revision = r.revision /\ with.controllers = r.controllers
        /\ with.started = r.started /\ with.cartridge = r.cartridge
        /\ with.offered = r.offered /\ with.candidate = r.candidate
    BY WithRolesSlots DEF Room
  <1>3. s = ApplyRoles(r, roles) BY DEF ApplyRoles
  <1> HIDE DEF with
  <1>4. changed \in Room BY <1>1, NextRevision, RevisionType
  <1>5. /\ changed.slots = with.slots /\ changed.revision = r.revision + 1
        /\ changed.controllers = r.controllers
        /\ changed.started = r.started /\ changed.cartridge = r.cartridge
        /\ changed.offered = r.offered /\ changed.candidate = r.candidate
    BY <1>1, <1>2 DEF Room
  <1>6. ControllerOwners(changed) = ControllerOwners(with) BY <1>5, SameOwners
  <1> HIDE DEF changed
  <1>7. /\ s.slots = changed.slots /\ s.revision = changed.revision
        /\ s.controllers = Assigned(changed)
        /\ s.started = changed.started /\ s.cartridge = changed.cartridge
        /\ s.offered = changed.offered /\ s.candidate = changed.candidate
    BY <1>4 DEF Room
  <1>8. ControllerOwners(s) = ControllerOwners(changed) BY <1>7, SameOwners
  <1> HIDE DEF s
  <1>9. Later(r, s) BY <1>5, <1>7, NextRevision DEF Later
  <1> QED BY <1>3, <1>5, <1>6, <1>7, <1>8, <1>9 DEF Assigned, with

\* refreshAssignment() publishes the owners the roles name.
LEMMA ReassignedChanges ==
  ASSUME NEW r \in Room
  PROVE  LET s == [r EXCEPT !.controllers = Assigned(r)]
         IN  /\ s \in Room /\ s.slots = r.slots /\ s.revision = r.revision
             /\ s.started = r.started /\ s.cartridge = r.cartridge
             /\ s.offered = r.offered /\ s.candidate = r.candidate
             /\ s.controllers.revision = r.controllers.revision + 1
             /\ s.controllers.owners = ControllerOwners(s)
  <1> DEFINE s == [r EXCEPT !.controllers = Assigned(r)]
  <1>1. s \in Room BY ReassignedType
  <1>2. /\ s.slots = r.slots /\ s.revision = r.revision
        /\ s.started = r.started /\ s.cartridge = r.cartridge
        /\ s.offered = r.offered /\ s.candidate = r.candidate
        /\ s.controllers = Assigned(r)
    BY DEF Room
  <1> HIDE DEF s
  <1>3. ControllerOwners(s) = ControllerOwners(r) BY <1>2, SameOwners
  <1> QED BY <1>1, <1>2, <1>3 DEF Assigned, s

\* A departure publishes a later roster.
LEMMA DepartureChanges ==
  ASSUME NEW r \in Room, NEW m \in Member
  PROVE  LET s == Compacted(Vacated(r, m))
         IN  s \in Room /\ SameGame(r, s) /\ s.revision > r.revision
  <1> DEFINE vacated == Vacated(r, m)
             n == Cardinality({i \in Slot : Occupant(vacated, i) # vacated.slots[i].member})
             s == Compacted(vacated)
  <1>1. vacated \in Room BY VacatedType
  <1>2. SameGame(r, vacated) /\ vacated.revision = r.revision + 1 BY DEF Vacated, SameGame, Room
  <1> HIDE DEF vacated
  <1>3. n \in Nat
    <2>1. IsFiniteSet(Slot) BY RosterAssumption, FS_Interval DEF Slot
    <2> QED BY <2>1, FS_Subset, FS_CardinalityType
  <1>4. SameGame(vacated, s) /\ s.revision = vacated.revision + n
    BY <1>1 DEF Compacted, SameGame, Room
  <1>5. s \in Room BY <1>1, CompactedType
  <1> HIDE DEF n, s
  <1> QED BY <1>2, <1>3, <1>4, <1>5, NextRevision DEF SameGame, s, vacated

\* A selected cartridge publishes a later roster, with nobody else's file.
LEMMA SelectGameChanges ==
  ASSUME NEW r \in Room, NEW chosen \in Game, NEW replacement \in BOOLEAN,
         chosen.cartridge <= r.offered
  PROVE  LET s == SelectGame(r, chosen, replacement)
         IN  /\ s \in Room /\ Shelf(s) /\ s.revision > r.revision
             /\ s.cartridge = chosen.cartridge
             /\ s.controllers.revision = r.controllers.revision + 1
             /\ ~replacement => s.started = r.started
  <1> DEFINE with == WithCartridgeRoles(r, chosen.seats)
             changed == [with EXCEPT !.cartridge = chosen.cartridge, !.seats = chosen.seats,
                           !.candidate = None,
                           !.loaded = {Host}, !.revision = @ + 1,
                           !.started = IF replacement THEN FALSE ELSE @,
                           !.established = IF replacement THEN FALSE ELSE @]
             s == [changed EXCEPT !.controllers = Assigned(changed)]
  <1>1. with \in Room BY WithCartridgeRolesType
  <1>2. /\ with.revision = r.revision /\ with.controllers = r.controllers
        /\ with.started = r.started /\ with.offered = r.offered
    BY DEF WithCartridgeRoles, Room
  <1>3. s = SelectGame(r, chosen, replacement) BY DEF SelectGame
  <1>4. s \in Room BY <1>3, SelectGameType
  <1> HIDE DEF with
  <1>5. /\ s.revision = r.revision + 1 /\ s.cartridge = chosen.cartridge
        /\ s.offered = r.offered /\ s.candidate = None
        /\ s.controllers = Assigned(changed)
        /\ changed.controllers = r.controllers
        /\ ~replacement => s.started = r.started
    BY <1>1, <1>2 DEF Room
  <1> HIDE DEF s, changed
  <1>6. s.controllers.revision = r.controllers.revision + 1 BY <1>5 DEF Assigned
  <1>7. Shelf(s) BY <1>5 DEF Shelf
  <1>8. s.revision > r.revision BY <1>5, NextRevision
  <1> QED BY <1>3, <1>4, <1>5, <1>6, <1>7, <1>8

-----------------------------------------------------------------------------
\* The inductive invariant: types, and the invariant of the session record.
Inv == TypeOK /\ Sound(game, acked)

-----------------------------------------------------------------------------
(* How every action ends *)

\* The parts of the invariant.
LEMMA InvParts ==
  ASSUME Inv
  PROVE  /\ game \in SessionType /\ room \in Room /\ acked \in SUBSET Ack
         /\ Sound(game, acked)
  BY DEF Inv, TypeOK

\* A step to a sound session and a room preserves the invariant.
LEMMA StepInv ==
  ASSUME Inv, NEW g \in SessionType, Sound(g, acked), NEW r \in Room, Step(g, r)
  PROVE  Inv'
BY DEF Step, Become, Inv, TypeOK

\* A step that publishes the room preserves the invariant.
LEMMA StepPublishInv ==
  ASSUME Inv, NEW g \in SessionType, Sound(g, acked), NEW r \in Room,
         Step(Publish(g, r), r)
  PROVE  Inv'
  BY PublishSound, StepInv

\* Noting that a game was played leaves a room.
LEMMA EstablishedType ==
  ASSUME NEW g, NEW r \in Room
  PROVE  Established(g, r) \in Room
  BY DEF Established, Room

\* A game command that leaves a sound session preserves the invariant.
LEMMA AcceptInv ==
  ASSUME Inv, NEW g \in SessionType, Sound(g, acked), NEW r \in Room, Accept(g, r)
  PROVE  Inv'
  <1> DEFINE settled == Established(g, r)
  <1>1. settled \in Room BY EstablishedType
  <1>2. Step(Publish(g, settled), settled) BY DEF Accept
  <1> HIDE DEF settled
  <1> QED BY <1>1, <1>2, StepPublishInv

-----------------------------------------------------------------------------
(* Roster, connections and acquisition *)

\* publishRosterChange() preserves the invariant in each of its branches.
LEMMA RosterChangeInv ==
  ASSUME Inv, NEW r \in Room, RosterChange(game, r)
  PROVE  Inv'
  <1> DEFINE reassigned == [r EXCEPT !.controllers = Assigned(r)]
             published == AbortRoles(Publish(game, r))
             requested == RequestRoles(published, RoleChange(r, {}), ControllerOwners(r))
  <1>1. reassigned \in Room BY ReassignedType
  <1>2. published \in SessionType /\ Sound(published, acked)
    BY InvParts, PublishSound, AbortRolesSound
  <1>3. CanRequestRoles(published) => requested \in SessionType /\ Sound(requested, acked)
    <2>1. RoleChange(r, {}) \in Pending BY RoleChangeType
    <2> HIDE DEF published
    <2> QED BY <1>2, <2>1, ControllerOwnersType, RequestRolesSound
  <1>4. \/ Step(Publish(game, reassigned), reassigned)
        \/ CanRequestRoles(published) /\ Step(Publish(requested, r), r)
        \/ Step(published, r)
        \/ Step(Publish(game, r), r)
    BY DEF RosterChange
  <1> HIDE DEF reassigned, published, requested
  <1> QED BY <1>1, <1>2, <1>3, <1>4, InvParts, StepPublishInv, StepInv

\* Another occupant of one slot leaves slots.
LEMMA SeatedMemberType ==
  ASSUME NEW r \in Room, NEW i, NEW m \in Owner, NEW slots,
         slots = [r.slots EXCEPT ![i].member = m]
  PROVE  slots \in [Slot -> SlotState]
BY SlotType, SlotMemberType DEF Room

\* Other links leave a room.
LEMMA LinksType ==
  ASSUME NEW r \in Room, NEW links \in SUBSET Link
  PROVE  [r EXCEPT !.links = links] \in Room
  BY DEF Room

\* Other connections and links leave a room.
LEMMA SocketType ==
  ASSUME NEW r \in Room, NEW connected \in SUBSET Member, NEW links \in SUBSET Link
  PROVE  [r EXCEPT !.connected = connected, !.links = links] \in Room
  BY DEF Room

\* Other reported files leave a room.
LEMMA LoadedRoomType ==
  ASSUME NEW r \in Room, NEW loaded \in SUBSET Member
  PROVE  [r EXCEPT !.loaded = loaded] \in Room
  BY DEF Room

\* The sets of members and links a room keeps.
LEMMA RoomSets ==
  ASSUME NEW r \in Room
  PROVE  /\ r.connected \in SUBSET Member /\ r.loaded \in SUBSET Member
         /\ r.links \in SUBSET Link
  BY DEF Room

\* A join preserves the invariant.
LEMMA JoinInv ==
  ASSUME Inv, NEW m \in Member, Join(m)
  PROVE  Inv'
  <1> DEFINE free == {i \in Slot : FreeSlot(room, i)}
             slot == CHOOSE i \in free : \A j \in free : i <= j
             slots == [room.slots EXCEPT ![slot].member = m]
             connected == room.connected \cup {m}
             joined == [room EXCEPT !.slots = slots, !.connected = connected,
                                    !.revision = room.revision + 1]
             placed == [joined EXCEPT !.controllers =
                          IF room.started THEN @ ELSE Assigned(joined)]
  <1>1. slots \in [Slot -> SlotState]
    <2>1. m \in Owner BY DEF Owner
    <2> HIDE DEF slot
    <2> QED BY <2>1, InvParts, SeatedMemberType
  <1>2. connected \in SUBSET Member BY InvParts, RoomSets
  <1> HIDE DEF slots, connected
  <1>3. joined \in Room BY InvParts, NextRevision, <1>1, <1>2 DEF Room
  <1>4. Step(Publish(game, placed), placed) BY DEF Join, slots, connected
  <1>5. placed \in Room
    <2>1. (IF room.started THEN joined.controllers ELSE Assigned(joined)) \in Assignment
      <3> HIDE DEF joined
      <3> QED BY <1>3, AssignedType DEF Room
    <2> HIDE DEF joined
    <2> QED BY <1>3, <2>1, ControllersType
  <1> HIDE DEF placed
  <1> QED BY <1>4, <1>5, InvParts, StepPublishInv

\* A departure preserves the invariant.
LEMMA ReleaseInv ==
  ASSUME Inv, NEW m \in Member, Release(m)
  PROVE  Inv'
BY InvParts, VacatedType, CompactedType, RosterChangeInv DEF Release

\* A socket that opens or closes preserves the invariant.
LEMMA ConnectionInv ==
  ASSUME Inv, NEW m \in Member, Attach(m) \/ Detach(m)
  PROVE  Inv'
  <1> DEFINE r(connected) == [room EXCEPT !.connected = connected, !.links = Unlinked(room, m)]
  <1>1. Unlinked(room, m) \in SUBSET Link BY InvParts, UnlinkedType
  <1>4. PICK connected \in SUBSET Member : Step(Publish(game, r(connected)), r(connected))
    BY InvParts, RoomSets DEF Attach, Detach
  <1> QED BY <1>1, InvParts, SocketType, <1>4, StepPublishInv

\* A link that comes up or goes down preserves the invariant.
LEMMA LinkInv ==
  ASSUME Inv, NEW m \in Member, NEW n \in Member, LinkUp(m, n) \/ LinkDown(m, n)
  PROVE  Inv'
  <1> DEFINE r(links) == [room EXCEPT !.links = links]
  <1>2. \A links \in SUBSET Link : r(links) \in Room BY InvParts, LinksType
  <1>3. PICK links \in SUBSET Link : Step(Publish(game, r(links)), r(links))
    BY InvParts, RoomSets DEF LinkUp, LinkDown, Link
  <1> QED BY <1>2, <1>3, InvParts, StepPublishInv

\* A reported file preserves the invariant.
LEMMA AcquireInv ==
  ASSUME Inv, NEW m \in Member, NEW loaded \in BOOLEAN, Acquire(m, loaded)
  PROVE  Inv'
  <1> DEFINE files == IF loaded THEN room.loaded \cup {m} ELSE room.loaded \ {m}
             r == [room EXCEPT !.loaded = files]
  <1>1. files \in SUBSET Member BY InvParts, RoomSets
  <1>2. r \in Room BY <1>1, InvParts, LoadedRoomType
  <1>3. Step(Publish(game, r), r) BY DEF Acquire
  <1> HIDE DEF r
  <1> QED BY <1>2, <1>3, InvParts, StepPublishInv

\* A changed file, which stops an owner, preserves the invariant.
LEMMA ChangeFileInv ==
  ASSUME Inv, NEW m \in Member, ChangeFile(m)
  PROVE  Inv'
  <1> DEFINE r(loaded) == [room EXCEPT !.loaded = loaded]
             g == IF \E s \in Seat : room.controllers.owners[s] = m
                    THEN Stop(game, "paused") ELSE game
  <1>1. PICK loaded \in SUBSET Member : Step(Publish(g, r(loaded)), r(loaded))
    BY InvParts, RoomSets DEF ChangeFile
  <1>2. r(loaded) \in Room BY <1>1, InvParts, LoadedRoomType
  <1>3. g \in SessionType /\ Sound(g, acked) BY InvParts, StopSound
  <1> HIDE DEF r, g
  <1> QED BY <1>1, <1>2, <1>3, StepPublishInv

\* Opening and closing a slot preserves the invariant.
LEMMA SlotAvailabilityInv ==
  ASSUME Inv, NEW i \in Slot, SlotAvailability(i)
  PROVE  Inv'
  <1> DEFINE slots == [room.slots EXCEPT ![i].open = ~@]
             r == [room EXCEPT !.slots = slots, !.revision = room.revision + 1]
  <1>1. slots \in [Slot -> SlotState] BY InvParts, SlotType DEF SlotState, Room
  <1>2. Step(Publish(game, r), r) BY DEF SlotAvailability
  <1> HIDE DEF slots
  <1>3. r \in Room BY InvParts, NextRevision, <1>1, SlotsRevisedType
  <1> HIDE DEF r
  <1> QED BY <1>2, <1>3, InvParts, StepPublishInv

\* Exchanging two slots preserves the invariant.
LEMMA SlotMoveInv ==
  ASSUME Inv, NEW i \in Slot, NEW j \in Slot, SlotMove(i, j)
  PROVE  Inv'
  <1> DEFINE moved == [room.slots EXCEPT ![i].member = room.slots[j].member]
             slots == [moved EXCEPT ![j].member = room.slots[i].member]
             r == [room EXCEPT !.slots = slots, !.revision = room.revision + 1]
  <1>1. RosterChange(game, r) BY InvParts DEF SlotMove, Room
  <1>2. slots \in [Slot -> SlotState]
    <2>1. room.slots[i].member \in Owner /\ room.slots[j].member \in Owner BY InvParts, SlotType
    <2>2. moved \in [Slot -> SlotState] BY <2>1, InvParts, SeatedMemberType
    <2> HIDE DEF moved
    <2> QED BY <2>2, <2>1, SlotMemberType
  <1> HIDE DEF slots
  <1>3. r \in Room BY InvParts, NextRevision, <1>2, SlotsRevisedType
  <1> HIDE DEF r
  <1> QED BY <1>1, <1>3, RosterChangeInv

\* The roles two slots exchange are role changes.
LEMMA RoleSwapType ==
  ASSUME Inv, NEW i \in Slot, NEW role \in Role
  PROVE  RoleSwap(i, role) \in SUBSET Roles
BY InvParts, SlotType DEF Slot, RoleSwap, Roles

\* A changed role, direct or by a transaction, preserves the invariant.
LEMMA SlotRoleInv ==
  ASSUME Inv, NEW i \in Slot, NEW role \in Role, SlotRole(i, role)
  PROVE  Inv'
  <1> DEFINE roles == RoleSwap(i, role)
             owners == ControllerOwners(WithRoles(room, roles))
             requested == RequestRoles(game, RoleChange(room, roles), owners)
             r == ApplyRoles(room, roles)
  <1>1. \/ CanRequestRoles(game) /\ Step(Publish(requested, room), room)
        \/ Step(Publish(game, r), r)
    BY DEF SlotRole
  <1>2. roles \in SUBSET Roles BY RoleSwapType
  <1> HIDE DEF roles
  <1>3. r \in Room BY <1>2, InvParts, ApplyRolesType
  <1>4. CanRequestRoles(game) => requested \in SessionType /\ Sound(requested, acked)
    BY <1>2, InvParts, RoleChangeType, WithRolesType, ControllerOwnersType, RequestRolesSound
  <1> HIDE DEF r, requested
  <1> QED BY <1>1, <1>3, <1>4, InvParts, StepPublishInv

\* Every step of the roster preserves the invariant.
LEMMA RosterStepInv ==
  ASSUME Inv, RosterStep
  PROVE  Inv'
  BY JoinInv, ReleaseInv, ConnectionInv, LinkInv, AcquireInv, ChangeFileInv,
     SlotAvailabilityInv, SlotMoveInv, SlotRoleInv DEF RosterStep

-----------------------------------------------------------------------------
(* Choosing a cartridge and starting *)

\* The fields resetForGameSelection() sets leave a session.
LEMMA ResetType ==
  ASSUME NEW g \in SessionType, NEW cartridge \in Nat
  PROVE  [g EXCEPT !.offers = NoOffers, !.startRequested = FALSE, !.status = "waiting",
                   !.announced = cartridge] \in SessionType
  BY DEF SessionType, Status, NoOffers

\* Selecting a cartridge before play preserves the invariant.
LEMMA SelectInitialInv ==
  ASSUME Inv, NEW game1 \in Game, NEW r \in Room, SelectInitial(game1, r)
  PROVE  Inv'
  <1> DEFINE chosen == SelectGame(r, game1, FALSE)
             reset == [game EXCEPT !.offers = NoOffers, !.startRequested = FALSE,
                                   !.status = "waiting", !.announced = game1.cartridge]
  <1>1. chosen \in Room BY SelectGameType
  <1>2. Step(Publish(reset, chosen), chosen) BY DEF SelectInitial, ResetForSelection
  <1>3. game \in SessionType /\ Sound(game, acked) BY InvParts
  <1>4. reset \in SessionType BY <1>3, ResetType DEF Game
  <1>5. /\ reset.status = "waiting" /\ reset.epoch = game.epoch /\ reset.point = game.point
        /\ reset.load = game.load /\ reset.pending = game.pending
        /\ reset.proposed = game.proposed /\ reset.hasPlayed = game.hasPlayed
    BY <1>3 DEF SessionType
  <1> HIDE DEF chosen, reset
  <1>6. Sound(reset, acked) BY <1>3, <1>4, <1>5, RestingSound
  <1> QED BY <1>1, <1>2, <1>4, <1>6, StepPublishInv

\* Another candidate leaves a room.
LEMMA CandidateType ==
  ASSUME NEW r \in Room, NEW candidate \in Game \cup {None}
  PROVE  [r EXCEPT !.candidate = candidate] \in Room
  BY DEF Room

\* A newly offered cartridge leaves a room without a candidate.
LEMMA OfferedType ==
  ASSUME NEW r \in Room, NEW offered \in Nat
  PROVE  [r EXCEPT !.offered = offered, !.candidate = None] \in Room
  BY DEF Room

\* beginGameSelection preserves the invariant.
LEMMA BeginSelectionInv ==
  ASSUME Inv, NEW chosen \in NextGames, BeginSelection(chosen)
  PROVE  Inv'
  <1> DEFINE r == [room EXCEPT !.offered = chosen.cartridge, !.candidate = None]
             asked == [r EXCEPT !.candidate = chosen]
  <1>1. chosen \in Game /\ chosen.cartridge \in Nat BY DEF NextGames, Game
  <1>2. r \in Room BY <1>1, InvParts, OfferedType
  <1>3. SelectInitial(chosen, r) \/ Step(game, asked) BY DEF BeginSelection
  <1> HIDE DEF r
  <1>4. asked \in Room BY <1>1, <1>2, CandidateType
  <1> HIDE DEF asked
  <1> QED BY <1>1, <1>2, <1>3, <1>4, InvParts, SelectInitialInv, StepInv

\* confirmGameSelection preserves the invariant.
LEMMA ConfirmSelectionInv ==
  ASSUME Inv, ConfirmSelection
  PROVE  Inv'
BY InvParts, SelectInitialInv DEF ConfirmSelection, Room

\* A candidate that is cancelled or expires preserves the invariant.
LEMMA DropSelectionInv ==
  ASSUME Inv, CancelSelection \/ ExpireSelection
  PROVE  Inv'
  <1> DEFINE g == IF game.load # None /\ game.load.replacement = room.candidate
                    THEN Stop(game, "paused") ELSE game
             r == [room EXCEPT !.candidate = None]
  <1>1. Step(g, r) \/ Step(game, r) BY DEF CancelSelection, ExpireSelection
  <1>2. r \in Room BY InvParts, CandidateType
  <1>3. g \in SessionType /\ Sound(g, acked) BY InvParts, StopSound
  <1> HIDE DEF g, r
  <1> QED BY <1>1, <1>2, <1>3, InvParts, StepInv

\* The room once the host has its file.
LEMMA HostLoadedType ==
  ASSUME NEW r \in Room
  PROVE  [r EXCEPT !.loaded = @ \cup {Host}] \in Room
BY RoomSets, SessionAssumption, LoadedRoomType

\* Preparing the host preserves the invariant.
LEMMA PrepareHostInv ==
  ASSUME Inv, PrepareHost
  PROVE  Inv'
  <1> DEFINE r == [room EXCEPT !.loaded = @ \cup {Host}]
  <1>1. r \in Room BY InvParts, HostLoadedType
  <1>2. Step(Publish(game, r), r) BY DEF PrepareHost
  <1> HIDE DEF r
  <1> QED BY <1>1, <1>2, InvParts, StepPublishInv

\* A requested Start leaves a session.
LEMMA RequestedType ==
  ASSUME NEW g \in SessionType
  PROVE  [g EXCEPT !.startRequested = TRUE] \in SessionType
  BY DEF SessionType

\* A requested Start of a session without a timeline is sound and does not run yet.
LEMMA RequestedSound ==
  ASSUME NEW A, NEW g \in SessionType, Sound(g, A), g.epoch = 0
  PROVE  LET h == [g EXCEPT !.startRequested = TRUE]
         IN  h \in SessionType /\ Sound(h, A) /\ h.status \notin Running
  <1> DEFINE h == [g EXCEPT !.startRequested = TRUE]
  <1>1. h \in SessionType BY RequestedType
  <1>2. /\ h.status = g.status /\ h.epoch = g.epoch /\ h.point = g.point
        /\ h.load = g.load /\ h.pending = g.pending /\ h.proposed = g.proposed
        /\ h.hasPlayed = g.hasPlayed /\ h.required = g.required
        /\ h.acks = g.acks /\ h.transfers = g.transfers
    BY DEF SessionType
  <1> HIDE DEF h
  <1>3. Sound(h, A) BY <1>1, <1>2, GoingOnSound
  <1>4. h.status \notin Running BY <1>2 DEF Sound, Anchored, Running
  <1> QED BY <1>1, <1>3, <1>4 DEF h

\* A started room is a room.
LEMMA StartedType ==
  ASSUME NEW r \in Room, NEW started \in BOOLEAN
  PROVE  [r EXCEPT !.started = started] \in Room
  BY DEF Room

\* startRoom preserves the invariant.
LEMMA StartRoomInv ==
  ASSUME Inv, StartRoom
  PROVE  Inv'
  <1> DEFINE r == [room EXCEPT !.loaded = @ \cup {Host}]
             ready == Publish(game, r)
             requested == [ready EXCEPT !.startRequested = TRUE]
             asked == PrepareIfReady(requested)
             begun == [r EXCEPT !.started = @ \/ asked.epoch # 0]
  <1>1. Step(Publish(asked, begun), begun) /\ ready.epoch = 0 BY DEF StartRoom
  <1>2. r \in Room BY InvParts, HostLoadedType
  <1> HIDE DEF r
  <1>3. ready \in SessionType /\ Sound(ready, acked) BY <1>2, InvParts, PublishSound
  <1> HIDE DEF ready
  <1>4. requested \in SessionType /\ Sound(requested, acked) /\ requested.status \notin Running
    BY <1>1, <1>3, RequestedSound
  <1> HIDE DEF requested
  <1>5. asked \in SessionType /\ Sound(asked, acked) BY <1>4, PrepareIfReadySound
  <1> HIDE DEF asked
  <1>6. begun \in Room BY <1>2, StartedType
  <1> HIDE DEF begun
  <1> QED BY <1>1, <1>5, <1>6, StepPublishInv

\* Every step that selects or starts a game preserves the invariant.
LEMMA SelectionStepInv ==
  ASSUME Inv, SelectionStep
  PROVE  Inv'
  BY BeginSelectionInv, ConfirmSelectionInv, DropSelectionInv, PrepareHostInv,
     StartRoomInv DEF SelectionStep

-----------------------------------------------------------------------------
(* Commands to the session *)

\* A room whose game is under way is a room.
LEMMA BegunRoomType ==
  ASSUME NEW r \in Room
  PROVE  [r EXCEPT !.started = TRUE, !.established = TRUE] \in Room
  BY DEF Room

\* The fields gameRestore sets leave a session.
LEMMA RestoredTimelineType ==
  ASSUME NEW g \in SessionType, NEW point \in Point, NEW epoch \in Nat
  PROVE  [g EXCEPT !.transfers = {}, !.interruption = None, !.acks = {},
                   !.required = {}, !.point = point, !.hasPlayed = TRUE,
                   !.restored = TRUE, !.offers = NoOffers,
                   !.epoch = epoch, !.issued = epoch,
                   !.status = "paused", !.startRequested = FALSE] \in SessionType
  BY DEF SessionType, Status, NoOffers

\* gameRestore of a save or a recovered capture preserves the invariant.
LEMMA RestoreInv ==
  ASSUME Inv, NEW point \in Point, Restore(point)
  PROVE  Inv'
  <1> DEFINE epoch == game.issued + 1
             h == [game EXCEPT !.transfers = {}, !.interruption = None, !.acks = {},
                     !.required = {}, !.point = point, !.hasPlayed = TRUE,
                     !.restored = TRUE, !.offers = NoOffers,
                     !.epoch = epoch, !.issued = epoch,
                     !.status = "paused", !.startRequested = FALSE]
             r == [room EXCEPT !.started = TRUE, !.established = TRUE]
  <1>1. Accept(h, r) /\ game.load = None /\ game.pending = None BY DEF Restore, Idle
  <1>2. r \in Room BY InvParts, BegunRoomType
  <1>3. game \in SessionType BY InvParts
  <1>4. epoch \in Nat /\ epoch # 0 BY <1>3 DEF SessionType
  <1> HIDE DEF epoch, r
  <1>5. h \in SessionType BY <1>3, <1>4, RestoredTimelineType
  <1>6. /\ h.status = "paused" /\ h.epoch = epoch /\ h.point = point
        /\ h.load = None /\ h.pending = None
    BY <1>1, <1>3 DEF SessionType
  <1> HIDE DEF h
  <1>7. Sound(h, acked) BY <1>4, <1>6 DEF Sound, Anchored, LoadAnchored, Acked, Running
  <1> QED BY <1>1, <1>2, <1>5, <1>7, AcceptInv

\* A member's own role is a role change.
LEMMA OwnedSlotType ==
  ASSUME Inv, NEW m \in Member, Present(m)
  PROVE  OwnRole(m) \in Roles
BY InvParts, SlotType DEF Present, Members, OwnedSlot, OwnRole, Roles, Slot

\* gameReady of a member whose slot the assignment does not name preserves the
\* invariant.
LEMMA ReadyForSlotInv ==
  ASSUME Inv, NEW m \in Member, ReadyForSlot(m)
  PROVE  Inv'
  <1> DEFINE pending == RoleChange(room, {OwnRole(m)})
             h == RequestRoles(game, pending, ControllerOwners(room))
  <1>1. Accept(h, room) /\ CanRequestRoles(game) BY DEF ReadyForSlot
  <1>2. pending \in Pending BY OwnedSlotType, InvParts, RoleChangeType DEF ReadyForSlot
  <1> HIDE DEF pending
  <1>3. h \in SessionType /\ Sound(h, acked)
    BY <1>1, <1>2, InvParts, ControllerOwnersType, RequestRolesSound
  <1> HIDE DEF h
  <1> QED BY <1>1, <1>3, InvParts, AcceptInv

\* gameReady preserves the invariant.
LEMMA ReadyInv ==
  ASSUME Inv, NEW m \in Member, NEW offer \in Offers, Ready(m, offer)
  PROVE  Inv'
  <1> DEFINE offers == [game.offers EXCEPT ![m] = offer]
             h == [game EXCEPT !.offers = offers]
  <1>1. Accept(PrepareIfReady(h), room) BY InvParts DEF Ready, SessionType
  <1>2. offers \in [Member -> Offer \cup {None}]
    BY InstanceAssumption, InvParts DEF Offers, Offer, SessionType
  <1> HIDE DEF offers
  <1>3. h \in SessionType /\ Sound(h, acked) /\ h.status = game.status
    BY <1>2, InvParts, OffersSound
  <1>4. h.status \notin Running BY <1>3 DEF Ready, CanReady, Running
  <1> HIDE DEF h
  <1> QED BY <1>1, <1>3, <1>4, PrepareIfReadySound, InvParts, AcceptInv

\* Checkpoints are captured for live members while the game runs, and for
\* controllers while it is paused.
LEMMA CaptureInv ==
  ASSUME Inv, NEW m \in Member, NEW purpose \in Purpose,
         purpose # "controller" \/ game.status \notin Running,
         Accept(Capture(game, {m}, purpose), room)
  PROVE  Inv'
  <1> DEFINE h == Capture(game, {m}, purpose)
  <1>1. h \in SessionType /\ Sound(h, acked) BY InvParts, CaptureSound
  <1>2. Accept(h, room) OBVIOUS
  <1> HIDE DEF h
  <1> QED BY <1>1, <1>2, InvParts, AcceptInv

\* gameObserve preserves the invariant: it syncs a controller only in a pause.
LEMMA ObserveInv ==
  ASSUME Inv, NEW m \in Member, Observe(m)
  PROVE  Inv'
BY CaptureInv DEF Purpose, Running, Observe, PausedOwner

\* gameResynchronize preserves the invariant.
LEMMA ResynchronizeInv ==
  ASSUME Inv, NEW m \in Member, Resynchronize(m)
  PROVE  Inv'
  BY CaptureInv DEF Resynchronize, Purpose

\* Other transfers and offers leave a session.
LEMMA LeftType ==
  ASSUME NEW g \in SessionType, NEW transfers \in SUBSET Transfer,
         NEW offers \in [Member -> Offer \cup {None}]
  PROVE  [g EXCEPT !.transfers = transfers, !.offers = offers] \in SessionType
  BY DEF SessionType

\* Withdrawing an offer preserves the invariant of the session.
LEMMA WithdrawSound ==
  ASSUME NEW A, NEW g \in SessionType, Sound(g, A), NEW m \in Member
  PROVE  Withdraw(g, m) \in SessionType /\ Sound(Withdraw(g, m), A)
  <1> DEFINE transfers == g.transfers \ Involved(g, m)
             offers == [g.offers EXCEPT ![m] = None]
             h == [g EXCEPT !.transfers = transfers, !.offers = offers]
  <1>1. Withdraw(g, m) = IF /\ g.epoch = 0 \/ m \in Owners(g)
                            /\ g.startRequested \/ g.status \in {"starting", "countdown"}
                           THEN Stop(h, "paused") ELSE h
    BY DEF Withdraw, SessionType
  <1>2. transfers \in SUBSET Transfer /\ transfers \subseteq g.transfers BY DEF SessionType
  <1>3. offers \in [Member -> Offer \cup {None}] BY DEF SessionType
  <1> HIDE DEF transfers, offers
  <1>4. h \in SessionType BY <1>2, <1>3, LeftType
  <1>5. /\ h.status = g.status /\ h.epoch = g.epoch /\ h.point = g.point
        /\ h.load = g.load /\ h.pending = g.pending /\ h.proposed = g.proposed
        /\ h.hasPlayed = g.hasPlayed /\ h.required = g.required
        /\ h.acks = g.acks /\ h.transfers = transfers
    BY DEF SessionType
  <1> HIDE DEF h
  <1>6. Sound(h, A) BY <1>2, <1>4, <1>5, GoingOnSound
  <1> QED BY <1>1, <1>4, <1>6, StopSound

\* gameUnready preserves the invariant.
LEMMA UnreadyInv ==
  ASSUME Inv, NEW m \in Member, Unready(m)
  PROVE  Inv'
BY InvParts, FailTransactionSound, StopSound, WithdrawSound, AcceptInv DEF Unready

\* gameRoleCancel preserves the invariant.
LEMMA RoleCancelInv ==
  ASSUME Inv, RoleCancel
  PROVE  Inv'
  BY InvParts, DropRolesSound, AcceptInv DEF RoleCancel

\* gameRoleRetry preserves the invariant.
LEMMA RoleRetryInv ==
  ASSUME Inv, RoleRetry
  PROVE  Inv'
  <1> DEFINE owners == ControllerOwners(WithRoles(room, game.pending.roles))
             h == RetryRoles(game, room.revision, owners)
  <1>1. Accept(h, room) /\ game.pending # None BY DEF RoleRetry
  <1>3. owners \in [Seat -> Owner] /\ room.revision \in Nat
    BY <1>1, InvParts, PendingType, WithRolesType, ControllerOwnersType, NextRevision DEF Pending,
       Roles, Role
  <1> HIDE DEF owners
  <1>4. h \in SessionType /\ Sound(h, acked) BY <1>1, <1>3, InvParts, RetryRolesSound
  <1> HIDE DEF h
  <1> QED BY <1>1, <1>4, InvParts, AcceptInv

\* gamePause preserves the invariant.
LEMMA PauseInv ==
  ASSUME Inv, NEW m \in Member, Pause(m)
  PROVE  Inv'
BY InvParts, FreezeSound, AcceptInv DEF Pause, Sound, Anchored

\* The end of a transaction, with the roles the room applies, preserves the invariant.
LEMMA FinishInv ==
  ASSUME Inv, NEW g \in SessionType, Sound(g, acked), Finish(g)
  PROVE  Inv'
  <1> DEFINE applied == ApplyRoles(room, g.pending.roles)
  <1>1. CASE Commits(g, room.revision)
    <2>1. g.pending # None BY <1>1 DEF Commits, TransactionDue
    <2>2. g.pending.roles \in SUBSET Roles BY <2>1, PendingType DEF Pending, Roles, Role
    <2>3. applied \in Room BY <2>2, InvParts, ApplyRolesType
    <2> DEFINE h == FinishTransaction(g, room.revision, applied.controllers)
    <2>4. Accept(h, applied) BY <1>1 DEF Finish
    <2> HIDE DEF applied
    <2>5. applied.controllers \in Assignment BY <2>3 DEF Room
    <2>6. h \in SessionType /\ Sound(h, acked) BY <2>5, FinishTransactionSound
    <2> HIDE DEF h
    <2> QED BY <2>3, <2>4, <2>6, AcceptInv
  <1>2. CASE ~Commits(g, room.revision)
    <2> DEFINE h == FinishTransaction(g, room.revision, room.controllers)
    <2>1. Accept(h, room) BY <1>2 DEF Finish
    <2>2. room.controllers \in Assignment BY InvParts DEF Room
    <2>3. h \in SessionType /\ Sound(h, acked) BY <2>2, FinishTransactionSound
    <2> HIDE DEF h
    <2> QED BY <2>1, <2>3, InvParts, AcceptInv
  <1> QED BY <1>1, <1>2

\* The fields gameFrozen sets leave a session.
LEMMA PausedType ==
  ASSUME NEW g \in SessionType, NEW point \in Point, NEW load \in Load \cup {None}
  PROVE  [g EXCEPT !.point = point, !.status = "paused", !.load = load] \in SessionType
  BY DEF SessionType, Status

\* A load told where the host stopped is a load that returns there.
LEMMA HeldType ==
  ASSUME NEW load \in Load, NEW point \in Point
  PROVE  /\ [load EXCEPT !.oldPoint = point, !.held = TRUE] \in Load
         /\ SameAnchor([load EXCEPT !.oldPoint = point, !.held = TRUE], load)
  BY DEF Load, SameAnchor

\* The session once the host froze a timeline that was being paused.
LEMMA PausedSound ==
  ASSUME NEW A, NEW g \in SessionType, Sound(g, A), g.status = "pausing",
         NEW point \in Point
  PROVE  LET h == [g EXCEPT !.point = point, !.status = "paused",
                            !.load = IF g.load = None THEN None ELSE
                              [@ EXCEPT !.oldPoint = point, !.held = TRUE]]
         IN  /\ h \in SessionType /\ Sound(h, A) /\ h.status = "paused"
             /\ h.pending = g.pending /\ h.proposed = g.proposed
  <1> DEFINE held == [g.load EXCEPT !.oldPoint = point, !.held = TRUE]
             load == IF g.load = None THEN None ELSE held
             h == [g EXCEPT !.point = point, !.status = "paused", !.load = load]
  <1>1. g.load # None => held \in Load /\ SameAnchor(held, g.load) /\ held.oldPoint \in Point
    BY LoadType, HeldType DEF Load
  <1> HIDE DEF held
  <1>2. load \in Load \cup {None} BY <1>1
  <1>3. g.load # None => load = held OBVIOUS
  <1>4. g.load = None => load = None OBVIOUS
  <1> HIDE DEF load
  <1>5. h \in SessionType BY <1>2, PausedType
  <1>6. /\ h.status = "paused" /\ h.epoch = g.epoch /\ h.point = point
        /\ h.load = load /\ h.pending = g.pending /\ h.proposed = g.proposed
        /\ h.hasPlayed = g.hasPlayed
    BY DEF SessionType
  <1>7. g.epoch # 0 BY DEF Sound, Anchored
  <1>8. Sound(h, A)
    <2> HIDE DEF h
    <2>1. Anchored(h) /\ Acked(h, A) BY <1>6, <1>7 DEF Sound, Anchored, Acked, Running
    <2>2. LoadAnchored(h) BY <1>1, <1>3, <1>4, <1>6 DEF Sound, LoadAnchored, SameAnchor
    <2> QED BY <2>1, <2>2 DEF Sound
  <1>9. h = [g EXCEPT !.point = point, !.status = "paused",
                      !.load = IF g.load = None THEN None ELSE
                        [@ EXCEPT !.oldPoint = point, !.held = TRUE]]
    BY DEF load, held
  <1> HIDE DEF h
  <1> QED BY <1>5, <1>6, <1>8, <1>9

\* A transaction that goes on preserves the invariant of the session.
LEMMA PendingSound ==
  ASSUME NEW A, NEW g \in SessionType, Sound(g, A), g.pending # None,
         NEW pending \in Pending
  PROVE  LET h == [g EXCEPT !.pending = pending]
         IN  h \in SessionType /\ Sound(h, A) /\ h.status = g.status
  <1> DEFINE h == [g EXCEPT !.pending = pending]
  <1>1. h \in SessionType BY DEF SessionType
  <1>2. /\ h.status = g.status /\ h.epoch = g.epoch /\ h.point = g.point
        /\ h.load = g.load /\ h.proposed = g.proposed /\ h.hasPlayed = g.hasPlayed
        /\ h.required = g.required /\ h.acks = g.acks /\ h.transfers = g.transfers
    BY DEF SessionType
  <1> HIDE DEF h
  <1>4. Anchored(h) /\ LoadAnchored(h) BY <1>2 DEF Sound, Anchored, LoadAnchored
  <1>5. Acked(h, A) BY <1>2 DEF Sound, Acked
  <1> QED BY <1>1, <1>2, <1>4, <1>5 DEF Sound, h

\* gameFrozen preserves the invariant, with a load, a transaction or neither.
LEMMA FrozenInv ==
  ASSUME Inv, NEW point \in Point, Frozen(point)
  PROVE  Inv'
  <1> DEFINE paused == [game EXCEPT !.point = point, !.status = "paused",
                           !.load = IF game.load = None THEN None ELSE
                             [@ EXCEPT !.oldPoint = point, !.held = TRUE]]
             synchronizing == [paused EXCEPT !.pending.status = "synchronizing"]
             synced == Capture(synchronizing, OwnersOf(game.proposed) \ {Host}, "controller")
  <1>1. game.status = "pausing" BY DEF Frozen
  <1>2. /\ paused \in SessionType /\ Sound(paused, acked) /\ paused.status = "paused"
        /\ paused.pending = game.pending /\ paused.proposed = game.proposed
    BY <1>1, InvParts, PausedSound
  <1>3. \/ Accept(paused, room)
        \/ game.pending # None /\ Finish(synced)
        \/ game.pending # None /\ Accept(FailTransaction(synchronizing), room)
    BY DEF Frozen, Idle
  <1> HIDE DEF paused
  <1>4. ASSUME game.pending # None
        PROVE  /\ synchronizing \in SessionType /\ Sound(synchronizing, acked)
               /\ synchronizing.status \notin Running
    <2> DEFINE pending == [paused.pending EXCEPT !.status = "synchronizing"]
    <2>1. pending \in Pending BY <1>2, <1>4, PendingType DEF Pending
    <2>2. synchronizing = [paused EXCEPT !.pending = pending] BY <1>2 DEF SessionType
    <2> HIDE DEF pending, synchronizing
    <2>3. /\ synchronizing \in SessionType /\ Sound(synchronizing, acked)
          /\ synchronizing.status = paused.status
      BY <1>2, <1>4, <2>1, <2>2, PendingSound
    <2> QED BY <1>2, <2>3 DEF Running
  <1> HIDE DEF synchronizing
  <1>5. ASSUME game.pending # None
        PROVE  synced \in SessionType /\ Sound(synced, acked)
    BY <1>5, InvParts, OwnersOfType, <1>4, CaptureSound DEF Sound, Anchored, Purpose
  <1> HIDE DEF synced
  <1>6. CASE Accept(paused, room) BY <1>2, <1>6, InvParts, AcceptInv
  <1>7. CASE game.pending # None /\ Finish(synced) BY <1>5, <1>7, FinishInv
  <1>8. CASE game.pending # None /\ Accept(FailTransaction(synchronizing), room)
    BY <1>4, <1>8, InvParts, FailTransactionSound, AcceptInv
  <1> QED BY <1>3, <1>6, <1>7, <1>8

\* Other acknowledgments under another status leave a session.
LEMMA AcksType ==
  ASSUME NEW g \in SessionType, NEW acks \in SUBSET Member, NEW status \in Status
  PROVE  [g EXCEPT !.acks = acks, !.status = status] \in SessionType
  BY DEF SessionType

\* The session once an accepted acknowledgment was counted.
LEMMA TakenAckSound ==
  ASSUME NEW A \in SUBSET Ack, NEW g \in SessionType, Sound(g, A),
         NEW prepare \in g.sent, AcceptsAck(g, prepare)
  PROVE  LET ack == [from |-> prepare.to, epoch |-> prepare.epoch, hash |-> prepare.hash]
             h == TakeAck(g, prepare.to)
         IN  /\ ack \in Ack /\ h \in SessionType /\ Sound(h, A \cup {ack})
             /\ h.status \in {"starting", "countdown"} /\ g.load = None
             /\ h.epoch = g.epoch /\ h.point = g.point /\ h.load = g.load
             /\ h.pending = g.pending /\ h.proposed = g.proposed
             /\ h.controllers = g.controllers /\ h.members = g.members
             /\ h.roomRevision = g.roomRevision /\ h.startRequested = g.startRequested
  <1> DEFINE m == prepare.to
             ack == [from |-> prepare.to, epoch |-> prepare.epoch, hash |-> prepare.hash]
             B == A \cup {ack}
             acks == g.acks \cup {m}
             status == IF g.required \subseteq acks THEN "countdown" ELSE g.status
             h == [g EXCEPT !.acks = acks, !.status = status]
  <1>1. /\ g.load = None /\ prepare.epoch = g.epoch /\ g.status = "starting"
        /\ prepare.hash = g.point.hash
    BY DEF AcceptsAck
  <1>2. TakeAck(g, prepare.to) = h BY DEF TakeAck
  <1>3. prepare \in Prepare BY DEF SessionType
  <1>4. m \in Member /\ ack \in Ack BY <1>3 DEF Prepare, Ack
  <1>5. h \in SessionType
    <2>1. acks \in SUBSET Member BY <1>4 DEF SessionType
    <2>2. status \in Status BY <1>1 DEF Status
    <2> HIDE DEF acks, status
    <2> QED BY <2>1, <2>2, AcksType
  <1>6. /\ h.epoch = g.epoch /\ h.point = g.point /\ h.load = g.load
        /\ h.pending = g.pending /\ h.proposed = g.proposed
        /\ h.required = g.required /\ h.transfers = g.transfers
        /\ h.controllers = g.controllers /\ h.members = g.members
        /\ h.roomRevision = g.roomRevision /\ h.startRequested = g.startRequested
        /\ h.acks = acks /\ h.status = status
    BY DEF SessionType
  <1>7. Anchored(h) /\ LoadAnchored(h)
    <2> HIDE DEF h, acks
    <2> QED BY <1>1, <1>6 DEF Sound, Anchored, LoadAnchored
  <1>8. status \in {"starting", "countdown"} BY <1>1
  <1>9. Acked(h, B)
    <2>1. \A x \in acks : [from |-> x, epoch |-> g.epoch, hash |-> g.point.hash] \in B
      BY <1>1 DEF Sound, Acked
    <2>2. status = "countdown" => g.required \subseteq acks BY <1>1
    <2>3. \A t \in g.transfers : t.purpose # "controller" BY <1>1 DEF Sound, Acked, Running
    <2> HIDE DEF h, acks, status, B
    <2> QED BY <1>6, <1>8, <2>1, <2>2, <2>3 DEF Acked
  <1> HIDE DEF h, acks, status, B
  <1> QED BY <1>1, <1>2, <1>4, <1>5, <1>6, <1>7, <1>8, <1>9 DEF Sound, B

\* gameAck preserves the invariant: the one accepted names this epoch and state.
LEMMA ReceiveAckInv ==
  ASSUME Inv, NEW prepare \in game.sent, ReceiveAck(prepare)
  PROVE  Inv'
  <1> DEFINE ack == [from |-> prepare.to, epoch |-> prepare.epoch, hash |-> prepare.hash]
             A == acked \cup {ack}
             h == TakeAck(game, prepare.to)
  <1>1. AcceptsAck(game, prepare) BY DEF ReceiveAck
  <1>2. game' = Publish(h, room) /\ room' = room /\ acked' = A BY DEF ReceiveAck, Become
  <1>3. ack \in Ack /\ h \in SessionType /\ Sound(h, A) BY <1>1, InvParts, TakenAckSound
  <1> HIDE DEF h, ack
  <1>4. Publish(h, room) \in SessionType /\ Sound(Publish(h, room), A)
    BY <1>3, InvParts, PublishSound
  <1>5. TypeOK' BY <1>2, <1>3, <1>4, InvParts DEF TypeOK
  <1>6. Sound(game, acked)' BY <1>2, <1>4
  <1> QED BY <1>5, <1>6 DEF Inv

\* gameResume preserves the invariant.
LEMMA ResumeInv ==
  ASSUME Inv, Resume
  PROVE  Inv'
BY InvParts, BeginSound, AcceptInv DEF Resume, Idle, Sound, Anchored

\* Dropping transfers preserves the invariant of the session.
LEMMA FewerTransfersSound ==
  ASSUME NEW A, NEW g \in SessionType, Sound(g, A), NEW transfers \in SUBSET g.transfers
  PROVE  /\ [g EXCEPT !.transfers = transfers] \in SessionType
         /\ Sound([g EXCEPT !.transfers = transfers], A)
BY TransfersSound DEF SessionType

\* gameAbort preserves the invariant.
LEMMA AbortInv ==
  ASSUME Inv, NEW m \in Member, Abort(m)
  PROVE  Inv'
  <1> DEFINE others == {t \in game.transfers : t.recipient # m}
             h == [game EXCEPT !.transfers = others]
  <1>1. Accept(h, room) \/ Accept(Stop(game, "failed"), room) BY DEF Abort
  <1>2. h \in SessionType /\ Sound(h, acked) BY InvParts, FewerTransfersSound
  <1> HIDE DEF h
  <1> QED BY <1>1, <1>2, InvParts, StopSound, AcceptInv

\* Every command to the session preserves the invariant.
LEMMA CommandStepInv ==
  ASSUME Inv, CommandStep
  PROVE  Inv'
  BY RestoreInv, FrozenInv, ReadyForSlotInv, ObserveInv, UnreadyInv, ResynchronizeInv,
     PauseInv, AbortInv, ReadyInv, RoleCancelInv, RoleRetryInv, ResumeInv, ReceiveAckInv
     DEF CommandStep

-----------------------------------------------------------------------------
(* Commands of a checkpoint transfer *)

\* The transfers of the session are transfers.
LEMMA TransferType ==
  ASSUME Inv, NEW t \in game.transfers
  PROVE  t \in Transfer
  BY InvParts DEF SessionType

\* Ending a transfer preserves the invariant of the session.
LEMMA WithoutSound ==
  ASSUME Inv, NEW t \in game.transfers
  PROVE  Without(game, t) \in SessionType /\ Sound(Without(game, t), acked)
BY InvParts, FewerTransfersSound DEF Without

\* A transfer that goes on for the same purpose preserves the invariant.
LEMMA UpdatedInv ==
  ASSUME Inv, NEW t \in game.transfers, NEW new \in Transfer, new.purpose = t.purpose,
         Accept(Updated(t, new), room)
  PROVE  Inv'
  <1> DEFINE transfers == (game.transfers \ {t}) \cup {new}
             h == [game EXCEPT !.transfers = transfers]
  <1>1. Updated(t, new) = h BY DEF Updated
  <1>2. transfers \in SUBSET Transfer BY InvParts DEF SessionType
  <1>3. \/ game.status \notin Running
        \/ \A u \in transfers : u \in game.transfers \/ u.purpose # "controller"
    BY InvParts DEF Sound, Acked
  <1> HIDE DEF transfers
  <1>4. h \in SessionType /\ Sound(h, acked) BY <1>2, <1>3, InvParts, TransfersSound
  <1> HIDE DEF h
  <1> QED BY <1>1, <1>4, InvParts, AcceptInv

\* A transfer whose capture or boundary is known is one for the same purpose.
LEMMA TransferFieldsType ==
  ASSUME NEW t \in Transfer, NEW point \in Point
  PROVE  /\ [t EXCEPT !.point = point] \in Transfer
         /\ [t EXCEPT !.boundary = point] \in Transfer
         /\ [t EXCEPT !.point = point].purpose = t.purpose
         /\ [t EXCEPT !.boundary = point].purpose = t.purpose
  BY DEF Transfer

\* A captured transfer may be sent.
LEMMA TransferFlagsType ==
  ASSUME NEW t \in Transfer, t.point # None
  PROVE  /\ [t EXCEPT !.sending = TRUE] \in Transfer
         /\ [t EXCEPT !.sending = TRUE].purpose = t.purpose
  BY DEF Transfer

\* A live transfer may be caught up with.
LEMMA CatchingUpType ==
  ASSUME NEW t \in Transfer, t.purpose = "live"
  PROVE  /\ [t EXCEPT !.catchingUp = TRUE] \in Transfer
         /\ [t EXCEPT !.catchingUp = TRUE].purpose = t.purpose
  BY DEF Transfer

\* A captured checkpoint and a chosen boundary preserve the invariant.
LEMMA CapturedInv ==
  ASSUME Inv, NEW t \in game.transfers, NEW point \in Point,
         Captured(t, point) \/ CatchupBoundary(t, point)
  PROVE  Inv'
BY TransferType, TransferFieldsType, UpdatedInv DEF Captured, CatchupBoundary

\* A checkpoint that is ready or loaded preserves the invariant.
LEMMA ProgressInv ==
  ASSUME Inv, NEW t \in game.transfers, CheckpointReady(t) \/ LiveAck(t)
  PROVE  Inv'
BY TransferType, TransferFlagsType, UpdatedInv, CatchingUpType DEF CheckpointReady, LiveAck

\* The end of a live transfer preserves the invariant.
LEMMA ObservedInv ==
  ASSUME Inv, NEW t \in game.transfers, Observed(t)
  PROVE  Inv'
  BY InvParts, WithoutSound, AcceptInv DEF Observed

\* What a synchronized controller offers was captured.
LEMMA SyncedOfferType ==
  ASSUME Inv, NEW t \in game.transfers, t.sending
  PROVE  SyncedOffer(t) \in Offer
BY TransferType, InvParts DEF Transfer, SessionType, Assignment, SyncedOffer, Offer

\* A controller's transfer means that the session does not run.
LEMMA ControllerAckInv ==
  ASSUME Inv, NEW t \in game.transfers, ControllerAck(t)
  PROVE  Inv'
  <1> DEFINE w == Without(game, t)
             offers == [w.offers EXCEPT ![t.recipient] = SyncedOffer(t)]
             h == [w EXCEPT !.offers = offers]
             p == PrepareIfReady(h)
  <1>1. w \in SessionType /\ Sound(w, acked) BY WithoutSound
  <1>2. w.status \notin Running BY InvParts DEF Without, SessionType, ControllerAck, Sound, Acked
  <1>3. offers \in [Member -> Offer \cup {None}]
    BY TransferType, SyncedOfferType, <1>1 DEF Transfer, ControllerAck, SessionType
  <1>4. Accept(w, room) \/ Finish(h) \/ Accept(p, room) BY <1>1 DEF SessionType, ControllerAck
  <1> HIDE DEF w, offers
  <1>5. h \in SessionType /\ Sound(h, acked) /\ h.status \notin Running
    BY <1>1, <1>2, <1>3, OffersSound
  <1> HIDE DEF h
  <1>6. p \in SessionType /\ Sound(p, acked) BY <1>5, PrepareIfReadySound
  <1> HIDE DEF p
  <1> QED BY <1>1, <1>4, <1>5, <1>6, InvParts, AcceptInv, FinishInv

\* A prepared load preserves the invariant.
LEMMA LoadAckInv ==
  ASSUME Inv, NEW t \in game.transfers, LoadAck(t)
  PROVE  Inv'
  <1> DEFINE w == Without(game, t)
             h == LoadPrepared(w, t.recipient)
  <1>1. w \in SessionType /\ Sound(w, acked) BY WithoutSound
  <1>2. w.load # None BY InvParts DEF Without, SessionType, LoadAck, Drivable, Loading, Idle
  <1>3. t.recipient \in Member BY TransferType DEF Transfer
  <1>4. Accept(h, room) BY DEF LoadAck
  <1> HIDE DEF w
  <1>5. h \in SessionType /\ Sound(h, acked) BY <1>1, <1>2, <1>3, LoadPreparedSound
  <1> HIDE DEF h
  <1> QED BY <1>4, <1>5, InvParts, AcceptInv

\* A failed synchronization preserves the invariant of the session.
LEMMA SyncFailedSound ==
  ASSUME NEW A, NEW g \in SessionType, Sound(g, A)
  PROVE  SyncFailed(g) \in SessionType /\ Sound(SyncFailed(g), A)
BY AbortLoadSound, FailTransactionSound, StopSound DEF SyncFailed

\* A failed checkpoint preserves the invariant.
LEMMA CheckpointFailedInv ==
  ASSUME Inv, NEW t \in game.transfers, CheckpointFailed(t)
  PROVE  Inv'
  <1> DEFINE w == Without(game, t)
  <1>1. w \in SessionType /\ Sound(w, acked) BY WithoutSound
  <1>2. t.purpose \in {"controller", "live", "load"} BY TransferType DEF Transfer, Purpose
  <1>3. Accept(w, room) \/ Accept(SyncFailed(w), room) \/ Accept(AbortLoad(game), room)
    BY <1>2 DEF CheckpointFailed
  <1> HIDE DEF w
  <1> QED BY <1>1, <1>3, InvParts, SyncFailedSound, AbortLoadSound, AcceptInv

\* Every step of a transfer preserves the invariant.
LEMMA TransferStepInv ==
  ASSUME Inv, TransferStep
  PROVE  Inv'
  BY CapturedInv, ProgressInv, ObservedInv, ControllerAckInv, LoadAckInv,
     CheckpointFailedInv DEF TransferStep

-----------------------------------------------------------------------------
(* Commands of a coordinated load *)

\* gameLoadPropose, plain or of a replacement, preserves the invariant.
LEMMA ProposeInv ==
  ASSUME Inv, NEW point \in Point, ProposePlain(point) \/ ProposeReplacement(point)
  PROVE  Inv'
  <1>1. CASE ProposePlain(point)
    <2> DEFINE h == ProposeLoad(game, point, None, game.controllers.owners)
    <2>1. Accept(h, room) /\ CanPropose(game) BY <1>1 DEF ProposePlain
    <2>2. game.controllers.owners \in [Seat -> Owner] BY InvParts DEF SessionType, Assignment
    <2>3. h \in SessionType /\ Sound(h, acked) BY <2>1, <2>2, InvParts, ProposeLoadSound
    <2> HIDE DEF h
    <2> QED BY <2>1, <2>3, InvParts, AcceptInv
  <1>2. CASE ProposeReplacement(point)
    <2> DEFINE owners == ControllerOwners(WithCartridgeRoles(room, room.candidate.seats))
               h == ProposeLoad(game, point, room.candidate, owners)
    <2>1. Accept(h, room) /\ CanPropose(game) BY <1>2 DEF ProposeReplacement
    <2>2. room.candidate \in Game \cup {None} BY InvParts DEF Room
    <2>3. owners \in [Seat -> Owner] BY InvParts, WithCartridgeRolesType, ControllerOwnersType
    <2> HIDE DEF owners
    <2>4. h \in SessionType /\ Sound(h, acked) BY <2>1, <2>2, <2>3, InvParts, ProposeLoadSound
    <2> HIDE DEF h
    <2> QED BY <2>1, <2>4, InvParts, AcceptInv
  <1> QED BY <1>1, <1>2

\* gameLoadBoundary preserves the invariant.
LEMMA ReportBoundaryInv ==
  ASSUME Inv, NEW m \in Member, NEW point \in Point, ReportBoundary(m, point)
  PROVE  Inv'
  <1> DEFINE h == LoadBoundary(game, m, point)
  <1>1. Accept(h, room) /\ game.load # None BY DEF ReportBoundary, Loading, Idle
  <1>2. h \in SessionType /\ Sound(h, acked) BY <1>1, InvParts, LoadBoundarySound
  <1> HIDE DEF h
  <1> QED BY <1>1, <1>2, InvParts, AcceptInv

\* The prepared host preserves the invariant.
LEMMA HostPreparedInv ==
  ASSUME Inv, HostPrepared
  PROVE  Inv'
  <1> DEFINE h == LoadPrepared(game, Host)
  <1>1. Accept(h, room) /\ game.load # None BY DEF HostPrepared, Loading, Idle
  <1>2. h \in SessionType /\ Sound(h, acked) BY <1>1, InvParts, SessionAssumption, LoadPreparedSound
  <1> HIDE DEF h
  <1> QED BY <1>1, <1>2, InvParts, AcceptInv

\* replacementCommit() preserves the invariant even when the room refuses it.
LEMMA CommitReplacementInv ==
  ASSUME Inv, game.load # None, game.load.replacement # None,
         CommitReplacement(game.load.replacement)
  PROVE  Inv'
  <1> DEFINE replacement == game.load.replacement
             announced == AnnounceReplacement(game)
             chosen == SelectGame(room, replacement, TRUE)
             h == ReplaceGame(announced, chosen.controllers)
  <1>1. Step(announced, room) \/ Accept(h, chosen) BY DEF CommitReplacement
  <1>2. replacement \in Game BY InvParts, LoadType DEF Load
  <1>3. announced \in SessionType /\ Sound(announced, acked) /\ announced.load = None
    BY InvParts, AnnounceReplacementSound
  <1> HIDE DEF replacement, announced
  <1>4. chosen \in Room /\ chosen.controllers \in Assignment BY <1>2, InvParts, SelectGameType
  <1> HIDE DEF chosen
  <1>5. h \in SessionType /\ Sound(h, acked) BY <1>3, <1>4, ReplaceGameSound
  <1> HIDE DEF h
  <1> QED BY <1>1, <1>3, <1>4, <1>5, InvParts, StepInv, AcceptInv

\* gameLoadCommitted preserves the invariant, the last one too.
LEMMA CommittedInv ==
  ASSUME Inv, NEW m \in Member, Committed(m)
  PROVE  Inv'
  <1> DEFINE l == [game.load EXCEPT !.committed = @ \cup {m}]
             h == [game EXCEPT !.load = l]
             r == [room EXCEPT !.started = TRUE, !.established = TRUE]
  <1>1. game.load # None BY DEF Committed, Loading, Idle
  <1>2. h \in SessionType /\ Sound(h, acked)
    <2>1. l \in Load /\ SameAnchor(l, game.load) BY <1>1, InvParts, LoadType DEF Load, SameAnchor
    <2> HIDE DEF l
    <2> QED BY <1>1, <2>1, InvParts, LoadStepSound
  <1>3. r \in Room BY InvParts, BegunRoomType
  <1>4. FinishLoad(game) \in SessionType /\ Sound(FinishLoad(game), acked)
    BY <1>1, InvParts, FinishLoadSound
  <1>5. \/ Accept(h, room)
        \/ Accept(FinishLoad(game), r)
        \/ game.load.replacement # None /\ CommitReplacement(game.load.replacement)
    <2>1. h = [game EXCEPT !.load.committed = @ \cup {m}] BY InvParts DEF SessionType
    <2> HIDE DEF h
    <2> QED BY <2>1 DEF Committed
  <1> HIDE DEF h, r
  <1> QED BY <1>1, <1>2, <1>3, <1>4, <1>5, InvParts, CommitReplacementInv, AcceptInv

\* gameLoadFailed preserves the invariant.
LEMMA LoadFailedInv ==
  ASSUME Inv, NEW m \in Member, LoadFailed(m)
  PROVE  Inv'
  BY InvParts, AbortLoadSound, AcceptInv DEF LoadFailed

\* gameLoadRolledBack preserves the invariant.
LEMMA RolledBackInv ==
  ASSUME Inv, NEW m \in Member, RolledBack(m)
  PROVE  Inv'
  <1> DEFINE h == LoadRolledBack(game, m)
  <1>1. Accept(h, room) /\ game.load # None BY DEF RolledBack, Loading, Idle
  <1>2. h \in SessionType /\ Sound(h, acked) BY <1>1, InvParts, LoadRolledBackSound
  <1> HIDE DEF h
  <1> QED BY <1>1, <1>2, InvParts, AcceptInv

\* Every step of a load preserves the invariant.
LEMMA LoadStepInv ==
  ASSUME Inv, LoadStep
  PROVE  Inv'
  BY ProposeInv, ReportBoundaryInv, HostPreparedInv, CommittedInv, LoadFailedInv,
     RolledBackInv DEF LoadStep

-----------------------------------------------------------------------------
(* Timers *)

\* The deadline of a load preserves the invariant.
LEMMA LoadTimerInv ==
  ASSUME Inv, LoadTimer
  PROVE  Inv'
BY InvParts, FinishLoadRollbackSound, AbortLoadSound, AcceptInv DEF LoadTimer

\* The deadline of a transfer preserves the invariant, published or not.
LEMMA TransferTimerInv ==
  ASSUME Inv, NEW t \in game.transfers, TransferTimer(t)
  PROVE  Inv'
  <1> DEFINE w == Without(game, t)
  <1>1. w \in SessionType /\ Sound(w, acked) BY WithoutSound
  <1>2. t.purpose \in {"controller", "live", "load"} BY TransferType DEF Transfer, Purpose
  <1>3. \/ Accept(w, room) \/ Accept(AbortLoad(w), room)
        \/ Accept(SyncFailed(w), room) \/ Step(SyncFailed(w), room)
    BY <1>2 DEF TransferTimer
  <1> HIDE DEF w
  <1> QED BY <1>1, <1>3, InvParts, SyncFailedSound, AbortLoadSound, AcceptInv, StepInv

\* The end of the countdown preserves the invariant.
LEMMA StartTimerInv ==
  ASSUME Inv, StartTimer
  PROVE  Inv'
  <1> DEFINE h == [game EXCEPT !.hasPlayed = TRUE, !.interruption = None,
                               !.restored = FALSE, !.status = "playing",
                               !.startRequested = FALSE]
  <1>1. Accept(h, room) /\ game.status = "countdown" BY DEF StartTimer
  <1>2. h \in SessionType BY InvParts DEF SessionType, Status
  <1>3. /\ h.status = "playing" /\ h.epoch = game.epoch /\ h.point = game.point
        /\ h.load = game.load /\ h.pending = game.pending /\ h.proposed = game.proposed
        /\ h.required = game.required /\ h.transfers = game.transfers
    BY InvParts DEF SessionType
  <1> HIDE DEF h
  <1>4. Anchored(h) /\ LoadAnchored(h) BY <1>1, <1>3, InvParts DEF Sound, Anchored, LoadAnchored
  <1>5. Acked(h, acked) BY <1>1, <1>3, InvParts DEF Sound, Acked, Running
  <1> QED BY <1>1, <1>2, <1>4, <1>5, InvParts, AcceptInv DEF Sound

\* The deadline of a barrier preserves the invariant.
LEMMA BarrierTimerInv ==
  ASSUME Inv, BarrierTimer
  PROVE  Inv'
BY InvParts, FailTransactionSound, StopSound, AcceptInv DEF BarrierTimer

\* Every step of the sweep preserves the invariant.
LEMMA TimerStepInv ==
  ASSUME Inv, TimerStep
  PROVE  Inv'
  BY LoadTimerInv, StartTimerInv, BarrierTimerInv, TransferTimerInv DEF TimerStep

-----------------------------------------------------------------------------
(* The initial states, and the theorems *)

\* A new session has the invariant.
LEMMA NewSessionSound ==
  NewSession \in SessionType /\ Sound(NewSession, {})
BY NoOffersType DEF View, Absent, Assignment, Owner, NewSession, SessionType, Status, Sound,
   Anchored, LoadAnchored, Acked, Running

\* The members seated at first form a room.
LEMMA AssembledType ==
  Assembled \in Room /\ Seated \in SUBSET Member
  <1>1. Seated \in SUBSET Member BY InstanceAssumption DEF Seated, Owner
  <1> DEFINE slots == [i \in Slot |-> [role |-> CartridgeRole(i, 2),
                                       member |-> Seating[i], open |-> TRUE]]
             links == {l \in SUBSET Seated : Cardinality(l) = 2}
  <1>2. slots \in [Slot -> SlotState] BY InstanceAssumption, CartridgeRoleType DEF SlotState
  <1>3. links \in SUBSET Link BY <1>1 DEF Link
  <1>5. Assembled = [slots |-> slots, connected |-> Seated, loaded |-> {},
                     links |-> links, former |-> {}, revision |-> 0,
                     started |-> FALSE, established |-> FALSE,
                     controllers |-> [owners |-> [s \in Seat |-> None], revision |-> 0],
                     cartridge |-> 0, seats |-> 2, candidate |-> None, offered |-> 0]
    BY DEF Assembled
  <1> HIDE DEF slots, links
  <1>6. Assembled \in Room BY <1>1, <1>2, <1>3, <1>5 DEF Room, Assignment, Owner
  <1> QED BY <1>1, <1>6

\* A room created for a cartridge, or for none, is a room.
LEMMA NewRoomType ==
  ASSUME NEW cartridge \in Nat, NEW loaded \in SUBSET Member
  PROVE  NewRoom(cartridge, loaded) \in Room
  <1> DEFINE controllers == [Assembled.controllers EXCEPT !.owners = ControllerOwners(Assembled)]
  <1>1. controllers \in Assignment BY AssembledType, ControllerOwnersType DEF Room, Assignment
  <1>2. NewRoom(cartridge, loaded) =
          [Assembled EXCEPT !.controllers = controllers, !.cartridge = cartridge,
                            !.offered = cartridge, !.loaded = loaded]
    BY AssembledType DEF NewRoom, Room
  <1> HIDE DEF controllers
  <1> QED BY <1>1, <1>2, AssembledType DEF Room

\* The initial states have the invariant.
LEMMA InitInv ==
  ASSUME Init
  PROVE  Inv
  <1>1. room \in Room
    <2>1. PICK c \in Nat, loaded \in SUBSET Member : room = NewRoom(c, loaded)
      BY AssembledType DEF Init, InitialRooms
    <2> QED BY <2>1, NewRoomType
  <1> DEFINE p == Publish(NewSession, room)
             h == [p EXCEPT !.announced = room.cartridge]
  <1>2. p \in SessionType /\ Sound(p, {}) BY <1>1, NewSessionSound, PublishSound
  <1>3. game = h /\ acked = {} BY DEF Init
  <1> HIDE DEF p
  <1>4. h \in SessionType BY <1>1, <1>2 DEF Room, SessionType
  <1>5. /\ h.status = p.status /\ h.epoch = p.epoch /\ h.point = p.point
        /\ h.load = p.load /\ h.pending = p.pending /\ h.proposed = p.proposed
        /\ h.hasPlayed = p.hasPlayed /\ h.required = p.required
        /\ h.acks = p.acks /\ h.transfers = p.transfers
    BY <1>2 DEF SessionType
  <1> HIDE DEF h
  <1>6. Sound(h, {}) BY <1>2, <1>4, <1>5, GoingOnSound
  <1> QED BY <1>1, <1>3, <1>4, <1>6 DEF Inv, TypeOK

\* Every step preserves the invariant.
LEMMA NextInv ==
  ASSUME Inv, [Next]_vars
  PROVE  Inv'
BY RosterStepInv, SelectionStepInv, CommandStepInv, TransferStepInv, LoadStepInv, TimerStepInv DEF
   Next, Inv, TypeOK, vars

\* The invariant of GameSession and Rooms holds in every reachable state.
THEOREM InvHolds == Spec => []Inv
  <1>1. Init => Inv BY InitInv
  <1>2. Inv /\ [Next]_vars => Inv' BY NextInv
  <1> QED BY <1>1, <1>2, PTL DEF Spec

\* The session, the room and the accepted acknowledgments keep their shapes
\* through every handler and timer of Rooms and GameSession.
THEOREM TypeCorrect == Spec => []TypeOK
  <1>1. Inv => TypeOK BY DEF Inv
  <1> QED BY <1>1, InvHolds, PTL

\* Every countdown and every play rests on acknowledgments, accepted by handle()
\* for gameAck, of the very epoch and state that starts, one from each owner the
\* barrier named: whoever joined, left, reconnected or answered late in between.
THEOREM StartCorrect == Spec => []StartAcknowledged
  <1>1. Inv => StartAcknowledged BY DEF Inv, Sound, Acked, StartAcknowledged
  <1> QED BY <1>1, InvHolds, PTL

-----------------------------------------------------------------------------
(* The session and its room agree                                          *)

\* The session was told of the room as it is.
Told(g, r) ==
  /\ g.controllers = r.controllers /\ g.members = Views(r)
  /\ g.roomRevision = r.revision

\* A requested Start and a timeline show in both, and both know what is next.
Agreed(g, r) ==
  /\ g.epoch = 0 => ~g.startRequested
  /\ g.epoch # 0 => r.started
  /\ Planned(g, r) /\ Shelf(r)

\* The inductive invariant behind offers, loads and the assignment: the session
\* is coherent and was told of the room as it is, so that what an offer or a load
\* was made for is what the room has.
Core ==
  /\ room \in Room
  /\ Coherent(game, acked) /\ InForce(game)
  /\ Told(game, room) /\ Agreed(game, room)

\* What no step may do to a load, and to the assignment.
EndsWell ==
  game.load # None /\ game'.load = None => Unanimous(game.load) \/ Restored(game.load)
HandsWell ==
  game.epoch # 0 /\ game'.controllers # game.controllers =>
    \/ RosterDuringPlay
    \/ ProposedCommits
    \/ game'.epoch = 0 /\ room'.cartridge # room.cartridge
Well == Core' /\ EndsWell /\ HandsWell

\* The parts of the invariant.
LEMMA CoreParts ==
  ASSUME Core
  PROVE  /\ game \in SessionType /\ room \in Room /\ Sound(game, acked)
         /\ Fit(game, acked) /\ Coherent(game, acked) /\ OnTerms(game) /\ Prepared(game)
         /\ InForce(game) /\ Told(game, room) /\ Agreed(game, room)
  BY DEF Core, Coherent, Fit

\* publish() tells the session of the room.
LEMMA PublishCore ==
  ASSUME NEW A, acked' = A, NEW g, Coherent(g, A), NEW r \in Room,
         Handed(g, r.controllers), Agreed(g, r), Become(Publish(g, r), r)
  PROVE  /\ Core' /\ room' = r /\ game'.controllers = r.controllers
         /\ Returns(g, game') /\ game'.epoch = g.epoch
  <1> DEFINE h == Configure(g, Views(r), r.controllers, r.revision)
  <1>1. Views(r) \in [Member -> View] BY ViewsType
  <1>2. r.controllers \in Assignment /\ r.revision \in Nat BY DEF Room
  <1>3. Fit(g, A) /\ OnTerms(g) /\ Prepared(g) BY DEF Coherent
  <1>4. /\ Fit(h, A) /\ InForce(h) /\ Prepared(h)
        /\ h.controllers = r.controllers /\ h.members = Views(r)
        /\ h.roomRevision = r.revision
        /\ h.startRequested => g.startRequested
        /\ Returns(g, h) /\ SamePlan(g, h)
    BY <1>1, <1>2, <1>3, ConfigureFit
  <1>5. game' = h /\ room' = r BY PublishViews DEF Become
  <1> HIDE DEF h
  <1>6. h.epoch = g.epoch BY <1>3, <1>4, ReturnsEpoch DEF Fit
  <1>7. Planned(h, r) BY <1>4, PlannedSame DEF Agreed
  <1>8. Coherent(h, A) BY <1>4, InForceOnTerms DEF Coherent
  <1>9. Told(h, r) BY <1>4 DEF Told
  <1>10. Agreed(h, r) BY <1>4, <1>6, <1>7 DEF Agreed
  <1>11. Core' BY <1>4, <1>8, <1>9, <1>10, <1>5 DEF Core
  <1> QED BY <1>4, <1>5, <1>6, <1>11

\* A load that ended because every part of a step returns has ended well.
LEMMA ReturnsEndWell ==
  ASSUME NEW g, Returns(game, g), Returns(g, game'), room'.cartridge = room.cartridge
  PROVE  EndsWell
  <1> SUFFICES ASSUME game.load # None, game'.load = None
               PROVE  Restored(game.load)
    BY DEF EndsWell
  <1> QED BY DEF Restored, Returns

\* The assignment the session had is the room's.
LEMMA SameHands ==
  ASSUME Core, game'.controllers = room.controllers \/ game.epoch = 0
  PROVE  HandsWell
  BY CoreParts DEF Told, HandsWell

\* A step that publishes a room with the same assignment, or one without a
\* timeline, and that ends a load only by returning.
LEMMA PublishWell ==
  ASSUME Core, NEW g, Coherent(g, acked), NEW r \in Room, Handed(g, r.controllers),
         Agreed(g, r), Step(Publish(g, r), r),
         game.load # None => Returns(game, g) /\ r.cartridge = room.cartridge,
         r.controllers = room.controllers \/ game.epoch = 0
  PROVE  Well
BY PublishCore, ReturnsEndWell, SameHands DEF Step, EndsWell, Well

\* A method that is steady agrees with the room.
LEMMA SteadyAgreed ==
  ASSUME Core, NEW g, Fit(g, acked), Steady(game, g)
  PROVE  /\ Coherent(g, acked) /\ InForce(g) /\ Told(g, room) /\ Agreed(g, room)
         /\ g.epoch = game.epoch /\ Returns(game, g)
         /\ Handed(g, room.controllers)
  <1>1. Keeps(game, g) /\ Returns(game, g) /\ SamePlan(game, g) BY DEF Steady
  <1>2. Coherent(g, acked) /\ SameRoster(game, g) BY <1>1, CoreParts, KeepsCoherent
  <1>3. InForce(g) BY <1>1, CoreParts, SteadyInForce
  <1>4. Told(g, room) BY <1>2, CoreParts DEF Told, SameRoster
  <1>5. g.epoch = game.epoch BY <1>1, CoreParts, ReturnsEpoch DEF Fit
  <1>6. Planned(g, room) BY <1>1, CoreParts, PlannedSame DEF Agreed
  <1>7. Agreed(g, room) BY <1>2, <1>5, <1>6, CoreParts DEF Agreed, SameRoster
  <1>8. Handed(g, room.controllers) BY <1>4 DEF Told, Handed
  <1> QED BY <1>1, <1>2, <1>3, <1>4, <1>5, <1>7, <1>8

\* A session that agrees with a room agrees with a later one with the same game.
LEMMA AgreedLater ==
  ASSUME NEW g \in SessionType, NEW r \in Room, Agreed(g, r), NEW s \in Room,
         SameGame(r, s), Later(r, s)
  PROVE  Agreed(g, s)
BY PlannedLater, ShelfKept DEF Agreed, SameGame

\* A steady step that publishes a later roster of the same game.
LEMMA SteadyPublish ==
  ASSUME Core, NEW g, Fit(g, acked), Steady(game, g), NEW r \in Room,
         SameGame(room, r), Later(room, r), Step(Publish(g, r), r)
  PROVE  Well
BY SteadyAgreed, CoreParts, AgreedLater, PublishWell DEF SameGame, Fit

\* Noting that a game was played changes nothing else of the room.
LEMMA EstablishedSame ==
  ASSUME NEW g, NEW r \in Room
  PROVE  LET s == Established(g, r)
         IN  /\ s \in Room /\ SameGame(r, s) /\ Later(r, s) /\ Views(s) = Views(r)
             /\ s.revision = r.revision
  <1> DEFINE s == Established(g, r)
  <1>1. s \in Room BY EstablishedType
  <1>2. /\ s.slots = r.slots /\ s.connected = r.connected /\ s.loaded = r.loaded
        /\ s.links = r.links /\ s.controllers = r.controllers
        /\ s.cartridge = r.cartridge /\ s.started = r.started
        /\ s.offered = r.offered /\ s.candidate = r.candidate /\ s.revision = r.revision
    BY DEF Established, Room
  <1> HIDE DEF s
  <1>3. SameGame(r, s) /\ Later(r, s) BY <1>2 DEF SameGame, Later
  <1>4. Views(s) = Views(r) BY <1>2, SameViews
  <1> QED BY <1>1, <1>2, <1>3, <1>4 DEF s

\* A game command with the same assignment, or without a timeline, that ends a
\* load only by returning.
LEMMA AcceptWell ==
  ASSUME Core, NEW g, Coherent(g, acked), NEW r \in Room, Handed(g, r.controllers),
         Agreed(g, r), Accept(g, r),
         game.load # None => Returns(game, g) /\ r.cartridge = room.cartridge,
         r.controllers = room.controllers \/ game.epoch = 0
  PROVE  Well
  <1> DEFINE s == Established(g, r)
  <1>1. s \in Room /\ SameGame(r, s) /\ Later(r, s) BY EstablishedSame
  <1>2. Step(Publish(g, s), s) BY DEF Accept
  <1> HIDE DEF s
  <1>3. s.controllers = r.controllers /\ s.cartridge = r.cartridge BY <1>1 DEF SameGame
  <1>4. Agreed(g, s) BY <1>1, AgreedLater DEF Coherent, Fit
  <1>5. Handed(g, s.controllers) BY <1>3
  <1>6. game.load # None => Returns(game, g) /\ s.cartridge = room.cartridge BY <1>3
  <1>7. s.controllers = room.controllers \/ game.epoch = 0 BY <1>3
  <1> QED BY <1>1, <1>2, <1>4, <1>5, <1>6, <1>7, PublishWell

\* A steady game command.
LEMMA SteadyAccept ==
  ASSUME Core, NEW g, Fit(g, acked), Steady(game, g), Accept(g, room)
  PROVE  Well
BY SteadyAgreed, CoreParts, AcceptWell

\* A game command that leaves the roster and the assignment alone and finds or
\* leaves no load, or returns.
LEMMA RosterAccept ==
  ASSUME Core, NEW g, Coherent(g, acked), SameRoster(game, g),
         game.load # None => Returns(game, g), Agreed(g, room), Accept(g, room)
  PROVE  Well
BY CoreParts, AcceptWell DEF Told, Handed, SameRoster

\* A step that publishes nothing.
LEMMA SilentWell ==
  ASSUME Core, NEW g, Coherent(g, acked), InForce(g), NEW r \in Room, Told(g, r),
         Agreed(g, r), Step(g, r),
         game.load # None => Returns(game, g) /\ r.cartridge = room.cartridge,
         r.controllers = room.controllers
  PROVE  Well
BY SteadyAgain, ReturnsEndWell, SameHands DEF Step, Become, Core, EndsWell, Steady, Told, Well

\* A steady step that publishes nothing.
LEMMA SteadySilent ==
  ASSUME Core, NEW g, Fit(g, acked), Steady(game, g), Step(g, room)
  PROVE  Well
BY SteadyAgreed, CoreParts, SilentWell

\* A step without a timeline that publishes a new assignment.
LEMMA AnewWell ==
  ASSUME Core, NEW g, Coherent(g, acked), game.epoch = 0, g.epoch = 0,
         Agreed(g, room), game.load # None => Returns(game, g), NEW r \in Room,
         Shelf(r), Later(room, r), r.controllers.revision # g.controllers.revision,
         game.load # None => r.cartridge = room.cartridge, Step(Publish(g, r), r)
  PROVE  Well
BY PublishWell DEF Coherent, Fit, Sound, Anchored, Handed, Agreed, Planned

-----------------------------------------------------------------------------
(* Steps of the roster *)

\* Two methods that return, one after the other.
LEMMA ReturnsTwice ==
  ASSUME NEW g, NEW h, NEW k, Returns(g, h), Returns(h, k)
  PROVE  Returns(g, k)
  BY DEF Returns

\* publish() of a room whose assignment the session may take over.
LEMMA PublishedFit ==
  ASSUME NEW A, NEW g, Coherent(g, A), NEW r \in Room, Handed(g, r.controllers)
  PROVE  LET h == Publish(g, r)
         IN  /\ Fit(h, A) /\ Coherent(h, A) /\ InForce(h) /\ Told(h, r)
             /\ Returns(g, h) /\ SamePlan(g, h) /\ h.epoch = g.epoch
             /\ h.startRequested => g.startRequested
  <1> DEFINE h == Configure(g, Views(r), r.controllers, r.revision)
  <1>1. Views(r) \in [Member -> View] BY ViewsType
  <1>2. r.controllers \in Assignment /\ r.revision \in Nat BY DEF Room
  <1>3. Fit(g, A) /\ OnTerms(g) /\ Prepared(g) BY DEF Coherent
  <1>4. /\ Fit(h, A) /\ InForce(h) /\ Prepared(h)
        /\ h.controllers = r.controllers /\ h.members = Views(r)
        /\ h.roomRevision = r.revision
        /\ h.startRequested => g.startRequested
        /\ Returns(g, h) /\ SamePlan(g, h)
    BY <1>1, <1>2, <1>3, ConfigureFit
  <1>5. Publish(g, r) = h BY PublishViews
  <1> HIDE DEF h
  <1>6. h.epoch = g.epoch BY <1>3, <1>4, ReturnsEpoch DEF Fit
  <1>7. Coherent(h, A) BY <1>4, InForceOnTerms DEF Coherent
  <1>8. Told(h, r) BY <1>4 DEF Told
  <1> QED BY <1>4, <1>5, <1>6, <1>7, <1>8

\* publishRosterChange() of a later roster: owners change at once only while the
\* game plays or before there is a timeline, and else by a transaction that
\* proposes exactly the owners of that roster.
LEMMA RosterChangeWell ==
  ASSUME Core, NEW r \in Room, SameGame(room, r), r.revision > room.revision,
         RosterChange(game, r)
  PROVE  Well
  <1> DEFINE reassigned == [r EXCEPT !.controllers = Assigned(r)]
             received == Publish(game, r)
             published == AbortRoles(received)
             change == RoleChange(r, {})
             requested == RequestRoles(published, change, ControllerOwners(r))
  <1>1. Later(room, r) BY DEF Later
  <1>2. /\ r.controllers = room.controllers /\ r.cartridge = room.cartridge
        /\ r.started = room.started
    BY DEF SameGame
  <1>3. Handed(game, r.controllers) BY <1>2, CoreParts DEF Told, Handed
  <1>4. Agreed(game, r) BY <1>1, CoreParts, AgreedLater
  <1>5. /\ reassigned \in Room /\ reassigned.slots = r.slots
        /\ reassigned.revision = r.revision /\ reassigned.started = r.started
        /\ reassigned.cartridge = r.cartridge /\ reassigned.offered = r.offered
        /\ reassigned.candidate = r.candidate
        /\ reassigned.controllers.revision = r.controllers.revision + 1
        /\ reassigned.controllers.owners = ControllerOwners(reassigned)
    BY ReassignedChanges
  <1>6. /\ Fit(received, acked) /\ Coherent(received, acked) /\ InForce(received)
        /\ Told(received, r) /\ Returns(game, received) /\ SamePlan(game, received)
        /\ received.epoch = game.epoch
        /\ received.startRequested => game.startRequested
    BY <1>3, CoreParts, PublishedFit
  <1>7. \/ /\ game.status = "playing" /\ game.pending = None
           /\ Step(Publish(game, reassigned), reassigned)
        \/ CanRequestRoles(published) /\ Step(Publish(requested, r), r)
        \/ Step(published, r)
        \/ Step(Publish(game, r), r)
        \/ /\ game.epoch = 0 \/ ~r.started
           /\ Step(Publish(game, reassigned), reassigned)
    BY DEF RosterChange
  <1> HIDE DEF reassigned, received
  <1>8. /\ Fit(published, acked) /\ Steady(received, published) BY <1>6, AbortRolesFit
  <1> HIDE DEF published
  <1>9. /\ Coherent(published, acked) /\ SameRoster(received, published)
        /\ InForce(published) /\ Returns(game, published) /\ SamePlan(received, published)
    BY <1>8, <1>6, KeepsCoherent, SteadyInForce, ReturnsTwice DEF Steady
  <1>10. published.epoch = game.epoch BY <1>8, <1>9, CoreParts, ReturnsEpoch DEF Fit
  <1>11. Told(published, r) BY <1>6, <1>9 DEF Told, SameRoster
  <1>12. Agreed(published, r) BY <1>4, <1>6, PlannedSame, <1>9, <1>10 DEF Agreed, SameRoster
  <1>13. CASE /\ game.status = "playing" /\ game.pending = None
              /\ Step(Publish(game, reassigned), reassigned)
    <2>1. game.load = None /\ game.epoch # 0
      BY <1>13, CoreParts DEF Fit, LoadKept, Resting, Sound, Anchored
    <2>2. Handed(game, reassigned.controllers) BY <1>13, <2>1 DEF Handed
    <2>4. Planned(game, reassigned) BY <1>13 DEF Planned
    <2>5. Agreed(game, reassigned) BY <1>4, <1>5, <2>4 DEF Agreed, Later, Shelf
    <2>7. Core' /\ room' = reassigned BY <1>5, <2>2, <2>5, <1>13, CoreParts, PublishCore DEF Step
    <2>8. EndsWell BY <2>1 DEF EndsWell
    <2>9. HandsWell BY <1>5, <2>7, CoreParts, NextRevision, <1>13 DEF HandsWell, RosterDuringPlay
    <2> QED BY <2>7, <2>8, <2>9 DEF Well
  <1>14. CASE CanRequestRoles(published) /\ Step(Publish(requested, r), r)
    <2>1. change \in Pending BY RoleChangeType
    <2>2. change.revision = r.revision /\ change.roles = {} BY DEF RoleChange
    <2> HIDE DEF change
    <2>3. /\ Fit(requested, acked) /\ Keeps(published, requested)
          /\ Returns(published, requested)
          /\ requested.pending = change /\ requested.proposed = ControllerOwners(r)
      BY <1>8, <1>14, <2>1, ControllerOwnersType, RequestRolesFit
    <2> HIDE DEF requested
    <2>4. Coherent(requested, acked) /\ SameRoster(published, requested)
      BY <1>9, <2>3, KeepsCoherent
    <2>5. Returns(game, requested) BY <1>9, <2>3, ReturnsTwice
    <2>6. requested.epoch = published.epoch BY <1>8, <2>3, ReturnsEpoch DEF Fit
    <2>7. Planned(requested, r) BY RolesHeld, <2>2, <2>3, NextRevision DEF Planned
    <2>8. Agreed(requested, r) BY <1>12, <2>4, <2>6, <2>7 DEF Agreed, SameRoster
    <2>9. Handed(requested, r.controllers) BY <1>11, <2>4 DEF Told, SameRoster, Handed
    <2> QED BY <1>2, <1>14, <2>4, <2>5, <2>8, <2>9, PublishWell
  <1>15. CASE Step(published, r) BY <1>2, <1>9, <1>11, <1>12, <1>15, SilentWell
  <1>16. CASE Step(Publish(game, r), r)
    BY SteadyAgain, <1>2, <1>3, <1>4, <1>16, CoreParts, PublishWell DEF Steady
  <1>17. CASE /\ game.epoch = 0 \/ ~r.started
              /\ Step(Publish(game, reassigned), reassigned)
    BY <1>2, <1>17, CoreParts, <1>4, <1>5, SteadyAgain, AnewWell DEF Agreed, Shelf, Later, Room,
       Assignment, Told, Steady
  <1> QED BY <1>7, <1>13, <1>14, <1>15, <1>16, <1>17

\* A step that leaves the session alone and publishes a later roster.
LEMMA QuietPublish ==
  ASSUME Core, NEW r \in Room, SameGame(room, r), Later(room, r), Step(Publish(game, r), r)
  PROVE  Well
BY SteadyAgain, CoreParts, SteadyPublish

\* A step that publishes the owners a changed roster names, without a timeline.
LEMMA ReassignWell ==
  ASSUME Core, game.epoch = 0, NEW r \in Room, Shelf(r), Later(room, r),
         r.controllers.revision = room.controllers.revision + 1,
         r.cartridge = room.cartridge, Step(Publish(game, r), r)
  PROVE  Well
BY CoreParts, SteadyAgain, AnewWell DEF Room, Assignment, Told, Steady

\* A join.
LEMMA JoinWell ==
  ASSUME Core, NEW m \in Member, Join(m)
  PROVE  Well
  <1> DEFINE free == {i \in Slot : FreeSlot(room, i)}
             slot == CHOOSE i \in free : \A j \in free : i <= j
             slots == [room.slots EXCEPT ![slot].member = m]
             connected == room.connected \cup {m}
             joined == [room EXCEPT !.slots = slots, !.connected = connected,
                                    !.revision = room.revision + 1]
             placed == [joined EXCEPT !.controllers =
                          IF room.started THEN @ ELSE Assigned(joined)]
  <1>1. slots \in [Slot -> SlotState]
    <2>1. m \in Owner BY DEF Owner
    <2> HIDE DEF slot
    <2> QED BY <2>1, CoreParts, SeatedMemberType
  <1>2. connected \in SUBSET Member BY CoreParts, RoomSets
  <1> HIDE DEF slots, connected
  <1>3. joined \in Room BY CoreParts, NextRevision, <1>1, <1>2 DEF Room
  <1>4. Step(Publish(game, placed), placed) BY DEF Join, slots, connected
  <1>5. joined.revision > room.revision /\ SameGame(room, joined)
    BY CoreParts, NextRevision DEF Room, SameGame
  <1> HIDE DEF joined
  <1>6. CASE room.started BY <1>3, <1>6, <1>5, <1>4, QuietPublish DEF Room, Later
  <1>7. CASE ~room.started
    <2>1. placed = [joined EXCEPT !.controllers = Assigned(joined)] BY <1>7
    <2> HIDE DEF placed
    <2>2. /\ placed \in Room /\ placed.revision = joined.revision
          /\ placed.cartridge = joined.cartridge /\ placed.offered = joined.offered
          /\ placed.candidate = joined.candidate
          /\ placed.controllers.revision = joined.controllers.revision + 1
      BY <1>3, <2>1, ReassignedChanges
    <2>3. game.epoch = 0 BY <1>7, CoreParts DEF Agreed
    <2>4. Shelf(placed) BY <1>5, CoreParts, ShelfKept, <2>2 DEF Agreed, Shelf
    <2>5. Later(room, placed) BY <1>5, <2>2 DEF Later
    <2>6. /\ placed.controllers.revision = room.controllers.revision + 1
          /\ placed.cartridge = room.cartridge
      BY <1>5, <2>2 DEF SameGame
    <2> QED BY <1>4, <2>2, <2>3, <2>4, <2>5, <2>6, ReassignWell
  <1> QED BY <1>6, <1>7

\* A departure.
LEMMA ReleaseWell ==
  ASSUME Core, NEW m \in Member, Release(m)
  PROVE  Well
  <1> DEFINE r == Compacted(Vacated(room, m))
  <1>1. r \in Room /\ SameGame(room, r) /\ r.revision > room.revision BY CoreParts, DepartureChanges
  <1>2. RosterChange(game, r) BY DEF Release
  <1> HIDE DEF r
  <1> QED BY <1>1, <1>2, RosterChangeWell

\* A socket that opens or closes.
LEMMA ConnectionWell ==
  ASSUME Core, NEW m \in Member, Attach(m) \/ Detach(m)
  PROVE  Well
  <1> DEFINE r(connected) == [room EXCEPT !.connected = connected, !.links = Unlinked(room, m)]
  <1>1. Unlinked(room, m) \in SUBSET Link BY CoreParts, UnlinkedType
  <1>3. \A connected \in SUBSET Member : r(connected) \in Room BY <1>1, CoreParts, SocketType
  <1>4. PICK connected \in SUBSET Member : Step(Publish(game, r(connected)), r(connected))
    BY CoreParts, RoomSets DEF Attach, Detach
  <1>5. SameGame(room, r(connected)) /\ Later(room, r(connected))
    BY CoreParts DEF Room, SameGame, Later
  <1> HIDE DEF r
  <1> QED BY <1>3, <1>4, <1>5, QuietPublish

\* A link that comes up or goes down.
LEMMA LinkWell ==
  ASSUME Core, NEW m \in Member, NEW n \in Member, LinkUp(m, n) \/ LinkDown(m, n)
  PROVE  Well
  <1> DEFINE r(links) == [room EXCEPT !.links = links]
  <1>2. \A links \in SUBSET Link : r(links) \in Room BY CoreParts, LinksType
  <1>3. PICK links \in SUBSET Link : Step(Publish(game, r(links)), r(links))
    BY CoreParts, RoomSets DEF LinkUp, LinkDown, Link
  <1>4. SameGame(room, r(links)) /\ Later(room, r(links)) BY CoreParts DEF Room, SameGame, Later
  <1> HIDE DEF r
  <1> QED BY <1>2, <1>3, <1>4, QuietPublish

\* Other files keep the game and the seats.
LEMMA LoadedRoomLater ==
  ASSUME NEW r \in Room, NEW loaded
  PROVE  SameGame(r, [r EXCEPT !.loaded = loaded]) /\ Later(r, [r EXCEPT !.loaded = loaded])
  BY DEF Room, SameGame, Later

\* A reported file.
LEMMA AcquireWell ==
  ASSUME Core, NEW m \in Member, NEW loaded \in BOOLEAN, Acquire(m, loaded)
  PROVE  Well
  <1> DEFINE files == IF loaded THEN room.loaded \cup {m} ELSE room.loaded \ {m}
             r == [room EXCEPT !.loaded = files]
  <1>1. files \in SUBSET Member BY CoreParts, RoomSets
  <1>2. r \in Room BY <1>1, CoreParts, LoadedRoomType
  <1>3. Step(Publish(game, r), r) BY DEF Acquire
  <1>4. SameGame(room, r) /\ Later(room, r) BY CoreParts, LoadedRoomLater
  <1> HIDE DEF r
  <1> QED BY <1>2, <1>3, <1>4, QuietPublish

\* A changed file, which stops an owner.
LEMMA ChangeFileWell ==
  ASSUME Core, NEW m \in Member, ChangeFile(m)
  PROVE  Well
  <1> DEFINE r(loaded) == [room EXCEPT !.loaded = loaded]
             g == IF \E s \in Seat : room.controllers.owners[s] = m
                    THEN Stop(game, "paused") ELSE game
  <1>1. PICK loaded \in SUBSET Member : Step(Publish(g, r(loaded)), r(loaded))
    BY CoreParts, RoomSets DEF ChangeFile
  <1>2. r(loaded) \in Room BY <1>1, CoreParts, LoadedRoomType
  <1>3. Fit(g, acked) /\ Steady(game, g) BY CoreParts, StopFit, SteadyAgain
  <1>4. SameGame(room, r(loaded)) /\ Later(room, r(loaded)) BY CoreParts, LoadedRoomLater
  <1> HIDE DEF r, g
  <1> QED BY <1>1, <1>2, <1>3, <1>4, SteadyPublish

\* Other slots under the next revision keep the game.
LEMMA SlotsRevisedLater ==
  ASSUME NEW r \in Room, NEW slots
  PROVE  LET s == [r EXCEPT !.slots = slots, !.revision = r.revision + 1]
         IN  SameGame(r, s) /\ Later(r, s) /\ s.revision > r.revision
  <1> DEFINE s == [r EXCEPT !.slots = slots, !.revision = r.revision + 1]
  <1>1. SameGame(r, s) /\ s.revision = r.revision + 1 BY DEF Room, SameGame
  <1> HIDE DEF s
  <1> QED BY <1>1, NextRevision DEF Later, s

\* Opening and closing a slot.
LEMMA SlotAvailabilityWell ==
  ASSUME Core, NEW i \in Slot, SlotAvailability(i)
  PROVE  Well
  <1> DEFINE slots == [room.slots EXCEPT ![i].open = ~@]
             r == [room EXCEPT !.slots = slots, !.revision = room.revision + 1]
  <1>1. slots \in [Slot -> SlotState] BY CoreParts, SlotType DEF SlotState, Room
  <1>2. Step(Publish(game, r), r) BY DEF SlotAvailability
  <1> HIDE DEF slots
  <1>3. r \in Room BY CoreParts, NextRevision, <1>1, SlotsRevisedType
  <1>4. SameGame(room, r) /\ Later(room, r) BY CoreParts, SlotsRevisedLater
  <1> HIDE DEF r
  <1> QED BY <1>2, <1>3, <1>4, QuietPublish

\* Exchanging two slots.
LEMMA SlotMoveWell ==
  ASSUME Core, NEW i \in Slot, NEW j \in Slot, SlotMove(i, j)
  PROVE  Well
  <1> DEFINE moved == [room.slots EXCEPT ![i].member = room.slots[j].member]
             slots == [moved EXCEPT ![j].member = room.slots[i].member]
             r == [room EXCEPT !.slots = slots, !.revision = room.revision + 1]
  <1>1. RosterChange(game, r) BY CoreParts DEF SlotMove, Room
  <1>2. slots \in [Slot -> SlotState]
    <2>1. room.slots[i].member \in Owner /\ room.slots[j].member \in Owner BY CoreParts, SlotType
    <2>2. moved \in [Slot -> SlotState] BY <2>1, CoreParts, SeatedMemberType
    <2> HIDE DEF moved
    <2> QED BY <2>2, <2>1, SlotMemberType
  <1> HIDE DEF slots
  <1>3. r \in Room BY CoreParts, NextRevision, <1>2, SlotsRevisedType
  <1>4. SameGame(room, r) /\ r.revision > room.revision BY CoreParts, SlotsRevisedLater
  <1> HIDE DEF r
  <1> QED BY <1>1, <1>3, <1>4, RosterChangeWell

\* The roles two slots exchange are role changes.
LEMMA SwappedRoles ==
  ASSUME Core, NEW i \in Slot, NEW role \in Role
  PROVE  RoleSwap(i, role) \in SUBSET Roles
BY CoreParts, SlotType DEF Slot, RoleSwap, Roles

\* A role transaction that proposes what the room's roster names with its roles.
LEMMA RequestAgreed ==
  ASSUME Core, CanRequestRoles(game), NEW roles \in SUBSET Roles,
         NEW owners \in [Seat -> Owner], owners = ControllerOwners(WithRoles(room, roles))
  PROVE  LET g == RequestRoles(game, RoleChange(room, roles), owners)
         IN  /\ Coherent(g, acked) /\ SameRoster(game, g) /\ Agreed(g, room)
             /\ game.load = None
  <1> DEFINE pending == RoleChange(room, roles)
             g == RequestRoles(game, pending, owners)
  <1>1. pending \in Pending BY CoreParts, RoleChangeType
  <1>2. pending.revision = room.revision /\ pending.roles = roles BY DEF RoleChange
  <1> HIDE DEF pending
  <1>3. /\ Fit(g, acked) /\ Keeps(game, g) /\ Returns(game, g)
        /\ g.pending = pending /\ g.proposed = owners
    BY <1>1, CoreParts, RequestRolesFit
  <1> HIDE DEF g
  <1>4. Coherent(g, acked) /\ SameRoster(game, g) BY <1>3, CoreParts, KeepsCoherent
  <1>5. g.epoch = game.epoch BY <1>3, CoreParts, ReturnsEpoch DEF Fit
  <1>6. Planned(g, room) BY <1>2, <1>3, CoreParts, NextRevision DEF Planned
  <1>7. Agreed(g, room) BY <1>4, <1>5, <1>6, CoreParts DEF Agreed, SameRoster
  <1> QED BY <1>4, <1>7 DEF CanRequestRoles, g, pending

\* A changed role, direct or by a transaction.
LEMMA SlotRoleWell ==
  ASSUME Core, NEW i \in Slot, NEW role \in Role, SlotRole(i, role)
  PROVE  Well
  <1> DEFINE roles == RoleSwap(i, role)
             owners == ControllerOwners(WithRoles(room, roles))
             requested == RequestRoles(game, RoleChange(room, roles), owners)
             r == ApplyRoles(room, roles)
  <1>1. \/ CanRequestRoles(game) /\ Step(Publish(requested, room), room)
        \/ ~room.started /\ Step(Publish(game, r), r)
    BY DEF SlotRole
  <1>2. roles \in SUBSET Roles BY SwappedRoles
  <1> HIDE DEF roles
  <1>3. CASE CanRequestRoles(game) /\ Step(Publish(requested, room), room)
    <2>1. owners \in [Seat -> Owner] BY <1>2, CoreParts, WithRolesType, ControllerOwnersType
    <2>2. /\ Coherent(requested, acked) /\ SameRoster(game, requested)
          /\ Agreed(requested, room) /\ game.load = None
      <3> DEFINE change == RoleChange(room, roles)
      <3>1. owners = ControllerOwners(WithRoles(room, roles)) OBVIOUS
      <3> HIDE DEF owners
      <3> QED BY <1>2, <1>3, <2>1, <3>1, RequestAgreed
    <2> HIDE DEF requested
    <2>3. Handed(requested, room.controllers) BY <2>2, CoreParts DEF Told, SameRoster, Handed
    <2> QED BY <1>3, <2>2, <2>3, CoreParts, PublishWell
  <1>4. CASE ~room.started /\ Step(Publish(game, r), r)
    <2>1. r \in Room BY <1>2, CoreParts, ApplyRolesType
    <2>2. /\ Later(room, r) /\ r.cartridge = room.cartridge /\ r.offered = room.offered
          /\ r.candidate = room.candidate
          /\ r.controllers.revision = room.controllers.revision + 1
      BY <1>2, CoreParts, ApplyRolesChanges
    <2> HIDE DEF r
    <2>3. Shelf(r) BY <2>2, CoreParts DEF Agreed, Shelf
    <2>4. game.epoch = 0 BY <1>4, CoreParts DEF Agreed
    <2> QED BY <1>4, <2>1, <2>2, <2>3, <2>4, ReassignWell
  <1> QED BY <1>1, <1>3, <1>4

\* Every step of the roster.
LEMMA RosterStepWell ==
  ASSUME Core, RosterStep
  PROVE  Well
  BY JoinWell, ReleaseWell, ConnectionWell, LinkWell, AcquireWell, ChangeFileWell,
     SlotAvailabilityWell, SlotMoveWell, SlotRoleWell DEF RosterStep

-----------------------------------------------------------------------------
(* Choosing a cartridge and starting                                       *)

\* A sound session without a load and without offers is coherent.
LEMMA EmptyCoherent ==
  ASSUME NEW A, NEW g \in SessionType, Sound(g, A), g.load = None, g.offers = NoOffers
  PROVE  Coherent(g, A)
BY DEF OffersFit, NoOffers, LoadKept, Staged, OnTerms, Prepared, Standing, Coherent, Fit

\* Selecting a cartridge before play.
LEMMA SelectInitialWell ==
  ASSUME Core, NEW game1 \in Game, NEW r \in Room, SelectInitial(game1, r),
         r.controllers = room.controllers, r.revision = room.revision,
         game1.cartridge <= r.offered
  PROVE  Well
  <1> DEFINE chosen == SelectGame(r, game1, FALSE)
             reset == [game EXCEPT !.offers = NoOffers, !.startRequested = FALSE,
                                   !.status = "waiting", !.announced = game1.cartridge]
  <1>1. /\ Step(Publish(reset, chosen), chosen)
        /\ game.load = None /\ game.epoch = 0
    BY DEF SelectInitial, ResetForSelection, CanReset
  <1>2. game \in SessionType /\ Sound(game, acked) BY CoreParts
  <1>3. reset \in SessionType BY <1>2, ResetType DEF Game
  <1>4. /\ reset.status = "waiting" /\ reset.epoch = game.epoch /\ reset.point = game.point
        /\ reset.load = game.load /\ reset.pending = game.pending
        /\ reset.proposed = game.proposed /\ reset.hasPlayed = game.hasPlayed
        /\ reset.offers = NoOffers /\ reset.controllers = game.controllers
        /\ reset.startRequested = FALSE
    BY <1>2 DEF SessionType
  <1>5. /\ chosen \in Room /\ Shelf(chosen) /\ chosen.revision > r.revision
        /\ chosen.controllers.revision = r.controllers.revision + 1
    BY SelectGameChanges
  <1> HIDE DEF chosen, reset
  <1>6. Sound(reset, acked) BY <1>2, <1>3, <1>4, RestingSound
  <1>7. Coherent(reset, acked) BY <1>1, <1>3, <1>4, <1>6, EmptyCoherent
  <1>8. Agreed(reset, room) BY <1>1, <1>2, <1>4, CoreParts DEF Agreed, Sound, Anchored, Planned
  <1>9. chosen.controllers.revision # reset.controllers.revision
    BY CoreParts, <1>4, <1>5 DEF Room, Assignment, Told
  <1>10. Later(room, chosen) BY <1>5 DEF Later
  <1> QED BY <1>1, <1>4, <1>5, <1>7, <1>8, <1>9, <1>10, AnewWell

\* A steady step that only changes what is chosen next.
LEMMA SteadyChoice ==
  ASSUME Core, NEW g, Fit(g, acked), Steady(game, g), NEW r \in Room, Shelf(r),
         r.controllers = room.controllers, r.revision = room.revision,
         r.slots = room.slots, r.cartridge = room.cartridge, r.started = room.started,
         Views(r) = Views(room), Step(g, r)
  PROVE  Well
BY SteadyAgreed, CoreParts, PlannedLater, SilentWell DEF Told, Later, Agreed, Fit

\* gameSelect: another cartridge at once, or the candidate of a replacement.
LEMMA BeginSelectionWell ==
  ASSUME Core, NEW chosen \in NextGames, BeginSelection(chosen)
  PROVE  Well
  <1> DEFINE r == [room EXCEPT !.offered = chosen.cartridge, !.candidate = None]
             asked == [r EXCEPT !.candidate = chosen]
  <1>1. /\ chosen \in Game /\ chosen.cartridge \in Nat
        /\ chosen.cartridge = room.offered + 1
    BY DEF NextGames, Game
  <1>2. r \in Room BY <1>1, CoreParts, OfferedType
  <1>3. SelectInitial(chosen, r) \/ Step(game, asked) BY DEF BeginSelection
  <1>4. /\ r.slots = room.slots /\ r.connected = room.connected
        /\ r.loaded = room.loaded /\ r.links = room.links
        /\ r.controllers = room.controllers /\ r.cartridge = room.cartridge
        /\ r.revision = room.revision /\ r.started = room.started
        /\ r.offered = chosen.cartridge
    BY CoreParts DEF Room
  <1> HIDE DEF r
  <1>5. asked \in Room BY <1>1, <1>2, CandidateType
  <1>6. /\ asked.slots = r.slots /\ asked.connected = r.connected
        /\ asked.loaded = r.loaded /\ asked.links = r.links
        /\ asked.controllers = r.controllers /\ asked.cartridge = r.cartridge
        /\ asked.revision = r.revision /\ asked.started = r.started
        /\ asked.offered = r.offered /\ asked.candidate = chosen
    BY <1>2 DEF Room
  <1> HIDE DEF asked
  <1>7. CASE SelectInitial(chosen, r) BY <1>1, <1>4, <1>2, <1>7, SelectInitialWell
  <1>8. CASE Step(game, asked)
    BY SteadyAgain, <1>4, <1>6, SameViews, CoreParts, <1>1, <1>5, <1>8, SteadyChoice DEF Room,
       Agreed, Shelf
  <1> QED BY <1>3, <1>7, <1>8

\* confirmGameSelection.
LEMMA ConfirmSelectionWell ==
  ASSUME Core, ConfirmSelection
  PROVE  Well
BY CoreParts, SelectInitialWell DEF ConfirmSelection, Room, Agreed, Shelf

\* A candidate that is cancelled or expires.
LEMMA DropSelectionWell ==
  ASSUME Core, CancelSelection \/ ExpireSelection
  PROVE  Well
  <1> DEFINE g == IF game.load # None /\ game.load.replacement = room.candidate
                    THEN Stop(game, "paused") ELSE game
             r == [room EXCEPT !.candidate = None]
  <1>1. Step(g, r) \/ Step(game, r) BY DEF CancelSelection, ExpireSelection
  <1>2. r \in Room BY CoreParts, CandidateType
  <1>3. /\ r.slots = room.slots /\ r.connected = room.connected
        /\ r.loaded = room.loaded /\ r.links = room.links
        /\ r.controllers = room.controllers /\ r.cartridge = room.cartridge
        /\ r.revision = room.revision /\ r.started = room.started
        /\ r.offered = room.offered /\ r.candidate = None
    BY CoreParts DEF Room
  <1> HIDE DEF r
  <1>4. Views(r) = Views(room) BY <1>3, SameViews
  <1>5. Shelf(r) BY <1>3, CoreParts DEF Agreed, Shelf
  <1>6. Fit(g, acked) /\ Steady(game, g) BY CoreParts, StopFit, SteadyAgain
  <1>7. Fit(game, acked) /\ Steady(game, game) BY CoreParts, SteadyAgain
  <1> HIDE DEF g
  <1> QED BY <1>1, <1>2, <1>3, <1>4, <1>5, <1>6, <1>7, SteadyChoice

\* Preparing the host.
LEMMA PrepareHostWell ==
  ASSUME Core, PrepareHost
  PROVE  Well
  <1> DEFINE r == [room EXCEPT !.loaded = @ \cup {Host}]
  <1>1. r \in Room BY CoreParts, HostLoadedType
  <1>2. Step(Publish(game, r), r) BY DEF PrepareHost
  <1>3. SameGame(room, r) /\ Later(room, r) BY CoreParts, LoadedRoomLater
  <1> HIDE DEF r
  <1> QED BY <1>1, <1>2, <1>3, QuietPublish

\* A load survives the preparation of the host: the load needed a prepared host
\* already, or is rolling back.
LEMMA LoadOutlivesPreparation ==
  ASSUME Core, game.load # None
  PROVE  Publish(game, [room EXCEPT !.loaded = @ \cup {Host}]).load # None
  <1> DEFINE r == [room EXCEPT !.loaded = @ \cup {Host}]
  <1>1. r \in Room BY CoreParts, HostLoadedType
  <1>3. Views(r) = game.members \/ game.load.phase = "rolling_back"
    <2> SUFFICES ASSUME game.load.phase # "rolling_back"
                 PROVE  Views(r) = game.members
      OBVIOUS
    <2>1. Host \in LoadMembers(game.load) BY CoreParts DEF Fit, LoadKept, LoadMembers
    <2>2. game.members[Host].loaded BY <2>1, CoreParts DEF InForce, Standing, Available
    <2>3. ViewOf(room, Host).loaded BY <2>2, CoreParts, SessionAssumption DEF Told, Views
    <2>4. Host \in room.loaded BY <2>3 DEF ViewOf, Absent
    <2>5. r = room BY <2>4, CoreParts DEF Room
    <2> QED BY <2>5, CoreParts DEF Told
  <1>4. Publish(game, r) = Configure(game, Views(r), game.controllers, game.roomRevision)
    BY CoreParts, PublishViews DEF Room, Told
  <1>5. Views(r) \in [Member -> View] BY <1>1, ViewsType
  <1> HIDE DEF r
  <1>6. Publish(game, r).load # None BY <1>3, <1>4, <1>5, CoreParts, ConfigureAgain
  <1> QED BY <1>6 DEF r

\* A requested Start keeps a session coherent.
LEMMA RequestedCoherent ==
  ASSUME NEW A, NEW g, Coherent(g, A), g.epoch = 0
  PROVE  LET h == [g EXCEPT !.startRequested = TRUE]
         IN  /\ Coherent(h, A) /\ h.status \notin Running
             /\ h.controllers = g.controllers /\ h.members = g.members
             /\ h.roomRevision = g.roomRevision /\ h.offers = g.offers
             /\ h.load = g.load /\ h.pending = g.pending /\ h.epoch = g.epoch
             /\ h.hasPlayed = g.hasPlayed /\ h.startRequested = TRUE
  <1> DEFINE h == [g EXCEPT !.startRequested = TRUE]
  <1>1. g \in SessionType /\ Sound(g, A) BY DEF Coherent, Fit
  <1>2. h \in SessionType /\ Sound(h, A) /\ h.status \notin Running BY <1>1, RequestedSound
  <1>3. /\ h.controllers = g.controllers /\ h.members = g.members
        /\ h.roomRevision = g.roomRevision /\ h.offers = g.offers
        /\ h.load = g.load /\ h.pending = g.pending /\ h.epoch = g.epoch
        /\ h.hasPlayed = g.hasPlayed /\ h.startRequested = TRUE
        /\ h.status = g.status /\ h.transfers = g.transfers /\ h.point = g.point
    BY <1>1 DEF SessionType
  <1> HIDE DEF h
  <1>5. OnTerms(h) /\ Prepared(h) BY <1>3 DEF Coherent, OnTerms, Prepared, Standing, Owners
  <1> QED BY <1>2, <1>3, <1>5 DEF Coherent, Fit, h, OffersFit, LoadKept, Staged

\* A Start that is ready is answered: it begins a timeline or is called off.
LEMMA StartAnswered ==
  ASSUME NEW A, NEW g, Coherent(g, A), g.epoch = 0, g.load = None, InitialReady(g)
  PROVE  LET h == PrepareIfReady([g EXCEPT !.startRequested = TRUE])
         IN  /\ Coherent(h, A) /\ h.controllers = g.controllers /\ h.pending = None
             /\ h.epoch = 0 => ~h.startRequested
  <1> DEFINE k == [g EXCEPT !.startRequested = TRUE]
             h == PrepareIfReady(k)
  <1>1. /\ Coherent(k, A) /\ k.status \notin Running
        /\ k.controllers = g.controllers /\ k.members = g.members
        /\ k.roomRevision = g.roomRevision /\ k.offers = g.offers
        /\ k.load = g.load /\ k.pending = g.pending /\ k.epoch = g.epoch
        /\ k.hasPlayed = g.hasPlayed /\ k.startRequested = TRUE
    BY RequestedCoherent
  <1> HIDE DEF k
  <1>2. Fit(k, A) BY <1>1 DEF Coherent
  <1>3. Fit(h, A) /\ Keeps(k, h) /\ SamePlan(k, h) BY <1>1, <1>2, PrepareIfReadyFit
  <1>4. Coherent(h, A) /\ SameRoster(k, h) BY <1>1, <1>3, KeepsCoherent
  <1>5. k.pending = None /\ ~k.hasPlayed BY <1>1, <1>2 DEF Fit, Sound, Anchored
  <1>6. h.pending = None BY <1>3, <1>5 DEF SamePlan
  <1>7. InitialReady(k) BY <1>1 DEF InitialReady, Owners, Available
  <1>8. OwnersOffered(k) BY <1>7 DEF InitialReady, OwnersOffered
  <1>9. k.offers[Host] # None BY <1>8 DEF OwnersOffered, Owners, OwnersOf
  <1>10. h = PrepareInitial(k) BY <1>1, <1>5, <1>7, <1>8 DEF PrepareIfReady
  <1> HIDE DEF h
  <1>11. h.epoch = 0 => ~h.startRequested BY <1>1, <1>2, <1>9, <1>10, PrepareInitialFit
  <1> QED BY <1>1, <1>4, <1>6, <1>11 DEF SameRoster, h, k

\* startRoom.
LEMMA StartRoomWell ==
  ASSUME Core, StartRoom
  PROVE  Well
  <1> DEFINE r == [room EXCEPT !.loaded = @ \cup {Host}]
             ready == Publish(game, r)
             asked == PrepareIfReady([ready EXCEPT !.startRequested = TRUE])
             begun == [r EXCEPT !.started = @ \/ asked.epoch # 0]
  <1>1. /\ Step(Publish(asked, begun), begun)
        /\ ready.epoch = 0 /\ ready.load = None /\ InitialReady(ready)
    BY DEF StartRoom
  <1>2. r \in Room BY CoreParts, HostLoadedType
  <1>3. SameGame(room, r) /\ Later(room, r) BY CoreParts, LoadedRoomLater
  <1>4. game.load = None BY <1>1, LoadOutlivesPreparation
  <1> HIDE DEF r
  <1>5. Handed(game, r.controllers) BY <1>3, CoreParts DEF SameGame, Told, Handed
  <1>6. /\ Coherent(ready, acked) /\ Told(ready, r) /\ ready.epoch = game.epoch
    BY <1>2, <1>5, CoreParts, PublishedFit
  <1> HIDE DEF ready
  <1>7. /\ Coherent(asked, acked) /\ asked.controllers = ready.controllers
        /\ asked.pending = None
        /\ asked.epoch = 0 => ~asked.startRequested
    BY <1>1, <1>6, StartAnswered
  <1> HIDE DEF asked
  <1>8. begun \in Room BY <1>2, StartedType
  <1>9. /\ begun.controllers = r.controllers /\ begun.cartridge = r.cartridge
        /\ begun.offered = r.offered /\ begun.candidate = r.candidate
        /\ asked.epoch # 0 => begun.started
    BY <1>2 DEF Room
  <1> HIDE DEF begun
  <1>10. Handed(asked, begun.controllers) BY <1>6, <1>7, <1>9 DEF Told, Handed
  <1>11. Shelf(begun) BY <1>3, CoreParts, ShelfKept, <1>9 DEF Agreed, Shelf
  <1>12. Agreed(asked, begun) BY <1>7, <1>9, <1>11 DEF Agreed, Planned
  <1>13. begun.controllers = room.controllers BY <1>3, <1>9 DEF SameGame
  <1> QED BY <1>1, <1>4, <1>7, <1>8, <1>10, <1>12, <1>13, PublishWell

\* Every step that selects or starts a game.
LEMMA SelectionStepWell ==
  ASSUME Core, SelectionStep
  PROVE  Well
  BY BeginSelectionWell, ConfirmSelectionWell, DropSelectionWell, PrepareHostWell,
     StartRoomWell DEF SelectionStep

-----------------------------------------------------------------------------
(* Commands to the session                                                 *)

\* A command that leaves a load that stands, or that rolls back, in place:
\* publish() of the same room does not disturb it.
LEMMA StandsWell ==
  ASSUME Core, NEW g, Coherent(g, acked), InForce(g), SameRoster(game, g),
         g.load # None, Agreed(g, room), Accept(g, room)
  PROVE  Well
  <1> DEFINE s == Established(g, room)
  <1>1. /\ s \in Room /\ SameGame(room, s) /\ Later(room, s) /\ Views(s) = Views(room)
        /\ s.revision = room.revision
    BY CoreParts, EstablishedSame
  <1>2. acked' = acked /\ Become(Publish(g, s), s) BY DEF Accept, Step
  <1> HIDE DEF s
  <1>3. s.controllers = g.controllers /\ s.revision = g.roomRevision /\ Views(s) = g.members
    BY <1>1, CoreParts DEF SameGame, Told, SameRoster
  <1>4. Handed(g, s.controllers) BY <1>3 DEF Handed
  <1>5. Agreed(g, s) BY <1>1, CoreParts, AgreedLater DEF Coherent, Fit
  <1>6. Core' /\ game'.controllers = s.controllers BY <1>1, <1>2, <1>4, <1>5, PublishCore
  <1>7. game'.load # None
    BY <1>2, <1>3, PublishViews, ConfigureAgain DEF Become, Coherent, Fit, SessionType
  <1>8. HandsWell BY <1>1, <1>6, SameHands DEF SameGame
  <1> QED BY <1>6, <1>7, <1>8 DEF Well, EndsWell

\* The end of a transaction: it waits, fails, or commits what it proposed.
LEMMA FinishWell ==
  ASSUME Core, game.load = None, NEW g, Coherent(g, acked), SameRoster(game, g),
         g.hasPlayed = game.hasPlayed, SamePlan(game, g), g.epoch = game.epoch, Finish(g)
  PROVE  Well
  <1> DEFINE applied == ApplyRoles(room, g.pending.roles)
  <1>1. Planned(g, room) BY CoreParts, PlannedSame DEF Agreed
  <1>2. Fit(g, acked) /\ g \in SessionType BY DEF Coherent, Fit
  <1>3. CASE Commits(g, room.revision)
    <2>1. g.pending # None /\ g.pending.revision = room.revision /\ ProposedAvailable(g)
      BY <1>3 DEF Commits, TransactionDue
    <2>2. g.pending.roles \in SUBSET Roles BY <1>2, <2>1, PendingType DEF Pending, Roles, Role
    <2> DEFINE h == FinishTransaction(g, room.revision, applied.controllers)
               s == Established(h, applied)
    <2>3. acked' = acked /\ Become(Publish(h, s), s) BY <1>3 DEF Finish, Accept, Step
    <2>4. /\ applied \in Room /\ Later(room, applied)
          /\ applied.started = room.started /\ applied.cartridge = room.cartridge
          /\ applied.offered = room.offered /\ applied.candidate = room.candidate
          /\ applied.controllers.owners = ControllerOwners(WithRoles(room, g.pending.roles))
      BY <2>2, CoreParts, ApplyRolesType, ApplyRolesChanges
    <2> HIDE DEF applied
    <2>5. applied.controllers \in Assignment BY <2>4 DEF Room
    <2>6. /\ Fit(h, acked) /\ h.controllers = applied.controllers
          /\ h.pending = None /\ h.load = None /\ h.epoch # 0
      BY <1>2, <1>3, <2>5, FinishTransactionFit
    <2> HIDE DEF h
    <2>7. Coherent(h, acked) BY <2>6 DEF Coherent, OnTerms, Prepared, Standing
    <2>8. /\ s \in Room /\ SameGame(applied, s) /\ Later(applied, s) BY <2>4, EstablishedSame
    <2> HIDE DEF s
    <2>9. game.pending # None /\ game.epoch # 0 BY <2>1, CoreParts DEF SamePlan, Sound, Anchored
    <2>10. Agreed(h, applied) BY <2>4, CoreParts, <2>9, <2>6 DEF Agreed, Shelf, Planned
    <2>11. Agreed(h, s) BY <2>4, <2>6, <2>8, <2>10, AgreedLater DEF Fit
    <2>12. Handed(h, s.controllers) BY <2>6, <2>8 DEF SameGame, Handed
    <2>13. Core' /\ game'.controllers = s.controllers BY <2>3, <2>7, <2>8, <2>11, <2>12, PublishCore
    <2>14. ProposedCommits
      BY <2>1, CoreParts, <1>1, <2>4, <2>8, <2>13, <2>9 DEF SamePlan, Told, Planned, SameGame,
         ProposedAvailable, Available, SameRoster, ProposedCommits
    <2> QED BY <2>13, <2>14 DEF Well, EndsWell, HandsWell
  <1>4. CASE ~Commits(g, room.revision)
    <2> DEFINE h == FinishTransaction(g, room.revision, room.controllers)
    <2>1. Accept(h, room) BY <1>4 DEF Finish
    <2>2. room.controllers \in Assignment BY CoreParts DEF Room
    <2>3. Fit(h, acked) /\ Steady(g, h) BY <1>2, <1>4, <2>2, FinishTransactionFit
    <2> HIDE DEF h
    <2>4. Keeps(g, h) /\ Returns(g, h) /\ SamePlan(g, h) BY <2>3 DEF Steady
    <2>5. Coherent(h, acked) /\ SameRoster(g, h) BY <2>3, <2>4, KeepsCoherent
    <2>6. h.epoch = game.epoch BY <1>2, <2>3, <2>4, ReturnsEpoch DEF Fit
    <2>7. Planned(h, room) BY <1>1, <2>4, PlannedSame
    <2>8. SameRoster(game, h) BY <2>5 DEF SameRoster
    <2>9. Agreed(h, room) BY <2>6, <2>7, <2>8, CoreParts DEF Agreed, SameRoster
    <2> QED BY <2>1, <2>5, <2>8, <2>9, RosterAccept
  <1> QED BY <1>3, <1>4

\* prepareIfReady() at the end of a command to a session that does not run.
LEMMA ReadyWell ==
  ASSUME Core, game.load = None, NEW h, Fit(h, acked), Steady(game, h),
         h.status \notin Running, Accept(PrepareIfReady(h), room)
  PROVE  Well
  <1> DEFINE p == PrepareIfReady(h)
  <1>1. /\ Fit(p, acked) /\ Keeps(h, p) /\ SamePlan(h, p)
        /\ h.epoch = 0 /\ ~h.startRequested => p.epoch = 0
        /\ h.epoch # 0 => p.epoch # 0
    BY PrepareIfReadyFit
  <1>2. Accept(p, room) OBVIOUS
  <1> HIDE DEF p
  <1>3. /\ Coherent(h, acked) /\ Agreed(h, room) /\ Keeps(game, h) BY SteadyAgreed DEF Steady
  <1>4. Coherent(p, acked) /\ SameRoster(h, p) BY <1>1, <1>3, KeepsCoherent
  <1>5. SameRoster(game, p) BY <1>3, <1>4 DEF SameRoster, Keeps
  <1>6. Planned(p, room) BY <1>1, <1>3, PlannedSame DEF Agreed
  <1>7. Agreed(p, room) BY <1>1, <1>3, <1>4, <1>6 DEF Agreed, SameRoster
  <1> QED BY <1>2, <1>4, <1>5, <1>7, RosterAccept

\* gameRestore.
LEMMA RestoreWell ==
  ASSUME Core, NEW point \in Point, Restore(point)
  PROVE  Well
  <1> DEFINE epoch == game.issued + 1
             h == [game EXCEPT !.transfers = {}, !.interruption = None, !.acks = {},
                     !.required = {}, !.point = point, !.hasPlayed = TRUE,
                     !.restored = TRUE, !.offers = NoOffers,
                     !.epoch = epoch, !.issued = epoch,
                     !.status = "paused", !.startRequested = FALSE]
             r == [room EXCEPT !.started = TRUE, !.established = TRUE]
  <1>1. Accept(h, r) /\ game.load = None /\ game.pending = None BY DEF Restore, Idle
  <1>2. r \in Room BY CoreParts, BegunRoomType
  <1>3. game \in SessionType BY CoreParts
  <1>4. epoch \in Nat /\ epoch # 0 BY <1>3 DEF SessionType
  <1>5. /\ r.started /\ r.controllers = room.controllers /\ r.cartridge = room.cartridge
        /\ r.offered = room.offered /\ r.candidate = room.candidate
    BY CoreParts DEF Room
  <1> HIDE DEF epoch, r
  <1>6. h \in SessionType BY <1>3, <1>4, RestoredTimelineType
  <1>7. /\ h.status = "paused" /\ h.epoch = epoch /\ h.point = point
        /\ h.load = None /\ h.pending = None /\ h.offers = NoOffers
        /\ h.controllers = game.controllers
    BY <1>1, <1>3 DEF SessionType
  <1> HIDE DEF h
  <1>8. Sound(h, acked) BY <1>4, <1>7 DEF Sound, Anchored, LoadAnchored, Acked, Running
  <1>9. Coherent(h, acked) BY <1>6, <1>7, <1>8, EmptyCoherent
  <1>10. Agreed(h, r) BY <1>5, CoreParts, <1>4, <1>7 DEF Agreed, Shelf, Planned
  <1>11. Handed(h, r.controllers) BY <1>5, <1>7, CoreParts DEF Told, Handed
  <1> QED BY <1>1, <1>2, <1>5, <1>9, <1>10, <1>11, AcceptWell

\* gameReady of a member whose slot the assignment does not name.
LEMMA ReadyForSlotWell ==
  ASSUME Inv, Core, NEW m \in Member, ReadyForSlot(m)
  PROVE  Well
  <1> DEFINE roles == {OwnRole(m)}
             owners == ControllerOwners(room)
             h == RequestRoles(game, RoleChange(room, roles), owners)
  <1>1. Accept(h, room) /\ CanRequestRoles(game) BY DEF ReadyForSlot
  <1>2. roles \in SUBSET Roles BY OwnedSlotType DEF ReadyForSlot
  <1>3. owners = ControllerOwners(WithRoles(room, roles))
    <2>1. \A x \in roles : x.role = room.slots[x.slot].role BY DEF OwnRole
    <2> HIDE DEF roles
    <2> QED BY <2>1, CoreParts, RolesHeld
  <1>4. owners \in [Seat -> Owner] BY CoreParts, ControllerOwnersType
  <1> HIDE DEF roles, owners
  <1>5. Coherent(h, acked) /\ SameRoster(game, h) /\ Agreed(h, room) /\ game.load = None
    BY <1>1, <1>2, <1>3, <1>4, RequestAgreed
  <1> HIDE DEF h
  <1> QED BY <1>1, <1>5, RosterAccept

\* An offer for the assignment and the roster in force fits.
LEMMA OfferTakenFit ==
  ASSUME NEW A, NEW g, Fit(g, A), g.load = None, g.status \notin Running,
         NEW m \in Member, NEW offer \in Offer,
         offer.revision = g.controllers.revision, offer.roomRevision = g.roomRevision
  PROVE  LET h == [g EXCEPT !.offers = [g.offers EXCEPT ![m] = offer]]
         IN  Fit(h, A) /\ Steady(g, h) /\ h.status = g.status
  <1> DEFINE offers == [g.offers EXCEPT ![m] = offer]
             h == [g EXCEPT !.offers = offers]
  <1>1. g \in SessionType /\ Sound(g, A) /\ OffersFit(g) BY DEF Fit
  <1>2. offers \in [Member -> Offer \cup {None}] BY <1>1 DEF SessionType
  <1>3. \A x \in Member : offers[x] # None =>
          /\ offers[x].revision = g.controllers.revision
          /\ g.epoch = 0 => offers[x].roomRevision = g.roomRevision
    <2>1. g.offers \in [Member -> Offer \cup {None}] BY <1>1 DEF SessionType
    <2>2. \A x \in Member : offers[x] = IF x = m THEN offer ELSE g.offers[x] BY <2>1
    <2> HIDE DEF offers
    <2> QED BY <1>1, <2>2 DEF OffersFit
  <1> HIDE DEF offers
  <1>4. h \in SessionType /\ Sound(h, A) /\ h.status = g.status BY <1>1, <1>2, OffersSound
  <1>5. /\ h.controllers = g.controllers /\ h.members = g.members
        /\ h.roomRevision = g.roomRevision /\ h.offers = offers
        /\ h.load = g.load /\ h.pending = g.pending /\ h.epoch = g.epoch
        /\ h.hasPlayed = g.hasPlayed /\ h.startRequested = g.startRequested
        /\ h.point = g.point /\ h.proposed = g.proposed
    BY <1>1 DEF SessionType
  <1> HIDE DEF h
  <1>6. OffersFit(h) BY <1>3, <1>5 DEF OffersFit
  <1>7. LoadKept(h) /\ Staged(h) BY <1>5 DEF LoadKept, Staged
  <1>8. Steady(g, h) BY <1>5 DEF Steady, Keeps, Returns, SamePlan, Standing
  <1> QED BY <1>4, <1>6, <1>7, <1>8 DEF Fit, h, offers

\* gameReady.
LEMMA ReadyOfferWell ==
  ASSUME Core, NEW m \in Member, NEW offer \in Offers, Ready(m, offer)
  PROVE  Well
  <1> DEFINE h == [game EXCEPT !.offers = [game.offers EXCEPT ![m] = offer]]
  <1>1. Accept(PrepareIfReady(h), room) BY CoreParts DEF Ready, SessionType
  <1>2. offer \in Offer BY InstanceAssumption DEF Offers, Offer
  <1>3. /\ game.load = None /\ game.status \notin Running
        /\ offer.revision = game.controllers.revision
        /\ offer.roomRevision = game.roomRevision
    BY DEF Ready, CanReady, Running
  <1>4. Fit(h, acked) /\ Steady(game, h) /\ h.status = game.status
    BY <1>2, <1>3, CoreParts, OfferTakenFit
  <1> HIDE DEF h
  <1> QED BY <1>1, <1>3, <1>4, ReadyWell

\* A capture for one member.
LEMMA CaptureWell ==
  ASSUME Core, NEW m \in Member, NEW purpose \in Purpose,
         purpose # "controller" \/ game.status \notin Running,
         Accept(Capture(game, {m}, purpose), room)
  PROVE  Well
  <1> DEFINE h == Capture(game, {m}, purpose)
  <1>1. Fit(h, acked) /\ Steady(game, h) BY CoreParts, CaptureFit
  <1>2. Accept(h, room) OBVIOUS
  <1> HIDE DEF h
  <1> QED BY <1>1, <1>2, SteadyAccept

\* gameObserve, and gameResynchronize.
LEMMA ObserveWell ==
  ASSUME Core, NEW m \in Member, Observe(m) \/ Resynchronize(m)
  PROVE  Well
BY CaptureWell DEF Purpose, Running, Observe, PausedOwner, Resynchronize

\* Fewer offers and fewer transfers fit a session without a load.
LEMMA FewerFit ==
  ASSUME NEW A, NEW g, Fit(g, A), g.load = None, NEW transfers \in SUBSET g.transfers,
         NEW offers \in [Member -> Offer \cup {None}],
         \A m \in Member : offers[m] \in {g.offers[m], None}
  PROVE  LET h == [g EXCEPT !.transfers = transfers, !.offers = offers]
         IN  Fit(h, A) /\ Steady(g, h)
  <1> DEFINE h == [g EXCEPT !.transfers = transfers, !.offers = offers]
  <1>1. g \in SessionType /\ Sound(g, A) /\ OffersFit(g) BY DEF Fit
  <1>2. transfers \in SUBSET Transfer BY <1>1 DEF SessionType
  <1>3. h \in SessionType BY <1>1, <1>2, LeftType
  <1>4. /\ h.controllers = g.controllers /\ h.members = g.members
        /\ h.roomRevision = g.roomRevision /\ h.offers = offers
        /\ h.load = g.load /\ h.pending = g.pending /\ h.epoch = g.epoch
        /\ h.hasPlayed = g.hasPlayed /\ h.startRequested = g.startRequested
        /\ h.point = g.point /\ h.proposed = g.proposed /\ h.status = g.status
        /\ h.required = g.required /\ h.acks = g.acks /\ h.transfers = transfers
    BY <1>1 DEF SessionType
  <1> HIDE DEF h
  <1>5. Sound(h, A) BY <1>1, <1>3, <1>4, GoingOnSound
  <1>6. OffersFit(h) BY <1>1, <1>4 DEF OffersFit
  <1>7. LoadKept(h) /\ Staged(h) BY <1>4 DEF LoadKept, Staged
  <1>8. Steady(g, h) BY <1>4 DEF Steady, Keeps, Returns, SamePlan, Standing
  <1> QED BY <1>3, <1>5, <1>6, <1>7, <1>8 DEF Fit, h

\* Withdrawing an offer fits.
LEMMA WithdrawFit ==
  ASSUME NEW A, NEW g, Fit(g, A), g.load = None, NEW m \in Member
  PROVE  Fit(Withdraw(g, m), A) /\ Steady(g, Withdraw(g, m))
  <1> DEFINE transfers == g.transfers \ Involved(g, m)
             offers == [g.offers EXCEPT ![m] = None]
             h == [g EXCEPT !.transfers = transfers, !.offers = offers]
  <1>1. g \in SessionType /\ g.offers \in [Member -> Offer \cup {None}] BY DEF Fit, SessionType
  <1>2. Withdraw(g, m) = IF /\ g.epoch = 0 \/ m \in Owners(g)
                            /\ g.startRequested \/ g.status \in {"starting", "countdown"}
                           THEN Stop(h, "paused") ELSE h
    BY <1>1 DEF Withdraw, SessionType
  <1>3. transfers \in SUBSET g.transfers OBVIOUS
  <1>4. offers \in [Member -> Offer \cup {None}] BY <1>1
  <1>5. \A x \in Member : offers[x] \in {g.offers[x], None} BY <1>1
  <1> HIDE DEF transfers, offers
  <1>6. Fit(h, A) /\ Steady(g, h) BY <1>3, <1>4, <1>5, FewerFit
  <1> HIDE DEF h
  <1>7. Fit(Stop(h, "paused"), A) /\ Steady(h, Stop(h, "paused")) BY <1>6, StopFit
  <1>8. Steady(g, Stop(h, "paused")) BY <1>6, <1>7, SteadyTwice
  <1> QED BY <1>2, <1>6, <1>7, <1>8

\* gameUnready.
LEMMA UnreadyWell ==
  ASSUME Core, NEW m \in Member, Unready(m)
  PROVE  Well
BY CoreParts, FailTransactionFit, StopFit, WithdrawFit, SteadyAccept DEF Unready, Idle

\* gameRoleCancel.
LEMMA RoleCancelWell ==
  ASSUME Core, RoleCancel
  PROVE  Well
BY CoreParts, DropRolesFit, SteadyAccept DEF RoleCancel

\* gameRoleRetry proposes the owners of the roster as it is now.
LEMMA RoleRetryWell ==
  ASSUME Core, RoleRetry
  PROVE  Well
  <1> DEFINE owners == ControllerOwners(WithRoles(room, game.pending.roles))
             h == RetryRoles(game, room.revision, owners)
  <1>1. Accept(h, room) /\ game.pending # None BY DEF RoleRetry
  <1>3. owners \in [Seat -> Owner] /\ room.revision \in Nat
    BY <1>1, CoreParts, PendingType, WithRolesType, ControllerOwnersType, NextRevision DEF Pending,
       Roles, Role
  <1>4. owners = ControllerOwners(WithRoles(room, game.pending.roles)) OBVIOUS
  <1> HIDE DEF owners
  <1>5. /\ Fit(h, acked) /\ Keeps(game, h) /\ Returns(game, h)
        /\ h.pending.revision = room.revision
        /\ h.pending.roles = game.pending.roles /\ h.proposed = owners
    BY <1>1, <1>3, CoreParts, RetryRolesFit
  <1> HIDE DEF h
  <1>6. Coherent(h, acked) /\ SameRoster(game, h) BY <1>5, CoreParts, KeepsCoherent
  <1>7. h.epoch = game.epoch BY <1>5, CoreParts, ReturnsEpoch DEF Fit
  <1>8. Planned(h, room) BY <1>3, <1>4, <1>5 DEF Planned
  <1>9. Agreed(h, room) BY <1>6, <1>7, <1>8, CoreParts DEF Agreed, SameRoster
  <1> QED BY <1>1, <1>5, <1>6, <1>9, RosterAccept

\* gamePause.
LEMMA PauseWell ==
  ASSUME Core, NEW m \in Member, Pause(m)
  PROVE  Well
BY CoreParts, FreezeFit, SteadyAccept DEF Pause, Idle, Sound, Anchored, Fit

\* The session once the host froze a timeline that was being paused.
PausedAt(g, point) ==
  [g EXCEPT !.point = point, !.status = "paused",
            !.load = IF g.load = None THEN None ELSE
              [@ EXCEPT !.oldPoint = point, !.held = TRUE]]

\* A load goes on from where the host froze it.
LEMMA PausedFit ==
  ASSUME NEW A, NEW g, Fit(g, A), g.status = "pausing", NEW point \in Point
  PROVE  LET h == PausedAt(g, point)
         IN  /\ Fit(h, A) /\ Keeps(g, h) /\ SamePlan(g, h) /\ h.epoch = g.epoch
             /\ h.load = None <=> g.load = None
             /\ h.pending = g.pending /\ h.proposed = g.proposed
             /\ h.status = "paused"
  <1> DEFINE held == [g.load EXCEPT !.oldPoint = point, !.held = TRUE]
             load == IF g.load = None THEN None ELSE held
             h == [g EXCEPT !.point = point, !.status = "paused", !.load = load]
  <1>1. g \in SessionType /\ Sound(g, A) BY DEF Fit
  <1>2. PausedAt(g, point) = h BY DEF PausedAt
  <1>3. h \in SessionType /\ Sound(h, A) BY <1>1, PausedSound
  <1>4. g.load # None => g.load \in Load /\ held \in Load BY <1>1, LoadType, HeldType
  <1>5. g.load # None =>
          /\ held.oldPoint = point /\ held.phase = g.load.phase
          /\ held.required = g.load.required /\ held.freezeRequired = g.load.freezeRequired
          /\ held.revision = g.load.revision /\ held.controllers = g.load.controllers
          /\ held.replacement = g.load.replacement /\ held.prepared = g.load.prepared
          /\ held.initial = g.load.initial
    BY <1>4 DEF Load
  <1>6. g.load # None => held # None BY <1>4, NoneAssumption
  <1> HIDE DEF held
  <1>7. (g.load = None => load = None) /\ (g.load # None => load = held) OBVIOUS
  <1> HIDE DEF load
  <1>8. /\ h.controllers = g.controllers /\ h.members = g.members
        /\ h.roomRevision = g.roomRevision /\ h.offers = g.offers
        /\ h.load = load /\ h.pending = g.pending /\ h.epoch = g.epoch
        /\ h.hasPlayed = g.hasPlayed /\ h.startRequested = g.startRequested
        /\ h.point = point /\ h.proposed = g.proposed /\ h.status = "paused"
        /\ h.transfers = g.transfers
    BY <1>1 DEF SessionType
  <1> HIDE DEF h
  <1>9. OffersFit(h) BY <1>8 DEF Running, Fit, OffersFit
  <1>10. LoadKept(h) BY <1>5, <1>6, <1>7, <1>8 DEF Fit, LoadKept, Resting
  <1>11. Staged(h) BY <1>5, <1>6, <1>7, <1>8 DEF Fit, Staged
  <1>12. Keeps(g, h) BY <1>5, <1>6, <1>7, <1>8 DEF Keeps, Standing, SameTerms
  <1>13. SamePlan(g, h) BY <1>8 DEF SamePlan
  <1> QED BY <1>2, <1>3, <1>6, <1>7, <1>8, <1>9, <1>10, <1>11, <1>12, <1>13 DEF Fit

\* A transaction that goes on fits.
LEMMA PendingFit ==
  ASSUME NEW A, NEW g, Fit(g, A), g.pending # None, NEW status,
         [g.pending EXCEPT !.status = status] \in Pending
  PROVE  LET h == [g EXCEPT !.pending = [g.pending EXCEPT !.status = status]]
         IN  Fit(h, A) /\ Steady(g, h) /\ h.status = g.status
  <1> DEFINE pending == [g.pending EXCEPT !.status = status]
             h == [g EXCEPT !.pending = pending]
  <1>1. g \in SessionType /\ Sound(g, A) BY DEF Fit
  <1>2. g.pending \in Pending BY <1>1, PendingType
  <1>3. pending.revision = g.pending.revision /\ pending.roles = g.pending.roles BY <1>2 DEF Pending
  <1> HIDE DEF pending
  <1>4. pending \in Pending BY DEF pending
  <1>5. h \in SessionType /\ Sound(h, A) /\ h.status = g.status BY <1>1, <1>4, PendingSound
  <1>6. /\ h.controllers = g.controllers /\ h.members = g.members
        /\ h.roomRevision = g.roomRevision /\ h.offers = g.offers
        /\ h.load = g.load /\ h.pending = pending /\ h.epoch = g.epoch
        /\ h.hasPlayed = g.hasPlayed /\ h.startRequested = g.startRequested
        /\ h.point = g.point /\ h.proposed = g.proposed /\ h.status = g.status
        /\ h.transfers = g.transfers
    BY <1>1 DEF SessionType
  <1> HIDE DEF h
  <1>7. OffersFit(h) BY <1>6 DEF Fit, OffersFit
  <1>8. LoadKept(h) /\ Staged(h) BY <1>6 DEF Fit, LoadKept, Staged
  <1>9. Steady(g, h) BY <1>3, <1>6 DEF Steady, Keeps, Returns, SamePlan, Standing, SameTerms
  <1> QED BY <1>5, <1>7, <1>8, <1>9 DEF Fit, h, pending

\* gameFrozen.
LEMMA FrozenWell ==
  ASSUME Core, NEW point \in Point, Frozen(point)
  PROVE  Well
  <1> DEFINE paused == PausedAt(game, point)
             going == [paused.pending EXCEPT !.status = "synchronizing"]
             synchronizing == [paused EXCEPT !.pending = going]
             synced == Capture(synchronizing, OwnersOf(game.proposed) \ {Host}, "controller")
  <1>1. game.status = "pausing" BY DEF Frozen
  <1>2. /\ Fit(paused, acked) /\ Keeps(game, paused) /\ SamePlan(game, paused)
        /\ paused.epoch = game.epoch
        /\ paused.load = None <=> game.load = None
        /\ paused.pending = game.pending /\ paused.proposed = game.proposed
        /\ paused.status = "paused"
    BY <1>1, CoreParts, PausedFit
  <1>4. \/ game.pending = None /\ Accept(paused, room)
        \/ game.pending # None /\ Finish(synced)
        \/ game.pending # None /\ Accept(FailTransaction(synchronizing), room)
    BY <1>2 DEF Frozen, Idle, PausedAt, Fit, SessionType
  <1> HIDE DEF paused
  <1>5. Coherent(paused, acked) /\ SameRoster(game, paused) BY <1>2, CoreParts, KeepsCoherent
  <1>6. Planned(paused, room) BY <1>2, CoreParts, PlannedSame DEF Agreed
  <1>7. Agreed(paused, room) BY <1>2, <1>5, <1>6, CoreParts DEF Agreed, SameRoster
  <1>8. CASE game.pending = None /\ Accept(paused, room)
    BY <1>5, <1>7, <1>8, RosterAccept, <1>2, CoreParts, SteadyInForce, StandsWell
  <1>9. ASSUME game.pending # None
        PROVE  /\ Fit(synchronizing, acked) /\ Steady(paused, synchronizing)
               /\ synchronizing.status = "paused"
               /\ game.load = None
    BY <1>9, CoreParts, <1>2, PendingType, PendingFit DEF Sound, LoadAnchored, Fit, Pending
  <1> HIDE DEF synchronizing, going
  <1>10. ASSUME NEW h, game.pending # None, Fit(h, acked), Steady(synchronizing, h)
         PROVE  /\ Coherent(h, acked) /\ SameRoster(game, h) /\ SamePlan(game, h)
                /\ h.hasPlayed = game.hasPlayed /\ h.epoch = game.epoch
                /\ Agreed(h, room) /\ game.load = None
    <2>1. Steady(paused, h) BY <1>9, <1>10, SteadyTwice
    <2>2. Keeps(paused, h) /\ Returns(paused, h) /\ SamePlan(paused, h) BY <2>1 DEF Steady
    <2>3. Coherent(h, acked) /\ SameRoster(paused, h) BY <1>5, <1>10, <2>2, KeepsCoherent
    <2>4. h.epoch = game.epoch BY <1>2, <1>10, <2>2, ReturnsEpoch DEF Fit
    <2>5. SameRoster(game, h) BY <1>5, <2>3 DEF SameRoster
    <2>6. h.hasPlayed = game.hasPlayed BY <1>2, <2>2 DEF Keeps
    <2>7. SamePlan(game, h) BY <1>2, <2>2 DEF SamePlan
    <2>8. Planned(h, room) BY <2>7, CoreParts, PlannedSame DEF Agreed
    <2>9. Agreed(h, room) BY <2>4, <2>5, <2>8, CoreParts DEF Agreed, SameRoster
    <2> QED BY <1>9, <1>10, <2>3, <2>4, <2>5, <2>6, <2>7, <2>9
  <1>11. CASE game.pending # None /\ Finish(synced)
    <2>2. synchronizing.status \notin Running BY <1>9, <1>11 DEF Running
    <2>3. Fit(synced, acked) /\ Steady(synchronizing, synced)
      BY <1>9, <1>11, CoreParts, OwnersOfType, <2>2, CaptureFit DEF Purpose, Sound, Anchored
    <2> HIDE DEF synced
    <2> QED BY <1>10, <1>11, <2>3, FinishWell
  <1>12. CASE game.pending # None /\ Accept(FailTransaction(synchronizing), room)
    <2> DEFINE h == FailTransaction(synchronizing)
    <2>1. synchronizing.load = None BY <1>2, <1>9, <1>12 DEF Steady, Returns
    <2>2. Fit(h, acked) /\ Steady(synchronizing, h) BY <1>9, <1>12, <2>1, FailTransactionFit
    <2>3. Accept(h, room) BY <1>12
    <2> HIDE DEF h
    <2> QED BY <1>10, <1>12, <2>2, <2>3, RosterAccept
  <1> QED BY <1>4, <1>8, <1>11, <1>12

\* gameAck.
LEMMA ReceiveAckWell ==
  ASSUME Core, acked \in SUBSET Ack, NEW prepare \in game.sent, ReceiveAck(prepare)
  PROVE  Well
  <1> DEFINE ack == [from |-> prepare.to, epoch |-> prepare.epoch, hash |-> prepare.hash]
             A == acked \cup {ack}
             h == TakeAck(game, prepare.to)
  <1>1. AcceptsAck(game, prepare) BY DEF ReceiveAck
  <1>2. Become(Publish(h, room), room) /\ acked' = A BY DEF ReceiveAck
  <1>3. /\ h \in SessionType /\ Sound(h, A)
        /\ h.status \in {"starting", "countdown"} /\ game.load = None
        /\ h.epoch = game.epoch /\ h.load = game.load
        /\ h.pending = game.pending /\ h.proposed = game.proposed
        /\ h.controllers = game.controllers /\ h.members = game.members
        /\ h.roomRevision = game.roomRevision /\ h.startRequested = game.startRequested
    BY <1>1, CoreParts, TakenAckSound
  <1> HIDE DEF h, A
  <1>4. OffersFit(h) /\ LoadKept(h) /\ Staged(h) BY <1>3 DEF OffersFit, LoadKept, Staged, Running
  <1>5. Coherent(h, A) BY <1>3, <1>4 DEF Coherent, Fit, OnTerms, Prepared, Standing
  <1>6. Handed(h, room.controllers) BY <1>3, CoreParts DEF Handed, Told
  <1>7. Agreed(h, room) BY <1>3, CoreParts DEF Agreed, Planned
  <1>8. Core' /\ game'.controllers = room.controllers
    BY <1>2, <1>5, <1>6, <1>7, CoreParts, PublishCore
  <1>9. HandsWell BY <1>8, SameHands
  <1> QED BY <1>3, <1>8, <1>9 DEF Well, EndsWell

\* gameResume.
LEMMA ResumeWell ==
  ASSUME Core, Resume
  PROVE  Well
  <1> DEFINE h == Begin(game, game.point)
  <1>1. Accept(h, room) /\ game.load = None /\ game.status = "resume_ready" BY DEF Resume, Idle
  <1>2. game.epoch # 0 /\ game.point \in Point BY <1>1, CoreParts DEF Sound, Anchored
  <1>3. Fit(h, acked) /\ Keeps(game, h) /\ SamePlan(game, h) /\ h.epoch # 0
    BY <1>1, <1>2, CoreParts, BeginFit
  <1> HIDE DEF h
  <1>4. Coherent(h, acked) /\ SameRoster(game, h) BY <1>3, CoreParts, KeepsCoherent
  <1>5. Planned(h, room) BY <1>3, CoreParts, PlannedSame DEF Agreed
  <1>6. Agreed(h, room) BY <1>2, <1>3, <1>5, CoreParts DEF Agreed
  <1> QED BY <1>1, <1>4, <1>6, RosterAccept

\* gameAbort: a member that only gives up its own transfer is not one a staged
\* load waits for.
LEMMA AbortWell ==
  ASSUME Inv, Core, NEW m \in Member, Abort(m)
  PROVE  Well
  <1> DEFINE others == {t \in game.transfers : t.recipient # m}
             h == [game EXCEPT !.transfers = others]
  <1>1. CASE Accept(Stop(game, "failed"), room) BY CoreParts, StopFit, <1>1, SteadyAccept
  <1>2. CASE /\ game.status = "playing" \/ m \notin Owners(game)
             /\ Accept(h, room)
    <2>1. others \in SUBSET Transfer BY CoreParts DEF SessionType
    <2>2. \A t \in others : t \in game.transfers OBVIOUS
    <2>3. \A t \in game.transfers : t.recipient # m => t \in others OBVIOUS
    <2> HIDE DEF others
    <2>4. h.load = game.load /\ h.transfers = others BY CoreParts DEF SessionType
    <2>5. Accept(h, room) BY <1>2
    <2> HIDE DEF h
    <2>6. Staged(h)
      <3> SUFFICES ASSUME game.load # None, game.load.phase = "staging",
                          game.load.replacement = None,
                          NEW x \in game.load.required \ (game.load.prepared \cup {Host})
                   PROVE  \E t \in others : t.recipient = x /\ t.purpose = "load"
        BY <2>4 DEF Staged
      <3>1. PICK t \in game.transfers : t.recipient = x /\ t.purpose = "load"
        BY CoreParts DEF Fit, Staged
      <3>2. game.load.required = Owners(game) BY CoreParts DEF OnTerms, Standing
      <3>3. game.status # "playing" BY CoreParts DEF Fit, LoadKept, Resting
      <3>4. x # m BY <1>2, <3>2, <3>3
      <3> QED BY <2>3, <3>1, <3>4
    <2>7. Fit(h, acked) /\ Steady(game, h) BY <2>1, <2>2, <2>6, CoreParts, TransfersFit DEF h
    <2> QED BY <2>5, <2>7, SteadyAccept
  <1> QED BY <1>1, <1>2 DEF Abort

\* Every command to the session.
LEMMA CommandStepWell ==
  ASSUME Inv, Core, CommandStep
  PROVE  Well
  BY RestoreWell, FrozenWell, ReadyForSlotWell, ObserveWell, UnreadyWell, PauseWell,
     AbortWell, ReadyOfferWell, RoleCancelWell, RoleRetryWell, ResumeWell,
     ReceiveAckWell, InvParts DEF CommandStep

-----------------------------------------------------------------------------
(* Commands of a checkpoint transfer                                       *)

\* Ending a transfer fits, unless it is one that a staged load waits for.
LEMMA WithoutFit ==
  ASSUME NEW A, NEW g, Fit(g, A), NEW t \in g.transfers,
         t.purpose # "load" \/ ~Standing(g)
  PROVE  LET w == Without(g, t)
         IN  Fit(w, A) /\ Steady(g, w) /\ w.status = g.status /\ w.offers = g.offers
  <1> DEFINE transfers == g.transfers \ {t}
             w == [g EXCEPT !.transfers = transfers]
  <1>1. g \in SessionType /\ Staged(g) BY DEF Fit
  <1>2. transfers \in SUBSET Transfer BY <1>1 DEF SessionType
  <1>3. \A u \in transfers : u \in g.transfers OBVIOUS
  <1>4. \A u \in g.transfers : u # t => u \in transfers OBVIOUS
  <1> HIDE DEF transfers
  <1>5. w.load = g.load /\ w.transfers = transfers BY <1>1 DEF SessionType
  <1>6. Staged(w)
    <2> HIDE DEF w
    <2> SUFFICES ASSUME g.load # None, g.load.phase = "staging", g.load.replacement = None,
                        NEW m \in g.load.required \ (g.load.prepared \cup {Host})
                 PROVE  \E u \in transfers : u.recipient = m /\ u.purpose = "load"
      BY <1>5 DEF Staged
    <2>1. PICK u \in g.transfers : u.recipient = m /\ u.purpose = "load" BY <1>1 DEF Staged
    <2>2. u # t BY <2>1 DEF Standing
    <2> QED BY <1>4, <2>1, <2>2
  <1>7. Fit(w, A) /\ Steady(g, w) /\ w.status = g.status /\ w.offers = g.offers
    BY <1>2, <1>3, <1>6, TransfersFit
  <1>8. Without(g, t) = w BY DEF Without, transfers
  <1> HIDE DEF w
  <1> QED BY <1>7, <1>8

\* An ended transfer makes no difference to the end of a load.
LEMMA AbortWithoutFit ==
  ASSUME NEW A, NEW g, Fit(g, A), NEW t \in g.transfers
  PROVE  LET h == AbortLoad(Without(g, t)) IN Fit(h, A) /\ Steady(g, h)
  <1>1. CASE ~Standing(g) BY <1>1, WithoutFit, AbortLoadFit, SteadyTwice
  <1>2. CASE Standing(g)
    <2> DEFINE status == IF g.load.initial THEN "waiting" ELSE "paused"
               unmarked == {m \in LoadMembers(g.load) : g.load.boundaries[m] = None}
               l == [g.load EXCEPT !.phase = "rolling_back", !.rolledBack = @ \cup unmarked]
               h == [g EXCEPT !.transfers = {}, !.offers = NoOffers, !.acks = {},
                              !.status = status, !.load = l]
               w == [g EXCEPT !.transfers = g.transfers \ {t}]
               k == [w EXCEPT !.transfers = {}, !.offers = NoOffers, !.acks = {},
                              !.status = status, !.load = l]
    <2>1. g \in SessionType BY DEF Fit
    <2>2. AbortLoad(g) = FinishLoadRollback(h, FALSE)
      BY <1>2, <2>1 DEF AbortLoad, SessionType, Standing
    <2>3. w.load = g.load BY <2>1 DEF SessionType
    <2>4. w \in SessionType BY <2>1, TransfersType DEF SessionType
    <2>5. AbortLoad(w) = FinishLoadRollback(k, FALSE)
      <3> HIDE DEF w
      <3> QED BY <1>2, <2>3, <2>4 DEF AbortLoad, SessionType, Standing
    <2> HIDE DEF l, status
    <2>6. k = h BY <2>1 DEF SessionType
    <2>7. Without(g, t) = w BY DEF Without
    <2> HIDE DEF h, k, w
    <2>8. AbortLoad(Without(g, t)) = AbortLoad(g) BY <2>2, <2>5, <2>6, <2>7
    <2> QED BY <2>8, AbortLoadFit
  <1> QED BY <1>1, <1>2

\* A transfer that goes on with the same recipient and purpose is steady.
LEMMA UpdatedWell ==
  ASSUME Core, NEW t \in game.transfers, NEW new \in Transfer,
         new.purpose = t.purpose, new.recipient = t.recipient,
         Accept(Updated(t, new), room)
  PROVE  Well
  <1> DEFINE transfers == (game.transfers \ {t}) \cup {new}
             h == [game EXCEPT !.transfers = transfers]
  <1>1. Updated(t, new) = h BY DEF Updated
  <1>2. transfers \in SUBSET Transfer BY CoreParts DEF SessionType
  <1>3. \/ game.status \notin Running
        \/ \A u \in transfers : u \in game.transfers \/ u.purpose # "controller"
    BY CoreParts DEF Sound, Acked
  <1>4. \A u \in game.transfers :
          \E v \in transfers : v.recipient = u.recipient /\ v.purpose = u.purpose
    OBVIOUS
  <1> HIDE DEF transfers
  <1>5. h.load = game.load /\ h.transfers = transfers BY CoreParts DEF SessionType
  <1>6. Staged(h)
    <2> HIDE DEF h
    <2> SUFFICES ASSUME game.load # None, game.load.phase = "staging",
                        game.load.replacement = None,
                        NEW m \in game.load.required \ (game.load.prepared \cup {Host})
                 PROVE  \E v \in transfers : v.recipient = m /\ v.purpose = "load"
      BY <1>5 DEF Staged
    <2>1. PICK u \in game.transfers : u.recipient = m /\ u.purpose = "load"
      BY CoreParts DEF Fit, Staged
    <2> QED BY <1>4, <2>1
  <1>7. Fit(h, acked) /\ Steady(game, h) BY <1>2, <1>3, <1>6, CoreParts, TransfersFit
  <1> HIDE DEF h
  <1> QED BY <1>1, <1>7, SteadyAccept

\* What a transfer learns leaves its recipient.
LEMMA SameRecipient ==
  ASSUME NEW t \in Transfer, NEW point
  PROVE  /\ [t EXCEPT !.point = point].recipient = t.recipient
         /\ [t EXCEPT !.boundary = point].recipient = t.recipient
         /\ [t EXCEPT !.sending = TRUE].recipient = t.recipient
         /\ [t EXCEPT !.catchingUp = TRUE].recipient = t.recipient
  BY DEF Transfer

\* The captured state, and the frame to catch up to.
LEMMA CapturedWell ==
  ASSUME Inv, Core, NEW t \in game.transfers, NEW point \in Point,
         Captured(t, point) \/ CatchupBoundary(t, point)
  PROVE  Well
BY TransferType, TransferFieldsType, SameRecipient, UpdatedWell DEF Captured, CatchupBoundary

\* A checkpoint that is ready, or was loaded by an observer.
LEMMA ProgressWell ==
  ASSUME Inv, Core, NEW t \in game.transfers, CheckpointReady(t) \/ LiveAck(t)
  PROVE  Well
BY TransferType, TransferFlagsType, SameRecipient, UpdatedWell, CatchingUpType DEF CheckpointReady,
   LiveAck

\* The end of a live transfer.
LEMMA ObservedWell ==
  ASSUME Inv, Core, NEW t \in game.transfers, Observed(t)
  PROVE  Well
BY TransferType, CoreParts, WithoutFit, SteadyAccept DEF Observed, Transfer

\* A controller that loaded the paused state offers it.
LEMMA ControllerAckWell ==
  ASSUME Inv, Core, NEW t \in game.transfers, ControllerAck(t)
  PROVE  Well
  <1> DEFINE w == Without(game, t)
             offer == SyncedOffer(t)
             h == [w EXCEPT !.offers = [w.offers EXCEPT ![t.recipient] = offer]]
  <1>1. t.purpose = "controller" /\ t.sending BY DEF ControllerAck
  <1>2. /\ Fit(w, acked) /\ Steady(game, w)
        /\ w.status = game.status /\ w.offers = game.offers
    BY <1>1, CoreParts, WithoutFit
  <1>3. t.recipient \in Member BY TransferType DEF Transfer
  <1>4. [w EXCEPT !.offers[t.recipient] = offer] = h BY <1>2 DEF Fit, SessionType
  <1>6. CASE Accept(w, room)
    <2> HIDE DEF w
    <2> QED BY <1>2, <1>6, SteadyAccept
  <1>7. ASSUME game.load = None
        PROVE  Fit(h, acked) /\ Steady(game, h) /\ h.status \notin Running
    <2>1. offer \in Offer BY <1>1, SyncedOfferType
    <2>2. offer.revision = game.controllers.revision /\ offer.roomRevision = game.roomRevision
      BY DEF SyncedOffer
    <2> HIDE DEF w, offer
    <2>3. w.load = None BY <1>2, <1>7 DEF Steady, Returns
    <2>4. w.status \notin Running BY <1>1, <1>2, CoreParts DEF Sound, Acked
    <2>5. offer.revision = w.controllers.revision /\ offer.roomRevision = w.roomRevision
      BY <1>2, <2>2 DEF Steady, Keeps
    <2>6. Fit(h, acked) /\ Steady(w, h) /\ h.status = w.status
      BY <1>2, <1>3, <2>1, <2>3, <2>4, <2>5, OfferTakenFit
    <2> HIDE DEF h
    <2>7. Steady(game, h) BY <1>2, <2>6, SteadyTwice
    <2> QED BY <2>4, <2>6, <2>7
  <1> HIDE DEF h
  <1>8. CASE game.load = None /\ Finish(h)
    BY <1>7, <1>8, SteadyAgreed, FinishWell DEF Steady, Keeps, SameRoster
  <1>9. CASE game.load = None /\ Accept(PrepareIfReady(h), room) BY <1>7, <1>9, ReadyWell
  <1> QED BY <1>4, <1>6, <1>8, <1>9 DEF ControllerAck

\* A session that still has the roster and the timeline it had, and no
\* transaction, agrees with the room.
LEMMA RosterAgreed ==
  ASSUME Core, NEW g, SameRoster(game, g), g.epoch = game.epoch, g.pending = None
  PROVE  Agreed(g, room)
  BY CoreParts DEF Agreed, SameRoster, Planned

\* A member prepared the load: it stages on, or everybody commits.
LEMMA PreparedWell ==
  ASSUME Core, game.load # None, game.load.phase = "staging", NEW g, NEW m \in Member,
         g \in SessionType, Sound(g, acked), OffersFit(g), LoadKept(g),
         g.load = game.load, g.epoch = game.epoch, g.pending = game.pending,
         SameRoster(game, g),
         g.load.replacement = None =>
           \A x \in g.load.required \ (g.load.prepared \cup {Host, m}) :
             \E t \in g.transfers : t.recipient = x /\ t.purpose = "load",
         Accept(LoadPrepared(g, m), room)
  PROVE  Well
  <1> DEFINE h == LoadPrepared(g, m)
  <1>2. OnTerms(g) BY CoreParts DEF OnTerms, Standing, SameRoster, Owners
  <1>3. Coherent(h, acked) /\ SameRoster(g, h) /\ h.epoch = g.epoch /\ Returns(g, h)
    BY <1>2, LoadPreparedFit
  <1>4. h.pending = g.pending BY DEF LoadPrepared, SessionType
  <1>5. Accept(h, room) OBVIOUS
  <1> HIDE DEF h
  <1>6. game.pending = None BY CoreParts DEF Sound, LoadAnchored
  <1>7. SameRoster(game, h) BY <1>3 DEF SameRoster
  <1>8. Returns(game, h) BY <1>3 DEF Returns
  <1>9. Agreed(h, room) BY <1>3, <1>4, <1>6, <1>7, RosterAgreed
  <1> QED BY <1>3, <1>5, <1>7, <1>8, <1>9, RosterAccept

\* A guest prepared the load.
LEMMA LoadAckWell ==
  ASSUME Inv, Core, NEW t \in game.transfers, LoadAck(t)
  PROVE  Well
  <1> DEFINE transfers == game.transfers \ {t}
             w == [game EXCEPT !.transfers = transfers]
  <1>1. /\ t.purpose = "load" /\ game.load # None /\ game.load.phase = "staging"
        /\ Accept(LoadPrepared(w, t.recipient), room)
    BY DEF LoadAck, Drivable, Loading, Idle, Without
  <1>2. t.recipient \in Member BY TransferType DEF Transfer
  <1>4. w \in SessionType /\ Sound(w, acked) BY CoreParts, FewerTransfersSound DEF SessionType
  <1>5. \A u \in game.transfers : u # t => u \in transfers OBVIOUS
  <1> HIDE DEF transfers
  <1>6. /\ w.controllers = game.controllers /\ w.members = game.members
        /\ w.roomRevision = game.roomRevision /\ w.offers = game.offers
        /\ w.load = game.load /\ w.pending = game.pending /\ w.epoch = game.epoch
        /\ w.startRequested = game.startRequested /\ w.point = game.point
        /\ w.status = game.status /\ w.transfers = transfers
    BY CoreParts DEF SessionType
  <1> HIDE DEF w
  <1>7. OffersFit(w) /\ LoadKept(w) BY <1>6, CoreParts DEF Fit, OffersFit, LoadKept
  <1>8. SameRoster(game, w) BY <1>6 DEF SameRoster
  <1>9. w.load.replacement = None =>
          \A x \in w.load.required \ (w.load.prepared \cup {Host, t.recipient}) :
            \E u \in w.transfers : u.recipient = x /\ u.purpose = "load"
    <2> SUFFICES ASSUME game.load.replacement = None,
                        NEW x \in game.load.required
                                    \ (game.load.prepared \cup {Host, t.recipient})
                 PROVE  \E u \in transfers : u.recipient = x /\ u.purpose = "load"
      BY <1>6
    <2>1. PICK u \in game.transfers : u.recipient = x /\ u.purpose = "load"
      BY <1>1, CoreParts DEF Fit, Staged
    <2> QED BY <1>5, <2>1
  <1> QED BY <1>1, <1>2, <1>4, <1>6, <1>7, <1>8, <1>9, PreparedWell

\* The prepared host.
LEMMA HostPreparedWell ==
  ASSUME Core, HostPrepared
  PROVE  Well
BY CoreParts, SessionAssumption, PreparedWell DEF HostPrepared, Loading, Idle, SameRoster, Fit,
   Staged

\* A failed synchronization fits.
LEMMA SyncFailedFit ==
  ASSUME NEW A, NEW g, Fit(g, A)
  PROVE  LET h == SyncFailed(g) IN Fit(h, A) /\ Steady(g, h)
BY AbortLoadFit, FailTransactionFit, StopFit DEF SyncFailed

\* A failed or an expired transfer fits, whatever it was for.
LEMMA TransferFailedFit ==
  ASSUME Inv, Core, NEW t \in game.transfers
  PROVE  /\ t.purpose = "live" \/ t.purpose = "controller" \/ t.purpose = "load"
         /\ t.purpose = "live" => /\ Fit(Without(game, t), acked)
                                  /\ Steady(game, Without(game, t))
         /\ t.purpose = "controller" => /\ Fit(SyncFailed(Without(game, t)), acked)
                                        /\ Steady(game, SyncFailed(Without(game, t)))
         /\ /\ Fit(AbortLoad(Without(game, t)), acked)
            /\ Steady(game, AbortLoad(Without(game, t)))
         /\ Fit(AbortLoad(game), acked) /\ Steady(game, AbortLoad(game))
  <1>2. t.purpose # "load" => Fit(Without(game, t), acked) /\ Steady(game, Without(game, t))
    BY CoreParts, WithoutFit
  <1>3. t.purpose = "controller" => /\ Fit(SyncFailed(Without(game, t)), acked)
                                    /\ Steady(game, SyncFailed(Without(game, t)))
    <2> SUFFICES ASSUME t.purpose = "controller"
                 PROVE  /\ Fit(SyncFailed(Without(game, t)), acked)
                        /\ Steady(game, SyncFailed(Without(game, t)))
      OBVIOUS
    <2> QED BY <1>2, SyncFailedFit, SteadyTwice
  <1>4. /\ Fit(AbortLoad(Without(game, t)), acked)
        /\ Steady(game, AbortLoad(Without(game, t)))
    BY CoreParts, AbortWithoutFit
  <1>5. Fit(AbortLoad(game), acked) /\ Steady(game, AbortLoad(game)) BY CoreParts, AbortLoadFit
  <1> QED BY TransferType, <1>2, <1>3, <1>4, <1>5 DEF Transfer, Purpose

\* checkpointFailed.
LEMMA CheckpointFailedWell ==
  ASSUME Inv, Core, NEW t \in game.transfers, CheckpointFailed(t)
  PROVE  Well
BY TransferFailedFit, SteadyAccept DEF CheckpointFailed

\* Every step of a transfer.
LEMMA TransferStepWell ==
  ASSUME Inv, Core, TransferStep
  PROVE  Well
  BY CapturedWell, ProgressWell, ObservedWell, ControllerAckWell, LoadAckWell,
     CheckpointFailedWell DEF TransferStep

-----------------------------------------------------------------------------
(* Commands of a coordinated load                                          *)

\* A proposed load.
LEMMA ProposedWell ==
  ASSUME Core, NEW point \in Point, NEW replacement \in Game \cup {None},
         NEW owners \in [Seat -> Owner], CanPropose(game),
         replacement = None => owners = game.controllers.owners,
         Accept(ProposeLoad(game, point, replacement, owners), room)
  PROVE  Well
  <1> DEFINE h == ProposeLoad(game, point, replacement, owners)
  <1>1. Coherent(h, acked) /\ SameRoster(game, h) /\ h.epoch = game.epoch
    BY CoreParts, ProposeLoadFit
  <1>2. game.load = None /\ game.pending = None BY DEF CanPropose
  <1>3. h.pending = game.pending BY CoreParts DEF ProposeLoad, Freeze, SessionType
  <1>4. Accept(h, room) OBVIOUS
  <1> HIDE DEF h
  <1>5. Agreed(h, room) BY <1>1, <1>2, <1>3, RosterAgreed
  <1> QED BY <1>1, <1>2, <1>4, <1>5, RosterAccept

\* gameLoadPropose, plain or of a replacement.
LEMMA ProposeWell ==
  ASSUME Core, NEW point \in Point, ProposePlain(point) \/ ProposeReplacement(point)
  PROVE  Well
  <1>1. CASE ProposePlain(point)
    BY CoreParts, <1>1, ProposedWell DEF SessionType, Assignment, ProposePlain
  <1>2. CASE ProposeReplacement(point)
    <2> DEFINE owners == ControllerOwners(WithCartridgeRoles(room, room.candidate.seats))
    <2>2. owners \in [Seat -> Owner] BY CoreParts, WithCartridgeRolesType, ControllerOwnersType
    <2>3. /\ CanPropose(game)
          /\ Accept(ProposeLoad(game, point, room.candidate, owners), room)
      BY <1>2 DEF ProposeReplacement
    <2> HIDE DEF owners
    <2> QED BY <1>2, CoreParts, <2>2, <2>3, ProposedWell DEF Room, ProposeReplacement
  <1> QED BY <1>1, <1>2

\* Reporting a boundary starts no transaction.
LEMMA BoundaryPlan ==
  ASSUME NEW A, NEW g, Fit(g, A), g.load # None, g.pending = None,
         NEW m \in Member, NEW point \in Point
  PROVE  LoadBoundary(g, m, point).pending = None
  <1> DEFINE reported == [g EXCEPT !.load.boundaries[m] = point,
                                   !.load.oldPoint = IF m = Host THEN point ELSE @]
  <1>1. g \in SessionType BY DEF Fit
  <1>2. reported.pending = None
    <2> DEFINE l == [g.load EXCEPT !.boundaries[m] = point,
                                   !.oldPoint = IF m = Host THEN point ELSE @]
    <2>1. reported = [g EXCEPT !.load = l] BY <1>1 DEF SessionType
    <2> HIDE DEF l, reported
    <2> QED BY <1>1, <2>1 DEF SessionType
  <1>3. StageLoad(reported).pending = reported.pending
    <2>1. "pending" \in DOMAIN reported BY <1>1 DEF SessionType
    <2> HIDE DEF reported
    <2> QED BY <2>1 DEF StageLoad
  <1>4. AbortLoad(g).pending = None BY AbortLoadFit DEF Steady, SamePlan
  <1> QED BY <1>2, <1>3, <1>4 DEF LoadBoundary

\* gameLoadBoundary.
LEMMA ReportBoundaryWell ==
  ASSUME Core, NEW m \in Member, NEW point \in Point, ReportBoundary(m, point)
  PROVE  Well
  <1> DEFINE h == LoadBoundary(game, m, point)
  <1>1. Accept(h, room) /\ game.load # None /\ game.load.phase = "freezing"
    BY DEF ReportBoundary, Loading, Idle
  <1>2. /\ Coherent(h, acked) /\ SameRoster(game, h) /\ h.epoch = game.epoch
        /\ Returns(game, h) \/ (h.load # None /\ InForce(h))
    BY <1>1, CoreParts, LoadBoundaryFit
  <1>3. game.pending = None BY <1>1, CoreParts DEF Sound, LoadAnchored
  <1>4. h.pending = None BY <1>1, <1>3, CoreParts, BoundaryPlan
  <1> HIDE DEF h
  <1>5. Agreed(h, room) BY <1>2, <1>4, RosterAgreed
  <1>6. CASE Returns(game, h) BY <1>1, <1>2, <1>5, <1>6, RosterAccept
  <1>7. CASE h.load # None /\ InForce(h) BY <1>1, <1>2, <1>5, <1>7, StandsWell
  <1> QED BY <1>2, <1>6, <1>7

\* A game command tells the session of the room, and leaves its assignment.
LEMMA AcceptCore ==
  ASSUME NEW g, Coherent(g, acked), NEW r \in Room, Handed(g, r.controllers),
         Agreed(g, r), Accept(g, r)
  PROVE  /\ Core' /\ game'.controllers = r.controllers /\ game'.epoch = g.epoch
         /\ room'.cartridge = r.cartridge
  <1> DEFINE s == Established(g, r)
  <1>1. s \in Room /\ SameGame(r, s) /\ Later(r, s) BY EstablishedSame
  <1>2. acked' = acked /\ Become(Publish(g, s), s) BY DEF Accept, Step
  <1> HIDE DEF s
  <1>3. s.controllers = r.controllers /\ s.cartridge = r.cartridge BY <1>1 DEF SameGame
  <1>4. Agreed(g, s) BY <1>1, AgreedLater DEF Coherent, Fit
  <1>5. Handed(g, s.controllers) BY <1>3
  <1> QED BY <1>3, <1>1, <1>2, <1>4, <1>5, PublishCore

\* replacementCommit(): a refused one leaves a session without the load, and an
\* accepted one a session without a timeline, in a room with another cartridge.
LEMMA CommitReplacementWell ==
  ASSUME Core, game.load # None, game.load.replacement # None, Unanimous(game.load),
         CommitReplacement(game.load.replacement)
  PROVE  Well
  <1> DEFINE replacement == game.load.replacement
             announced == AnnounceReplacement(game)
             chosen == SelectGame(room, replacement, TRUE)
             h == ReplaceGame(announced, chosen.controllers)
  <1>1. /\ Coherent(announced, acked) /\ SameRoster(game, announced)
        /\ announced.load = None /\ announced.epoch = game.epoch
    BY CoreParts, AnnounceReplacementFit
  <1>2. announced.pending = None
    BY CoreParts DEF Sound, LoadAnchored, AnnounceReplacement, SessionType
  <1>3. replacement \in Game /\ replacement # None BY CoreParts, LoadType DEF Load
  <1>4. EndsWell BY DEF EndsWell
  <1>5. \/ room.candidate # replacement /\ Step(announced, room)
        \/ room.candidate = replacement /\ Accept(h, chosen)
    BY DEF CommitReplacement
  <1> HIDE DEF announced, replacement
  <1>6. CASE Step(announced, room)
    BY <1>6, <1>1, CoreParts, <1>2, RosterAgreed, SameHands, <1>4 DEF Step, Become, Told,
       SameRoster, InForce, Standing, Core, Well
  <1>7. CASE room.candidate = replacement /\ Accept(h, chosen)
    <2>1. /\ room.cartridge < replacement.cartridge
          /\ replacement.cartridge <= room.offered
      BY <1>3, <1>7, CoreParts DEF Agreed, Shelf
    <2>2. /\ chosen \in Room /\ Shelf(chosen) /\ chosen.cartridge = replacement.cartridge
      BY <1>3, <2>1, CoreParts, SelectGameChanges
    <2> HIDE DEF chosen
    <2>3. chosen.controllers \in Assignment BY <2>2 DEF Room
    <2>4. /\ Coherent(h, acked) /\ h.controllers = chosen.controllers
          /\ h.startRequested = FALSE /\ h.epoch = 0
      BY <1>1, <2>3, ReplaceGameFit DEF Coherent, Fit
    <2> HIDE DEF h
    <2>5. h.pending = None BY <2>4 DEF Coherent, Fit, Sound, Anchored
    <2>6. Handed(h, chosen.controllers) BY <2>4 DEF Handed
    <2>7. Agreed(h, chosen) BY <2>2, <2>4, <2>5 DEF Agreed, Planned
    <2>8. Core' /\ game'.epoch = 0 /\ room'.cartridge = replacement.cartridge
      BY <1>7, <2>2, <2>4, <2>6, <2>7, AcceptCore
    <2>9. room'.cartridge # room.cartridge BY <1>3, CoreParts, <2>1, <2>8 DEF Room, Game
    <2>10. HandsWell BY <2>8, <2>9 DEF HandsWell
    <2> QED BY <1>4, <2>8, <2>10 DEF Well
  <1> QED BY <1>5, <1>6, <1>7

\* gameLoadCommitted by one of several.
LEMMA PartlyCommittedWell ==
  ASSUME Core, NEW m \in Member, game.load # None, game.load.phase = "committing",
         Accept([game EXCEPT !.load.committed = @ \cup {m}], room)
  PROVE  Well
  <1> DEFINE l == [game.load EXCEPT !.committed = @ \cup {m}]
             h == [game EXCEPT !.load = l]
  <1>1. Accept(h, room) BY CoreParts DEF SessionType
  <1>2. game.load \in Load BY CoreParts, LoadType
  <1>3. /\ l \in Load /\ SameAnchor(l, game.load) /\ SameDeal(l, game.load)
        /\ l.initial = game.load.initial /\ l.phase = game.load.phase
        /\ l.prepared = game.load.prepared /\ l.required = game.load.required
        /\ l.oldPoint = game.load.oldPoint /\ l.oldEpoch = game.load.oldEpoch
    BY <1>2 DEF Load, SameAnchor, SameDeal
  <1>4. l # None BY <1>3, NoneAssumption
  <1> HIDE DEF l
  <1>6. l.required \subseteq l.prepared BY <1>3, CoreParts DEF Prepared, Standing
  <1>7. l.phase # "staging" BY <1>3
  <1>8. /\ Coherent(h, acked) /\ SameRoster(game, h) /\ h.load = l
        /\ h.epoch = game.epoch
    BY <1>3, CoreParts, <1>6, <1>7, LoadStepFit DEF Fit, LoadKept
  <1> HIDE DEF h
  <1>9. Returns(game, h) BY <1>3, <1>4, <1>8 DEF Returns
  <1>10. h.pending = None BY <1>4, <1>8 DEF Coherent, Fit, Sound, LoadAnchored
  <1>11. Agreed(h, room) BY <1>8, <1>10, RosterAgreed
  <1> QED BY <1>1, <1>8, <1>9, <1>11, RosterAccept

\* The last gameLoadCommitted of a load that keeps the cartridge.
LEMMA FinishLoadWell ==
  ASSUME Core, game.load # None, Unanimous(game.load),
         Accept(FinishLoad(game), [room EXCEPT !.started = TRUE, !.established = TRUE])
  PROVE  Well
  <1> DEFINE h == FinishLoad(game)
             r == [room EXCEPT !.started = TRUE, !.established = TRUE]
  <1>1. Accept(h, r) OBVIOUS
  <1>2. r \in Room BY CoreParts, BegunRoomType
  <1>3. /\ r.started /\ r.controllers = room.controllers /\ r.cartridge = room.cartridge
        /\ r.offered = room.offered /\ r.candidate = room.candidate
    BY CoreParts DEF Room
  <1>4. Coherent(h, acked) /\ SameRoster(game, h) /\ h.load = None /\ h.epoch # 0
    BY CoreParts, FinishLoadFit
  <1>5. h.pending = None BY CoreParts DEF Sound, LoadAnchored, FinishLoad, BeginAt, SessionType
  <1> HIDE DEF h, r
  <1>6. Handed(h, r.controllers) BY <1>3, <1>4, CoreParts DEF Handed, SameRoster, Told
  <1>7. Shelf(r) BY <1>3, CoreParts DEF Agreed, Shelf
  <1>8. Agreed(h, r) BY <1>3, <1>4, <1>5, <1>7 DEF Agreed, Planned
  <1>9. Core' /\ game'.controllers = room.controllers
    BY <1>1, <1>2, <1>3, <1>4, <1>6, <1>8, AcceptCore
  <1>10. EndsWell BY DEF EndsWell
  <1>11. HandsWell BY <1>9, SameHands
  <1> QED BY <1>9, <1>10, <1>11 DEF Well

\* gameLoadCommitted: the last commitment follows those of all other members,
\* each of whom had prepared the load.
LEMMA CommittedWell ==
  ASSUME Core, NEW m \in Member, Committed(m)
  PROVE  Well
  <1>1. game.load # None /\ game.load.phase = "committing" /\ m \in game.load.required
    BY DEF Committed, Loading, Idle
  <1>2. ASSUME LoadComplete(game, m) PROVE Unanimous(game.load)
    BY <1>1, CoreParts, <1>2 DEF Prepared, Standing, LoadComplete, Unanimous
  <1>3. CASE ~LoadComplete(game, m) BY <1>3, <1>1, PartlyCommittedWell DEF Committed
  <1>4. CASE LoadComplete(game, m) /\ game.load.replacement = None
    BY <1>4, <1>1, <1>2, FinishLoadWell DEF Committed
  <1>5. CASE LoadComplete(game, m) /\ game.load.replacement # None
    BY <1>5, <1>1, <1>2, CommitReplacementWell DEF Committed
  <1> QED BY <1>3, <1>4, <1>5

\* gameLoadFailed, and gameLoadRolledBack.
LEMMA LoadEndsWell ==
  ASSUME Core, NEW m \in Member, LoadFailed(m) \/ RolledBack(m)
  PROVE  Well
BY CoreParts, AbortLoadFit, SteadyAccept, LoadRolledBackFit DEF LoadFailed, RolledBack, Loading,
   Idle

\* Every step of a load.
LEMMA LoadStepWell ==
  ASSUME Core, LoadStep
  PROVE  Well
  BY ProposeWell, ReportBoundaryWell, HostPreparedWell, CommittedWell, LoadEndsWell
     DEF LoadStep

-----------------------------------------------------------------------------
(* Timers                                                                  *)

\* The deadline of a load.
LEMMA LoadTimerWell ==
  ASSUME Core, LoadTimer
  PROVE  Well
BY CoreParts, FinishLoadRollbackFit, AbortLoadFit, SteadyAccept DEF LoadTimer

\* The deadline of a transfer, published or not.
LEMMA TransferTimerWell ==
  ASSUME Inv, Core, NEW t \in game.transfers, TransferTimer(t)
  PROVE  Well
BY TransferFailedFit, SteadyAccept, SteadySilent DEF TransferTimer

\* The end of the countdown.
LEMMA StartTimerWell ==
  ASSUME Core, StartTimer
  PROVE  Well
  <1> DEFINE h == [game EXCEPT !.hasPlayed = TRUE, !.interruption = None,
                               !.restored = FALSE, !.status = "playing",
                               !.startRequested = FALSE]
  <1>1. Accept(h, room) /\ game.status = "countdown" BY DEF StartTimer
  <1>2. h \in SessionType BY CoreParts DEF SessionType, Status
  <1>3. /\ h.controllers = game.controllers /\ h.members = game.members
        /\ h.roomRevision = game.roomRevision /\ h.load = game.load
        /\ h.pending = game.pending /\ h.epoch = game.epoch /\ h.point = game.point
        /\ h.proposed = game.proposed /\ h.status = "playing" /\ ~h.startRequested
        /\ h.required = game.required /\ h.transfers = game.transfers
    BY CoreParts DEF SessionType
  <1> HIDE DEF h
  <1>4. game.load = None BY <1>1, CoreParts DEF Fit, LoadKept, Resting
  <1>5. Sound(h, acked) BY <1>1, <1>3, CoreParts DEF Sound, Anchored, LoadAnchored, Acked, Running
  <1>6. OffersFit(h) /\ LoadKept(h) /\ Staged(h)
    BY <1>3, <1>4 DEF OffersFit, LoadKept, Staged, Running
  <1>7. Coherent(h, acked)
    BY <1>2, <1>3, <1>4, <1>5, <1>6 DEF Coherent, Fit, OnTerms, Prepared, Standing
  <1>8. SameRoster(game, h) BY <1>3 DEF SameRoster
  <1>9. Agreed(h, room) BY <1>3, CoreParts DEF Agreed, Planned
  <1> QED BY <1>1, <1>4, <1>7, <1>8, <1>9, RosterAccept

\* The deadline of a barrier.
LEMMA BarrierTimerWell ==
  ASSUME Core, BarrierTimer
  PROVE  Well
BY CoreParts, FailTransactionFit, SteadyAccept, StopFit DEF BarrierTimer, Sound, LoadAnchored

\* Every step of the sweep.
LEMMA TimerStepWell ==
  ASSUME Inv, Core, TimerStep
  PROVE  Well
  BY LoadTimerWell, StartTimerWell, BarrierTimerWell, TransferTimerWell DEF TimerStep

-----------------------------------------------------------------------------
(* The initial states, and the theorems                                    *)

\* A room created for a game is on the shelf it will choose from.
LEMMA NewRoomShelf ==
  ASSUME NEW cartridge \in Nat, NEW loaded \in SUBSET Member
  PROVE  Shelf(NewRoom(cartridge, loaded))
  <1> DEFINE r == NewRoom(cartridge, loaded)
  <1>1. r.cartridge = cartridge /\ r.offered = cartridge /\ r.candidate = None
    BY DEF NewRoom, Assembled
  <1> HIDE DEF r
  <1>2. Shelf(r) BY <1>1 DEF Shelf
  <1> QED BY <1>2 DEF r

\* The initial states agree.
LEMMA InitCore ==
  ASSUME Init
  PROVE  Core
  <1>1. PICK c \in Nat, loaded \in SUBSET Member : room = NewRoom(c, loaded)
    BY AssembledType DEF Init, InitialRooms
  <1>2. room \in Room /\ Shelf(room) BY <1>1, NewRoomType, NewRoomShelf
  <1>3. /\ NewSession.load = None /\ NewSession.pending = None /\ NewSession.epoch = 0
        /\ NewSession.offers = NoOffers /\ NewSession.startRequested = FALSE
    BY DEF NewSession
  <1>4. Coherent(NewSession, {}) BY <1>3, NewSessionSound, EmptyCoherent
  <1>5. Handed(NewSession, room.controllers) BY <1>3 DEF Handed
  <1> DEFINE p == Publish(NewSession, room)
             h == [p EXCEPT !.announced = room.cartridge]
  <1>6. /\ Fit(p, {}) /\ Coherent(p, {}) /\ InForce(p) /\ Told(p, room)
        /\ SamePlan(NewSession, p) /\ p.epoch = 0 /\ ~p.startRequested
    BY <1>2, <1>3, <1>4, <1>5, PublishedFit
  <1>7. game = h /\ acked = {} BY DEF Init
  <1> HIDE DEF p
  <1>8. p.pending = None BY <1>3, <1>6 DEF SamePlan
  <1>9. /\ h.controllers = p.controllers /\ h.members = p.members
        /\ h.roomRevision = p.roomRevision /\ h.offers = p.offers
        /\ h.load = p.load /\ h.pending = p.pending /\ h.epoch = p.epoch
        /\ h.hasPlayed = p.hasPlayed /\ h.startRequested = p.startRequested
        /\ h.point = p.point /\ h.proposed = p.proposed /\ h.status = p.status
        /\ h.required = p.required /\ h.acks = p.acks /\ h.transfers = p.transfers
    BY <1>6 DEF Fit, SessionType
  <1>10. h \in SessionType BY <1>2, <1>6 DEF Room, Fit, SessionType
  <1> HIDE DEF h
  <1>11. Sound(h, {}) BY <1>6, <1>9, <1>10, GoingOnSound DEF Fit
  <1>12. OffersFit(h) BY <1>6, <1>9 DEF Fit, OffersFit
  <1>13. LoadKept(h) /\ Staged(h) BY <1>6, <1>9 DEF Fit, LoadKept, Staged
  <1>14. OnTerms(h) /\ Prepared(h) BY <1>6, <1>9 DEF Coherent, OnTerms, Prepared, Standing, Owners
  <1>15. InForce(h) BY <1>6, <1>9 DEF InForce, Standing, Available, Owners
  <1>16. Told(h, room) BY <1>6, <1>9 DEF Told
  <1>17. Agreed(h, room) BY <1>2, <1>6, <1>8, <1>9 DEF Agreed, Planned
  <1>18. Coherent(h, {}) BY <1>10, <1>11, <1>12, <1>13, <1>14 DEF Coherent, Fit
  <1> QED BY <1>2, <1>7, <1>15, <1>16, <1>17, <1>18 DEF Core

\* Every step.
LEMMA NextWell ==
  ASSUME Inv, Core, Next
  PROVE  Well
  BY RosterStepWell, SelectionStepWell, CommandStepWell, TransferStepWell,
     LoadStepWell, TimerStepWell DEF Next

\* A step keeps the session and its room in agreement.
LEMMA StepCore ==
  ASSUME Inv, Core, [Next]_vars
  PROVE  Core'
BY NextWell, CoreParts DEF Well, vars, Core

\* The session was told of the room as it is, and what it holds was made for it.
THEOREM CoreHolds == Spec => []Core
  <1>1. Init => Core BY InitCore
  <1>2. Inv /\ Core /\ [Next]_vars => Core' BY StepCore
  <1> QED BY <1>1, <1>2, InvHolds, PTL DEF Spec

\* Whenever the session may act on offers, each was made for the assignment in
\* force and, before the first epoch, for the roster in force: publish() drops
\* the others in the very handler that changes either.
THEOREM OffersStayCurrent == Spec => []OffersCurrent
  <1>1. Core => OffersCurrent BY CoreParts DEF Fit, OffersFit, OffersCurrent, Running
  <1> QED BY <1>1, CoreHolds, PTL

\* From gameLoadPropose until a load ends, the epoch, the assignment and the
\* frame it may return to are in force.
THEOREM LoadKeepsTimeline == Spec => []LoadHoldsTimeline
  <1>1. Core => LoadHoldsTimeline
    BY CoreParts
    DEF Fit, Sound, LoadAnchored, LoadKept, Resting, InForce, Standing, LoadHoldsTimeline
  <1> QED BY <1>1, CoreHolds, PTL

\* A staged load has the transfer of every guest it waits for, whatever was in
\* transfer before it was staged, and whoever aborts, leaves or is lost meanwhile.
THEOREM StagingAnswered == Spec => []StagingCanFinish
  <1>1. Core => StagingCanFinish BY CoreParts DEF Fit, Staged, StagingCanFinish, Loading, Idle
  <1> QED BY <1>1, CoreHolds, PTL

\* A load that ends was prepared and committed by every member it required, or
\* the previous timeline is back in force with the cartridge it had.
THEOREM LoadsEndWell == Spec => LoadAllOrNothing
  <1>1. Inv /\ Core /\ [Next]_vars =>
          [game.load # None /\ game'.load = None =>
             Unanimous(game.load) \/ Restored(game.load)]_vars
    <2> SUFFICES ASSUME Inv, Core, Next
                 PROVE  game.load # None /\ game'.load = None =>
                          Unanimous(game.load) \/ Restored(game.load)
      OBVIOUS
    <2> QED BY NextWell DEF Well, EndsWell
  <1> QED BY <1>1, InvHolds, CoreHolds, PTL DEF Spec, LoadAllOrNothing

\* Once there is a timeline, the assignment changes only with the roster of a
\* running game, by a transaction that commits exactly the owners it proposed for
\* a roster that did not move on, or with a replaced cartridge.
THEOREM AuthorityIsKept == Spec => AuthorityChanges
  <1>1. Inv /\ Core /\ [Next]_vars =>
          [game.epoch # 0 /\ game'.controllers # game.controllers =>
             \/ RosterDuringPlay
             \/ ProposedCommits
             \/ game'.epoch = 0 /\ room'.cartridge # room.cartridge]_vars
    <2> SUFFICES ASSUME Inv, Core, Next
                 PROVE  game.epoch # 0 /\ game'.controllers # game.controllers =>
                          \/ RosterDuringPlay
                          \/ ProposedCommits
                          \/ game'.epoch = 0 /\ room'.cartridge # room.cartridge
      OBVIOUS
    <2> QED BY NextWell DEF Well, HandsWell
  <1> QED BY <1>1, InvHolds, CoreHolds, PTL DEF Spec, AuthorityChanges
=============================================================================
