------------------------------ MODULE InputLease ------------------------------
(***************************************************************************)
(* How a guest's buttons reach the frames of the host.  The host leases    *)
(* input to each guest that owns a controller, for a short time and for    *)
(* one connection and one assignment of controllers; the guest sends its   *)
(* controls under the lease; the host plays what is valid at the frame.    *)
(* Meanwhile the link breaks and comes back, the guest is taken out of the *)
(* run and synchronized again, and departures reassign the controllers.    *)
(*                                                                         *)
(* GameScheduler keeps leases and controls per member, so one guest shows  *)
(* it all; other members appear as assignments that change.  Time is what  *)
(* is left of a lease.  The identity of a lease is random in the code:     *)
(* here it is one that nobody remembers.  The sequence number of an input  *)
(* only excludes duplicates, which an ordered channel does not deliver.    *)
(* A transfer of a checkpoint is module Timeline; here it is a stage.      *)
(***************************************************************************)
EXTENDS Integers, Sequences, SequencesExt

CONSTANTS
  None,
  Button,
  LeaseTicks,   \* how long a lease lasts
  RenewTicks,   \* after how long the next one is issued
  Courses,      \* the assignments of a run: the guest's controller, 0 if none
  MaxLink,      \* bound on the connections
  MaxSync,      \* bound on the transfers
  MaxFlight     \* bound on the packets of a channel, which counts as full then

ASSUME LeaseAssumption ==
  /\ LeaseTicks \in Nat \ {0} /\ RenewTicks \in 1..LeaseTicks
  /\ MaxLink \in Nat /\ MaxSync \in Nat /\ MaxFlight \in Nat \ {0}

\* Players press one button at a time here: a chord is one nobody pressed.
Neutral == {}
Mask == {Neutral} \cup {{b} : b \in Button}

\* What the host holds of a guest's input; "None" is no lease, press or control.
Terms == 0..LeaseTicks
Lease == [id : Nat, gen : Nat, rev : Nat, left : Terms, old : BOOLEAN]
Press == [mask : Mask, left : Terms, age : Terms]
Control == [held : Mask, press : Press \cup {None}, left : Terms, rev : Nat,
            old : BOOLEAN, age : Terms]

ASSUME NoneAssumption == None \notin Lease \cup Press \cup Control

VARIABLES
  course,    \* the slots the guest is assigned, one revision after another
  revision,  \* the current one, as the coordinator has it
  host,      \* the host's scheduler and its link to the guest
  guest,     \* the guest's side
  up, down,  \* inputs and leases on their way, with their connection
  sync,      \* the stage of the guest's checkpoint transfer
  toHost,    \* events of the coordinator about it
  drawn      \* connections and transfers made so far

vars == <<course, revision, host, guest, up, down, sync, toHost, drawn>>
-----------------------------------------------------------------------------
(* The host: GameScheduler for the guest, and its link.                    *)

Owns(slot) == slot # 0
\* Mutation: the leases of a member outlive its controls.
RevokeControls(h) == [h EXCEPT !.control = None, !.accepted = 0]
Revoke(h) == [h EXCEPT !.control = None, !.leases = <<>>, !.accepted = 0]

\* applyAssignment: at a boundary; one that moved starts afresh.
\* Mutation: a member that moved keeps what it held.
ApplyKeepingControls(h) ==
  IF h.pending = None THEN h
  ELSE [h EXCEPT !.pending = None, !.rev = h.pending.rev, !.slot = h.pending.slot,
                 !.leases = IF h.rev = h.pending.rev THEN @ ELSE <<>>]
ApplyAssignment(h) ==
  IF h.pending = None THEN h
  ELSE LET cleared == IF h.pending.rev = h.rev THEN h ELSE [h EXCEPT !.leases = <<>>]
           settled == IF h.accepted # 0 /\ h.slot # h.pending.slot THEN Revoke(cleared) ELSE cleared
       IN [settled EXCEPT !.pending = None, !.rev = h.pending.rev, !.slot = h.pending.slot]

Configure(h, rev, slot) ==
  LET asked == [h EXCEPT !.pending = [rev |-> rev, slot |-> slot]]
  IN IF h.busy THEN asked ELSE ApplyAssignment(asked)

Known == {host.leases[i].id : i \in DOMAIN host.leases} \cup {down[i].id : i \in DOMAIN down}
           \cup {up[i].id : i \in DOMAIN up} \cup (IF guest.lease = None THEN {} ELSE {guest.lease.id})
FreshId == CHOOSE n \in 1..(1 + Len(host.leases) + Len(down) + Len(up) + 1) : n \notin Known

\* A lease that is over counts nowhere: it is dropped when its time is up.
\* They are issued one after another, so that only the first can be.
Unexpired(leases) ==
  IF leases # <<>> /\ Head(leases).left = 0 THEN Tail(leases) ELSE leases

\* Mutation: a new lease replaces those before it.
GrantForgets(h) ==
  LET lease == [id |-> FreshId, gen |-> h.gen, rev |-> h.rev, left |-> LeaseTicks, old |-> FALSE]
  IN IF h.leases # <<>> /\ LeaseTicks - Last(h.leases).left < RenewTicks THEN h
     ELSE [h EXCEPT !.leases = <<lease>>]
\* grant: one new lease per interval, and every earlier one keeps its term.
Grant(h) ==
  LET before == IF h.accepted # 0 THEN h.accepted
                ELSE IF h.leases # <<>> THEN Last(h.leases).gen ELSE h.gen
      own    == IF before = h.gen THEN h ELSE Revoke(h)
      lease  == [id |-> FreshId, gen |-> h.gen, rev |-> h.rev, left |-> LeaseTicks, old |-> FALSE]
  IN IF own.leases # <<>> /\ LeaseTicks - Last(own.leases).left < RenewTicks
     THEN own
     ELSE [own EXCEPT !.leases = Append(own.leases, lease)]

\* renewInputs: for a link that is ready and drains.
Due(h) ==
  /\ h.gen # 0 /\ h.ready /\ Owns(h.slot)
  /\ Len(down) < MaxFlight
  /\ ~(h.since < RenewTicks /\ h.leases # <<>>)
Renewed(h) == IF Due(h) THEN [Grant(h) EXCEPT !.since = 0] ELSE h
Leasing(h) ==
  IF Due(h) THEN Append(down, Last(Renewed(h).leases)) ELSE down

\* acceptInput: the newest press is played once, then what is held.
Valid(lease, packet) ==
  lease.id = packet.id /\ lease.gen = packet.gen
Accepts(h, packet) ==
  /\ packet.rev = h.rev
  /\ \E i \in DOMAIN h.leases : Valid(h.leases[i], packet) /\ h.leases[i].left > 0
Accepted(h, packet) ==
  LET i     == CHOOSE n \in DOMAIN h.leases : Valid(h.leases[n], packet)
      left  == h.leases[i].left
      c     == h.control
      held  == IF c # None /\ c.left > 0 THEN c.held ELSE Neutral
      press == IF packet.mask \ held # {} THEN [mask |-> packet.mask, left |-> left, age |-> packet.age]
               ELSE IF c # None /\ c.press # None /\ c.press.left > 0 THEN c.press ELSE None
  IN [h EXCEPT !.accepted = packet.gen,
               !.control = [held |-> packet.mask, press |-> press, left |-> left,
                            rev |-> packet.rev, old |-> packet.old, age |-> packet.age]]

\* What the guest's controller is in a frame.
\* Mutation: what is held lasts until the guest says otherwise.
Pressed(c) == c.press # None /\ c.press.left > 0
HeldOnAndOn(c) == IF Pressed(c) THEN c.press.mask ELSE c.held
Played(c) ==
  IF Pressed(c) THEN c.press.mask
  ELSE IF c.left > 0 THEN c.held ELSE Neutral

\* History: inputs and leases that were on their way when the guest lost control.
Outdated(box) == [i \in DOMAIN box |-> [box[i] EXCEPT !.old = TRUE]]
LosesControl(g) ==
  /\ up' = Outdated(up) /\ down' = Outdated(down)
  /\ guest' = IF g.lease = None THEN g ELSE [g EXCEPT !.lease.old = TRUE]

\* gameResynchronize and gameObserve: an open transfer is kept.
Opens == sync = "none" /\ drawn.sync < MaxSync
Open ==
  IF Opens
  THEN sync' = "asked" /\ toHost' = Append(toHost, "capture") /\ drawn' = [drawn EXCEPT !.sync = @ + 1]
  ELSE UNCHANGED <<sync, toHost, drawn>>

Isolated(h) == [Revoke(h) EXCEPT !.ready = FALSE, !.recovering = @ \/ h.gen # 0]
Isolate(h, g) ==
  /\ host' = Isolated(h)
  /\ LosesControl(g)
  /\ IF h.gen # 0 /\ ~h.recovering THEN Open ELSE UNCHANGED <<sync, toHost, drawn>>

\* The sampling timer of the player: sampleControls of the authority.
HostRenews ==
  /\ Due(host)
  /\ host' = Renewed(host)
  /\ down' = Leasing(host)
  /\ UNCHANGED <<course, revision, guest, up, sync, toHost, drawn>>

\* next(): sample and renew, then choose the masks of the frame.
HostDispatch ==
  /\ ~host.busy
  /\ down' = Leasing(host)
  /\ LET h == ApplyAssignment(Renewed(host))
         c == IF Owns(h.slot) THEN h.control ELSE None
     IN host' = [h EXCEPT !.busy = TRUE,
             !.control = IF c = None THEN @ ELSE IF c.left = 0 THEN None ELSE [c EXCEPT !.press = None]]
  /\ UNCHANGED <<course, revision, guest, up, sync, toHost, drawn>>

HostCommit ==
  /\ host.busy
  /\ host' = ApplyAssignment([host EXCEPT !.busy = FALSE])
  /\ UNCHANGED <<course, revision, guest, up, down, sync, toHost, drawn>>

\* receive: a packet of an earlier connection is not delivered any more.
HostReceive ==
  /\ up # <<>>
  /\ LET packet == Head(up)
         read   == host.gen = packet.gen
     IN IF read /\ ~Owns(host.slot)
        THEN /\ host' = Isolated(host)
             /\ up' = Outdated(Tail(up)) /\ UNCHANGED <<down, guest>>
             /\ IF host.recovering THEN UNCHANGED <<sync, toHost, drawn>> ELSE Open
        ELSE /\ host' = IF read /\ Accepts(host, packet) THEN Accepted(host, packet) ELSE host
             /\ up' = Tail(up)
             /\ UNCHANGED <<down, guest, sync, toHost, drawn>>
  /\ UNCHANGED <<course, revision>>

\* enter: the next view of the room, with its assignment.
HostEnters ==
  /\ host.at < revision
  /\ LET at       == host.at + 1
         h        == [Configure([host EXCEPT !.at = at], at, course[at]) EXCEPT !.since = RenewTicks]
         promoted == h.gen # 0 /\ Owns(course[at]) /\ ~Owns(course[host.at])
     IN IF promoted THEN Isolate(h, guest)
        ELSE /\ host' = [h EXCEPT !.ready = @ /\ ~h.recovering]
             /\ UNCHANGED <<guest, up, down, sync, toHost, drawn>>
  /\ UNCHANGED <<course, revision>>

\* gameCapture, gameLive and gameSyncStop.
HostEvent ==
  /\ toHost # <<>>
  /\ toHost' = Tail(toHost)
  /\ CASE Head(toHost) = "capture" ->
            /\ host' = [Revoke(host) EXCEPT !.ready = FALSE, !.outgoing = @ \/ host.gen # 0]
            /\ LosesControl(guest)
            /\ sync' = IF sync = "asked" /\ host.gen # 0 THEN "sent" ELSE sync
       [] Head(toHost) = "live" ->
            LET ready == [host EXCEPT !.outgoing = FALSE, !.ready = TRUE, !.recovering = FALSE,
                                      !.since = RenewTicks]
            IN IF host.outgoing /\ host.gen # 0
               THEN host' = Renewed(ready) /\ down' = Leasing(ready) /\ UNCHANGED <<guest, up, sync>>
               ELSE UNCHANGED <<host, down, guest, up, sync>>
       [] OTHER -> host' = [host EXCEPT !.outgoing = FALSE] /\ UNCHANGED <<down, guest, up, sync>>
  /\ UNCHANGED <<course, revision, drawn>>

\* A guest that differs, or that did not drain its channel, is isolated.
HostIsolates ==
  /\ host.gen # 0 /\ ~host.recovering /\ Opens
  /\ Isolate(host, guest)
  /\ UNCHANGED <<course, revision>>

\* syncStop: the transfer failed, timed out or lost its recipient.
Stopped ==
  /\ sync' = "none"
  /\ toHost' = IF sync = "none" THEN toHost ELSE Append(toHost, "stop")

\* closed: the host lost the channel.
HostLoses ==
  /\ host.gen # 0
  /\ host' = [Revoke(host) EXCEPT !.gen = 0, !.ready = FALSE, !.recovering = FALSE, !.outgoing = FALSE]
  /\ LosesControl(guest)
  /\ IF host.outgoing THEN Stopped ELSE UNCHANGED <<sync, toHost>>
  /\ UNCHANGED <<course, revision, drawn>>
-----------------------------------------------------------------------------
(* The guest.                                                              *)

\* sampleControls: under a lease of this connection and this assignment. History:
\* an input carries what is left of its lease.
MaySend(g) ==
  /\ g.mode # "out" /\ g.lease # None /\ g.gen # 0
  /\ g.lease.gen = g.gen /\ g.lease.rev = g.at /\ Owns(course[g.at])
Input(g, mask) ==
  [gen |-> g.gen, id |-> g.lease.id, rev |-> g.lease.rev, mask |-> mask,
   left |-> g.lease.left, old |-> g.lease.old, age |-> 0]

\* A channel that does not drain costs the lease.
Sends(g, mask) ==
  IF Len(up) >= MaxFlight
  THEN guest' = [g EXCEPT !.lease = None] /\ UNCHANGED up
  ELSE /\ guest' = g
       /\ up' = Append(up, Input(g, mask))

\* What is held changes, or it is time for a heartbeat.  Losing the focus, which
\* also takes back an unplayed press, is left out.
GuestSamples ==
  /\ MaySend(guest)
  /\ \E mask \in Mask : Sends(guest, mask)
  /\ UNCHANGED <<course, revision, host, down, sync, toHost, drawn>>

Takes(g, lease) == g.mode = "live" /\ lease.gen = g.gen /\ lease.rev = g.at
\* A lease: the controls of this moment are sent under it at once.
GuestReceives ==
  /\ down # <<>>
  /\ down' = Tail(down)
  /\ LET lease == Head(down)
         g     == [guest EXCEPT !.lease = lease]
     IN IF Takes(guest, lease) /\ Owns(course[guest.at])
        THEN \E mask \in Mask : Sends(g, mask)
        ELSE guest' = (IF Takes(guest, lease) THEN g ELSE guest) /\ UNCHANGED up
  /\ UNCHANGED <<course, revision, host, sync, toHost, drawn>>

GuestEnters ==
  /\ guest.at < revision
  /\ guest' = [guest EXCEPT !.at = @ + 1, !.lease = None]
  /\ UNCHANGED <<course, revision, host, up, down, sync, toHost, drawn>>

\* closed, and with it clear.
GuestLoses ==
  /\ guest.gen # 0
  /\ guest' = [guest EXCEPT !.gen = 0, !.mode = "out", !.lease = None]
  /\ UNCHANGED <<course, revision, host, up, down, sync, toHost, drawn>>

\* ready, at both ends of a new connection.
Connect ==
  /\ host.gen = 0 /\ guest.gen = 0
  /\ drawn.link < MaxLink
  /\ drawn' = [drawn EXCEPT !.link = @ + 1]
  /\ host' = [host EXCEPT !.gen = drawn.link + 1, !.ready = TRUE, !.recovering = FALSE,
                          !.since = RenewTicks]
  /\ guest' = [guest EXCEPT !.gen = drawn.link + 1]
  /\ UNCHANGED <<course, revision, up, down, sync, toHost>>

GuestObserves ==
  /\ guest.mode = "out" /\ guest.gen # 0 /\ Opens
  /\ Open
  /\ UNCHANGED <<course, revision, host, guest, up, down>>

\* beginIncoming, install and finishCatchup.
GuestSynchronizes ==
  /\ UNCHANGED <<course, revision, host, up, down, drawn>>
  /\ \/ /\ sync = "sent" /\ sync' = "begun"
        /\ guest' = [guest EXCEPT !.mode = "out"]
        /\ UNCHANGED toHost
     \/ /\ sync = "begun" /\ guest.gen # 0 /\ sync' = "installed"
        /\ guest' = [guest EXCEPT !.mode = "catching", !.lease = None]
        /\ UNCHANGED toHost
     \/ /\ sync = "installed" /\ guest.mode = "catching" /\ sync' = "none"
        /\ guest' = [guest EXCEPT !.mode = "live"]
        /\ toHost' = Append(toHost, "live")

SyncStops ==
  /\ sync # "none"
  /\ Stopped
  /\ guest' = IF sync \in {"begun", "installed"} THEN [guest EXCEPT !.mode = "out"] ELSE guest
  /\ UNCHANGED <<course, revision, host, up, down, drawn>>
-----------------------------------------------------------------------------
\* Members leave, and controllers move on (releaseMember, publishRosterChange).
Reassign ==
  /\ revision < Len(course)
  /\ revision' = revision + 1
  /\ UNCHANGED <<course, host, guest, up, down, sync, toHost, drawn>>

Less(n) == IF n = 0 THEN 0 ELSE n - 1
Older(n) == IF n = LeaseTicks THEN n ELSE n + 1
Aged(c) ==
  IF c = None THEN None
  ELSE [c EXCEPT !.left = Less(@), !.age = Older(@),
                 !.press = IF c.press = None THEN None ELSE [c.press EXCEPT !.left = Less(@), !.age = Older(@)]]
Shorter(lease) == [lease EXCEPT !.left = Less(@)]
\* The term of a lease runs at the host and, as history, wherever a copy of it is.
Tick ==
  /\ host' = [host EXCEPT !.leases = Unexpired([i \in DOMAIN host.leases |-> Shorter(host.leases[i])]),
                          !.control = Aged(@),
                          !.since = IF @ = RenewTicks THEN @ ELSE @ + 1]
  /\ up' = [i \in DOMAIN up |-> [up[i] EXCEPT !.left = Less(@), !.age = Older(@)]]
  /\ down' = [i \in DOMAIN down |-> Shorter(down[i])]
  /\ guest' = IF guest.lease = None THEN guest ELSE [guest EXCEPT !.lease = Shorter(@)]
  /\ UNCHANGED <<course, revision, sync, toHost, drawn>>

\* gameStart: the players run, a watcher still has to observe.
Init ==
  /\ course \in Courses
  /\ revision = 1
  /\ LET owns == Owns(course[1]) IN
     /\ host = [at |-> 1, rev |-> 1, slot |-> course[1], pending |-> None, busy |-> FALSE,
                leases |-> <<>>, control |-> None, accepted |-> 0, gen |-> 1, ready |-> owns,
                recovering |-> FALSE, since |-> RenewTicks, outgoing |-> FALSE]
     /\ guest = [at |-> 1, gen |-> 1, mode |-> IF owns THEN "live" ELSE "out", lease |-> None]
  /\ up = <<>> /\ down = <<>>
  /\ sync = "none" /\ toHost = <<>> /\ drawn = [link |-> 1, sync |-> 0]

Next ==
  \/ HostRenews \/ HostDispatch \/ HostCommit \/ HostReceive \/ HostEnters \/ HostEvent
  \/ HostIsolates \/ HostLoses
  \/ GuestSamples \/ GuestReceives \/ GuestEnters \/ GuestLoses \/ Connect \/ GuestObserves
  \/ GuestSynchronizes \/ SyncStops
  \/ Reassign \/ Tick

\* Timers and event loops run, and channels deliver.
Fairness ==
  /\ WF_vars(Tick)
  /\ WF_vars(HostRenews) /\ WF_vars(HostReceive) /\ WF_vars(HostEnters) /\ WF_vars(HostEvent)
  /\ WF_vars(HostCommit)
  /\ WF_vars(GuestReceives) /\ WF_vars(GuestEnters)

Spec == Init /\ [][Next]_vars /\ Fairness
-----------------------------------------------------------------------------
\* Every variable has its type; leases are few and end one after another.
TypeOK ==
  /\ revision \in DOMAIN course /\ host.at \in 1..revision /\ guest.at \in 1..revision
  /\ host.rev \in 1..host.at
  /\ host.gen \in 0..MaxLink /\ guest.gen \in 0..MaxLink
  /\ Len(host.leases) <= (LeaseTicks \div RenewTicks) + 1
  /\ \A i \in DOMAIN host.leases : host.leases[i] \in Lease /\ host.leases[i].left > 0
  /\ \A i, j \in DOMAIN host.leases : i < j => host.leases[i].left < host.leases[j].left
  /\ host.control \in Control \cup {None}
  /\ guest.mode \in {"out", "catching", "live"}
  /\ sync \in {"none", "asked", "sent", "begun", "installed"}

\* What the guest's controller is in the next frame.
NextFrame == ApplyAssignment(host)
NextMask == IF Owns(NextFrame.slot) /\ NextFrame.control # None THEN Played(NextFrame.control) ELSE Neutral
NextAge == IF Pressed(NextFrame.control) THEN NextFrame.control.press.age ELSE NextFrame.control.age

\* "A disconnected controller cannot leave a button held indefinitely"
\* (docs/design/host-immediate-input.md:45): a frame has a button of the guest
\* only if the guest itself sent just that within the term of one lease, and
\* never a chord that was not pressed (game-scheduler.ts:53-60, 82-87).
NoStuckButton == NextMask # Neutral => NextMask \in Mask /\ NextAge < LeaseTicks

\* "or regain control through an old packet": what the guest sent before it was
\* isolated, taken out or disconnected controls nothing (game-scheduler.ts:40).
NoOldControl == host.control # None => ~host.control.old

\* What the guest pressed on one controller never moves another
\* (game-scheduler.ts:26-31, 78-88).
InputKeepsItsSlot == NextMask # Neutral => course[NextFrame.control.rev] = NextFrame.slot

\* "Every still-valid issued token remains admissible at its original expiry"
\* (game-scheduler.ts:46-47): what a guest that did not lose control since sent
\* under a lease it was granted in this connection and for this assignment is
\* taken until that lease is over, whatever was granted after it.
LeaseHonoured ==
  [][LET packet == Head(up) IN
     (/\ up # <<>> /\ up' = Tail(up) /\ ~packet.old
      /\ packet.rev = host.rev /\ packet.gen = host.gen /\ packet.left > 0)
     => host'.control # None /\ host'.control.held = packet.mask]_vars
=============================================================================
