------------------------------- MODULE Roster -------------------------------
(***************************************************************************)
(* The part of a room that its game session is configured from: physical   *)
(* slots with roles and members, connections and links, the committed      *)
(* controller assignment, the revision that roster commands are checked    *)
(* against, and the cartridge.  Operators take and return the room record. *)
(***************************************************************************)
EXTENDS Session

CONSTANTS
  SlotCount,    \* physical slots of a room (5 in the product)
  MaxCartridge  \* bound on the cartridges a room selects, one after another

ASSUME RosterAssumption ==
  /\ SlotCount \in Nat \ {0}
  /\ MaxCartridge \in Nat

Slot == 1..SlotCount
Role == Seat \cup {"observer"}
SlotState == [role : Role, member : Owner, open : BOOLEAN]
Link == SUBSET Member

Room == [slots : [Slot -> SlotState], connected : SUBSET Member,
         loaded : SUBSET Member, links : SUBSET Link, former : SUBSET Member,
         controllers : Assignment, revision : Nat, started : BOOLEAN,
         established : BOOLEAN, cartridge : Nat, seats : 1..2,
         candidate : Game \cup {None}, offered : Nat]

Members(r) == {r.slots[i].member : i \in Slot} \ {None}

\* The first slot of a role, as Array.find reports it.
IsFirst(r, i, role) ==
  /\ r.slots[i].role = role
  /\ \A j \in Slot : j < i => r.slots[j].role # role

ControllerOwners(r) ==
  [seat \in Seat |->
     IF \E i \in Slot : IsFirst(r, i, seat)
       THEN r.slots[CHOOSE i \in Slot : IsFirst(r, i, seat)].member
       ELSE None]

Assigned(r) == [owners |-> ControllerOwners(r),
                revision |-> r.controllers.revision + 1]

WithRoles(r, roles) ==
  [r EXCEPT !.slots = [i \in Slot |->
     IF \E x \in roles : x.slot = i
       THEN [r.slots[i] EXCEPT !.role = (CHOOSE x \in roles : x.slot = i).role]
       ELSE r.slots[i]]]

ApplyRoles(r, roles) ==
  LET changed == [WithRoles(r, roles) EXCEPT !.revision = @ + 1]
  IN  [changed EXCEPT !.controllers = Assigned(changed)]

\* The role a cartridge for this many controllers gives the i-th slot.
CartridgeRole(i, seats) ==
  CASE i = 1 -> "player1"
    [] i = 2 /\ seats = 2 -> "player2"
    [] OTHER -> "observer"

WithCartridgeRoles(r, seats) ==
  [r EXCEPT !.slots = [i \in Slot |->
     [r.slots[i] EXCEPT !.role = CartridgeRole(i, seats)]]]

\* Only the host still holds the file of a newly selected game.
SelectGame(r, game, replacement) ==
  LET chosen == [WithCartridgeRoles(r, game.seats)
                  EXCEPT !.cartridge = game.cartridge, !.seats = game.seats,
                         !.candidate = None,
                         !.loaded = {Host}, !.revision = @ + 1,
                         !.started = IF replacement THEN FALSE ELSE @,
                         !.established = IF replacement THEN FALSE ELSE @]
  IN  [chosen EXCEPT !.controllers = Assigned(chosen)]

-----------------------------------------------------------------------------
(* Members come and go *)

FreeSlot(r, i) == r.slots[i].open /\ r.slots[i].member = None

\* releaseMember closes the gap: the k-th occupant of the open slots moves to
\* the k-th open slot.
OpenBefore(r, i) == {j \in Slot : j < i /\ r.slots[j].open}
OccupiedBefore(r, i) == {j \in OpenBefore(r, i) : r.slots[j].member # None}
Occupant(r, i) ==
  LET moved == {j \in Slot : /\ r.slots[j].open
                             /\ r.slots[j].member # None
                             /\ Cardinality(OccupiedBefore(r, j))
                                  = Cardinality(OpenBefore(r, i))}
  IN  IF r.slots[i].open /\ moved # {}
        THEN r.slots[CHOOSE j \in moved : TRUE].member
        ELSE IF r.slots[i].open THEN None ELSE r.slots[i].member

Compacted(r) ==
  [r EXCEPT !.slots = [i \in Slot |->
              [r.slots[i] EXCEPT !.member = Occupant(r, i)]],
            !.revision = @ + Cardinality(
              {i \in Slot : Occupant(r, i) # r.slots[i].member})]

Unlinked(r, m) == {l \in r.links : m \notin l}

\* A departed member's slot, connection, links and file.
Vacated(r, m) ==
  [r EXCEPT !.slots = [i \in Slot |->
              IF r.slots[i].member = m
                THEN [r.slots[i] EXCEPT !.member = None] ELSE r.slots[i]],
            !.connected = @ \ {m}, !.loaded = @ \ {m},
            !.links = Unlinked(r, m), !.former = @ \cup {m},
            !.revision = @ + 1]

-----------------------------------------------------------------------------
(* What publish() tells the game session about each member *)

StartParticipants(r) == OwnersOf(r.controllers.owners)

ViewOf(r, m) ==
  IF m \notin Members(r) THEN Absent
  ELSE [present |-> TRUE,
        connected |-> m \in r.connected,
        loaded |-> r.cartridge # 0 /\ m \in r.loaded,
        hostTransport |-> m # Host /\ {m, Host} \in r.links,
        allLinksReady |-> \A p \in (StartParticipants(r) \cap r.connected) \ {m} :
                            m \in r.connected => {m, p} \in r.links]

Publish(g, r) ==
  Configure(g, [m \in Member |-> ViewOf(r, m)], r.controllers, r.revision)

\* The controller roles now name other members than the assignment does.
OwnersChanged(r) == ControllerOwners(r) # r.controllers.owners

RoleChange(r, roles) ==
  [revision |-> r.revision, roles |-> roles, status |-> "freezing"]
=============================================================================
