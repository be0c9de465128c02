------------------------------ MODULE RoomEntry ------------------------------
(***************************************************************************)
(* Entering and leaving rooms: the RoomClient of every tab and the         *)
(* coordinator's Rooms, joined by WebSockets.                              *)
(*                                                                         *)
(* A socket delivers in order in both directions and loses what is on the  *)
(* way when it breaks; the coordinator learns of that later.  A command    *)
(* that needs a password derivation waits in PasswordWork while the        *)
(* commands behind it are handled.  A request is given up after eight      *)
(* seconds, its command is not.  The coordinator may restart.              *)
(*                                                                         *)
(* Clocks are abstracted to what a sweep can see: whether a heartbeat is   *)
(* older than 30 seconds, and whether a reconnection deadline has passed,  *)
(* which it may once it is set.  Rate limits only refuse, and "room"       *)
(* events only refresh a room that is already shown; both are left out.    *)
(* Which of the five seats a member takes is the subject of Roster.        *)
(***************************************************************************)
EXTENDS Naturals, Sequences, FiniteSets

CONSTANTS
  Tab,
  None,
  Creators,     \* bound: the tabs that open rooms
  Joiners,      \* bound: the tabs that enter rooms of others
  Capacity,     \* rooms the coordinator keeps at most
  Active,       \* derivations at a time
  Queue,        \* derivations that may wait
  Tombstones,   \* cancelled intents a session remembers
  Dropping,     \* bound: the tabs whose socket breaks
  Slow,         \* bound: the tabs that may wait too long for a reply
  Silent,       \* bound: the tabs whose heartbeats may fail to come
  MaxCreate,    \* bound on what a tab that opens rooms asks for before it leaves
  MaxJoin,      \* bound on what a tab that enters rooms asks for before it leaves
  MaxSockets,   \* bound on the sockets a tab opens
  MaxAccess,    \* bound on the password changes of a room
  MaxRestarts   \* bound on restarts of the coordinator

ASSUME RoomEntryAssumption ==
  /\ Creators \subseteq Tab
  /\ {Joiners, Dropping, Slow, Silent} \subseteq SUBSET Tab
  /\ {Capacity, Active, Tombstones} \subseteq Nat \ {0}
  /\ {Queue, MaxCreate, MaxJoin, MaxSockets, MaxAccess, MaxRestarts} \subseteq Nat

VARIABLES
  session,    \* what the coordinator knows of each guest
  rooms,      \* the rooms opened so far, None once closed
  work,       \* commands that wait for a derivation, the first Active derive
  up,         \* commands on their way from each tab
  down,       \* replies and events on their way to each tab
  tab,        \* the RoomClient of each tab
  restarts,   \* restarts so far
  withdrawn   \* history: the intents each session has cancelled

vars == <<session, rooms, work, up, down, tab, restarts, withdrawn>>

\* A room the coordinator keeps; "None" is none.  A tab's attempt, its intent,
\* stands for the seat it has.
Room == [host : Tab, intent : Nat, lock : Nat, access : Nat,
         seat : [Tab -> Nat], away : [Tab -> BOOLEAN], kicked : SUBSET Tab]

ASSUME NoneAssumption == None \notin Room

-----------------------------------------------------------------------------
(* The coordinator.  Its handlers map [session, rooms, down] to the next.  *)

Now == [session |-> session, rooms |-> rooms, down |-> down]
Install(st) ==
  /\ session' = st.session
  /\ rooms' = st.rooms
  /\ down' = st.down

Nobody == [token |-> 0, socket |-> 0, room |-> 0, quiet |-> FALSE, cancelled |-> <<>>]
Ended(reason) == [type |-> "ended", reason |-> reason]

\* What a session sends arrives if the tab still has the other end.
Hears(st, t) == st.session[t].socket # 0 /\ st.session[t].socket = tab[t].socket

Seated(room) == {t \in Tab : room.seat[t] # 0}

\* Mutation: the members keep pointing to the room that is gone.
CloseHostOnly(st, r, reason) ==
  [st EXCEPT !.rooms[r] = None,
             !.session[st.rooms[r].host].room = 0,
             !.down = [t \in Tab |-> IF t \in Seated(st.rooms[r]) /\ Hears(st, t)
                                     THEN Append(@[t], Ended(reason)) ELSE @[t]]]
Close(st, r, reason) ==
  LET gone == Seated(st.rooms[r]) IN
  [session |-> [t \in Tab |-> IF t \in gone THEN [st.session[t] EXCEPT !.room = 0]
                              ELSE st.session[t]],
   rooms   |-> [st.rooms EXCEPT ![r] = None],
   down    |-> [t \in Tab |-> IF t \in gone /\ Hears(st, t)
                              THEN Append(st.down[t], Ended(reason)) ELSE st.down[t]]]

\* releaseMember: one guest goes, and is told.
Release(st, t, reason) ==
  LET r == st.session[t].room IN
  [st EXCEPT !.rooms[r].seat[t] = 0,
             !.rooms[r].away[t] = FALSE,
             !.session[t].room = 0,
             !.down[t] = IF Hears(st, t) THEN Append(@, Ended(reason)) ELSE @]

\* The host takes the room along, a guest only leaves it.
Depart(st, t, reason) ==
  LET r == st.session[t].room IN
  IF st.rooms[r].host = t THEN Close(st, r, reason) ELSE Release(st, t, reason)

\* cancelIntent: a tombstone for an attempt, the oldest gives way.
Cancel(st, t, intent) ==
  LET old  == st.session[t].cancelled
      kept == IF Len(old) >= Tombstones THEN Tail(old) ELSE old
      here == \E i \in DOMAIN kept : kept[i] = intent
  IN [st EXCEPT !.session[t].cancelled = IF here THEN kept ELSE Append(kept, intent)]

\* Mutation: only an attempt under way can be withdrawn.
NeverCancelled(st, t, intent) == FALSE
Cancelled(st, t, intent) ==
  \E i \in DOMAIN st.session[t].cancelled : st.session[t].cancelled[i] = intent

\* Whether the session is in the room by this very attempt.
Holds(st, t, r, intent) == st.session[t].room = r /\ st.rooms[r].seat[t] = intent

Done(st) == [st |-> st, code |-> "ok"]
Refused(st, code) == [st |-> st, code |-> code]

Alive(st, r) == r \in DOMAIN st.rooms /\ st.rooms[r] # None

\* Mutation: a password that was right once opens the room.
ProvenOnce(room, command) == TRUE
\* The proof is for the lock the password was checked against (accessRevision):
\* each change of it draws a number of its own, 0 where nothing is to prove.
Proven(room, command) == command.password = room.lock

\* reserve: a seat for this attempt, or the reason why not.
Reserve(st, t, command) ==
  LET r == command.room IN
  CASE Cancelled(st, t, command.intent)      -> Refused(st, "cancelled")
    [] ~Cancelled(st, t, command.intent) /\ (~Alive(st, r) \/ t \in st.rooms[r].kicked)
                                             -> Refused(st, "room_unavailable")
    [] OTHER ->
       IF st.rooms[r].away[st.rooms[r].host] THEN Refused(st, "host_reconnecting")
       ELSE IF st.session[t].room # 0
       THEN IF Holds(st, t, r, command.intent) THEN Done(st) ELSE Refused(st, "already_in_room")
       ELSE IF ~Proven(st.rooms[r], command) THEN Refused(st, "password_required")
       ELSE Done([st EXCEPT !.rooms[r].seat[t] = command.intent,
                            !.session[t].room = r, !.session[t].quiet = FALSE])

Opened(t, command) ==
  [host |-> t, intent |-> command.intent, lock |-> 0, access |-> 0,
   seat |-> [u \in Tab |-> IF u = t THEN command.intent ELSE 0],
   away |-> [u \in Tab |-> FALSE], kicked |-> {}]

CreateLobby(st, t, command) ==
  LET r == st.session[t].room IN
  IF Cancelled(st, t, command.intent) THEN Refused(st, "cancelled")
  ELSE IF r # 0
  THEN IF st.rooms[r].host = t /\ st.rooms[r].intent = command.intent
       THEN Done(st) ELSE Refused(st, "already_in_room")
  ELSE IF Cardinality({q \in DOMAIN st.rooms : st.rooms[q] # None}) >= Capacity
  THEN Refused(st, "capacity")
  ELSE Done([st EXCEPT !.rooms = Append(@, Opened(t, command)),
                       !.session[t].room = Len(st.rooms) + 1, !.session[t].quiet = FALSE])

\* Cancellation belongs to one attempt, whatever the session is in by now.
Leave(st, t, command) ==
  LET cancelled == Cancel(st, t, command.intent)
      r == st.session[t].room
  IN Done(IF r # 0 /\ Holds(st, t, r, command.intent)
          THEN Depart(cancelled, t, "left") ELSE cancelled)

CancelCreate(st, t, command) ==
  LET cancelled == Cancel(st, t, command.intent)
      r == st.session[t].room
  IN Done(IF r # 0 /\ st.rooms[r].host = t /\ st.rooms[r].intent = command.intent
          THEN Close(cancelled, r, "creation_cancelled") ELSE cancelled)

Hosted(st, t, r) == r # 0 /\ st.session[t].room = r /\ st.rooms[r].host = t

CloseRoom(st, t, command) ==
  IF Hosted(st, t, command.room) THEN Done(Close(st, command.room, "host_closed"))
  ELSE Refused(st, "room_changed")

\* memberRemove: the guest may not come back.
Remove(st, t, command) ==
  LET r == command.room
      who == {u \in Tab \ {t} : Hosted(st, t, r) /\ st.rooms[r].seat[u] = command.intent}
  IN IF command.intent = 0 \/ who = {} THEN Refused(st, "membership_changed")
     ELSE LET u == CHOOSE u \in who : TRUE IN
          Done(Release([st EXCEPT !.rooms[r].kicked = @ \cup {u}], u, "removed"))

\* visibility: every change makes the proofs of earlier passwords void.
SetAccess(st, t, command) ==
  LET r == command.room IN
  IF ~Hosted(st, t, r) \/ st.rooms[r].access # command.intent THEN Refused(st, "room_changed")
  ELSE IF command.password = 0 /\ st.rooms[r].lock = 0 THEN Done(st)
  ELSE Done([st EXCEPT !.rooms[r].access = @ + 1, !.rooms[r].lock = command.password])

Apply(st, t, command) ==
  CASE command.type = "join"         -> Reserve(st, t, command)
    [] command.type = "create"       -> CreateLobby(st, t, command)
    [] command.type = "leave"        -> Leave(st, t, command)
    [] command.type = "cancelCreate" -> CancelCreate(st, t, command)
    [] command.type = "close"        -> CloseRoom(st, t, command)
    [] command.type = "remove"       -> Remove(st, t, command)
    [] command.type = "access"       -> SetAccess(st, t, command)

\* The reply goes out on the socket the command came from.
Answer(t, socket, command, outcome) ==
  LET st == outcome.st
      r == st.session[t].room
      reply == [type |-> "result", n |-> command.n, code |-> outcome.code, room |-> r,
                intent |-> IF r = 0 THEN 0 ELSE st.rooms[r].seat[t],
                host |-> r # 0 /\ st.rooms[r].host = t]
  IN IF command.n = 0 \/ tab[t].socket # socket THEN st
     ELSE [st EXCEPT !.down[t] = Append(@, reply)]

Withdraw(t, command) ==
  withdrawn' = IF command.type \in {"leave", "cancelCreate"}
               THEN [withdrawn EXCEPT ![t] = @ \cup {command.intent}] ELSE withdrawn

\* The commands authorize holds back until a password is derived.
Derives(t, command) ==
  \/ command.type = "access" /\ command.password # 0
  \/ /\ command.type = "join" /\ command.password # 0
     /\ Alive(Now, command.room)
     /\ rooms[command.room].lock # 0
     /\ ~Holds(Now, t, command.room, command.intent)

\* A password for an open room is refused at once.
Misplaced(command) ==
  /\ command.type = "join" /\ command.password # 0
  /\ Alive(Now, command.room) /\ rooms[command.room].lock = 0

-----------------------------------------------------------------------------
(* What reaches the coordinator.                                           *)

Ready(t) == up[t] # <<>> /\ Head(up[t]).type # "hello"

\* authorize, for a command that is handled at once; a socket whose hello was
\* refused has no session.
Handle(t) ==
  /\ Ready(t)
  /\ LET command == Head(up[t])
         attached == session[t].socket = tab[t].socket
     IN
     /\ ~Derives(t, command)
     /\ Install(Answer(t, tab[t].socket, command,
          IF ~attached THEN Refused(Now, "authenticate_first")
          ELSE IF Misplaced(command) THEN Refused(Now, "invalid_password")
          ELSE Apply(Now, t, command)))
     /\ IF attached THEN Withdraw(t, command) ELSE UNCHANGED withdrawn
  /\ up' = [up EXCEPT ![t] = Tail(@)]
  /\ UNCHANGED <<work, tab, restarts>>

\* PasswordWork.run: it derives, waits, or there is too much already.
Defer(t) ==
  /\ Ready(t)
  /\ LET command == Head(up[t])
         right == command.type # "join" \/ command.password = rooms[command.room].lock
     IN
     /\ Derives(t, command)
     /\ IF Len(work) >= Active + Queue
        THEN /\ Install(Answer(t, session[t].socket, command, Refused(Now, "rate_limited")))
             /\ UNCHANGED work
        ELSE /\ work' = Append(work, [tab |-> t, token |-> session[t].token,
                          socket |-> session[t].socket, command |-> command, right |-> right])
             /\ UNCHANGED <<session, rooms, down>>
  /\ up' = [up EXCEPT ![t] = Tail(@)]
  /\ UNCHANGED <<tab, restarts, withdrawn>>

\* A derivation ends; the session may have moved to another socket meanwhile.
Derived(i) ==
  /\ i \in DOMAIN work /\ i <= Active
  /\ LET w == work[i] IN
     /\ Install(Answer(w.tab, w.socket, w.command,
          IF ~w.right THEN Refused(Now, "bad_password")
          ELSE IF session[w.tab].token # w.token THEN Refused(Now, "session_expired")
          ELSE IF session[w.tab].socket # w.socket THEN Refused(Now, "session_replaced")
          ELSE Apply(Now, w.tab, w.command)))
     /\ work' = SubSeq(work, 1, i - 1) \o SubSeq(work, i + 1, Len(work))
  /\ UNCHANGED <<up, tab, restarts, withdrawn>>

\* attach: the session a token names, or a new one, moves to this socket.
Attach(t) ==
  /\ up[t] # <<>> /\ Head(up[t]).type = "hello"
  /\ LET known == session[t].token = tab[t].token
         next == IF tab[t].token = 0
                 THEN [Nobody EXCEPT !.token = restarts + 1, !.socket = tab[t].socket]
                 ELSE [session[t] EXCEPT !.socket = tab[t].socket, !.quiet = FALSE]
         r == next.room
         st == [Now EXCEPT !.session[t] = next,
                           !.rooms = IF r = 0 THEN @ ELSE [@ EXCEPT ![r].away[t] = FALSE]]
     IN Install(Answer(t, tab[t].socket, Head(up[t]),
          IF known \/ tab[t].token = 0 THEN Done(st) ELSE Refused(Now, "session_expired")))
     /\ withdrawn' = [withdrawn EXCEPT ![t] = IF tab[t].token = 0 THEN {} ELSE @]
  /\ up' = [up EXCEPT ![t] = Tail(@)]
  /\ UNCHANGED <<work, tab, restarts>>

\* detach: the coordinator sees that a socket is gone.
Detach(t) ==
  /\ session[t].socket # 0 /\ session[t].socket # tab[t].socket
  /\ session' = [session EXCEPT ![t].socket = 0]
  /\ UNCHANGED <<rooms, work, up, down, tab, restarts, withdrawn>>

\* Thirty seconds without a heartbeat.
Lapse(t) ==
  /\ t \in Silent /\ session[t].room # 0 /\ ~session[t].quiet
  /\ session' = [session EXCEPT ![t].quiet = TRUE]
  /\ UNCHANGED <<rooms, work, up, down, tab, restarts, withdrawn>>

\* A heartbeat revives the host's room, and leaves a guest's deadline alone.
Heartbeat(t) ==
  /\ tab[t].connected /\ session[t].socket = tab[t].socket
  /\ session[t].quiet
  /\ session' = [session EXCEPT ![t].quiet = FALSE]
  /\ LET r == session[t].room IN
     rooms' = IF r # 0 /\ rooms[r].host = t THEN [rooms EXCEPT ![r].away[t] = FALSE] ELSE rooms
  /\ UNCHANGED <<work, up, down, tab, restarts, withdrawn>>

\* sweep: a silent member gets a deadline, and the deadline passes.
Miss(t) ==
  /\ session[t].quiet
  /\ LET r == session[t].room IN
     /\ r # 0 /\ ~rooms[r].away[t]
     /\ rooms' = [rooms EXCEPT ![r].away[t] = TRUE]
  /\ UNCHANGED <<session, work, up, down, tab, restarts, withdrawn>>

\* Mutation: only guests run into their deadline.
ExpireGuest(t) ==
  /\ LET r == session[t].room IN
     /\ r # 0 /\ rooms[r].away[t] /\ rooms[r].host # t
     /\ Install(Depart(Now, t, "expired"))
  /\ UNCHANGED <<work, up, tab, restarts, withdrawn>>
Expire(t) ==
  /\ LET r == session[t].room IN
     /\ r # 0 /\ rooms[r].away[t]
     /\ Install(Depart(Now, t, "expired"))
  /\ UNCHANGED <<work, up, tab, restarts, withdrawn>>

\* removeRoom: an operator closes a room.
Operator ==
  /\ \E r \in DOMAIN rooms : rooms[r] # None /\ Install(Close(Now, r, "operator_removed"))
  /\ UNCHANGED <<work, up, tab, restarts, withdrawn>>

-----------------------------------------------------------------------------
(* The tabs.                                                               *)

Shown(r, intent, host) == [id |-> r, intent |-> intent, host |-> host]
Nowhere == Shown(0, 0, FALSE)
Offline == [token |-> 0, socket |-> 0, sockets |-> 0, connected |-> FALSE, room |-> Nowhere,
            joining |-> 0, lobby |-> 0, waiting |-> {}, busy |-> FALSE, asked |-> 0,
            lost |-> {}, blind |-> FALSE]

Command(type, n, intent, r, password) ==
  [type |-> type, n |-> n, intent |-> intent, room |-> r, password |-> password]
Send(t, commands) ==
  up' = [up EXCEPT ![t] = IF tab[t].socket = 0 THEN @ ELSE @ \o commands]

\* connectOnce: a socket is opened and says hello.
Connect(t) ==
  /\ tab[t].socket = 0 /\ tab[t].sockets < MaxSockets
  /\ LET k == tab[t].sockets + 1 IN
     tab' = [tab EXCEPT ![t].socket = k, ![t].sockets = k, ![t].waiting = {}]
  /\ up' = [up EXCEPT ![t] = <<Command("hello", 1, 0, 0, 0)>>]
  /\ down' = [down EXCEPT ![t] = <<>>]
  /\ UNCHANGED <<session, rooms, work, restarts, withdrawn>>

\* onclose: everything pending fails, the room stays on the screen.
Dropped(c) ==
  [c EXCEPT !.socket = 0, !.connected = FALSE, !.waiting = {}, !.busy = FALSE, !.joining = 0]
Break(t) ==
  /\ t \in Dropping /\ tab[t].socket # 0 /\ tab[t].sockets < MaxSockets
  /\ tab' = [tab EXCEPT ![t] = Dropped(@)]
  /\ up' = [up EXCEPT ![t] = <<>>]
  /\ down' = [down EXCEPT ![t] = <<>>]
  /\ UNCHANGED <<session, rooms, work, restarts, withdrawn>>

Asks(t) == IF t \in Creators THEN MaxCreate ELSE MaxJoin
Idle(t) == tab[t].connected /\ ~tab[t].busy

\* A join outdates the joins before it.
Superseded(c, type) ==
  {[w EXCEPT !.stale = @ \/ (type = "join" /\ w.type = "join")] : w \in c.waiting}
Ask(t, type, intent, r, password) ==
  LET n == tab[t].asked + 2 IN   \* 1 is the number of a hello
  /\ tab' = [tab EXCEPT ![t].asked = @ + 1, ![t].busy = @ \/ type \in {"join", "create"},
        ![t].joining = IF type = "join" THEN intent ELSE @,
        ![t].lobby = IF type = "create" THEN intent ELSE @,
        ![t].waiting = Superseded(tab[t], type)
                         \cup {[n |-> n, type |-> type, intent |-> intent, stale |-> FALSE]}]
  /\ Send(t, <<Command(type, n, intent, r, password)>>)
  /\ UNCHANGED <<session, rooms, work, down, restarts, withdrawn>>

\* createLobby: the intent of an attempt that failed is used again.  Rooms are
\* opened without a password, the host sets one later.
Create(t) ==
  /\ t \in Creators /\ Idle(t) /\ tab[t].room.id = 0 /\ tab[t].asked < Asks(t)
  /\ Ask(t, "create", IF tab[t].lobby # 0 THEN tab[t].lobby ELSE tab[t].asked + 2, 0, 0)

\* joinTarget: every attempt has an intent of its own.
Join(t) ==
  /\ t \in Joiners /\ Idle(t) /\ tab[t].room.id = 0 /\ tab[t].asked < Asks(t)
  /\ \E r \in DOMAIN rooms : \E password \in 0..(MaxAccess + 1) :
       /\ rooms[r] # None => password <= rooms[r].access + 1
       /\ Ask(t, "join", tab[t].asked + 2, r, password)

\* act: the host closes its room, a guest leaves it.
Quit(t) ==
  /\ Idle(t) /\ tab[t].room.id # 0 /\ tab[t].waiting = {} /\ tab[t].asked <= Asks(t)
  /\ IF tab[t].room.host THEN Ask(t, "close", 0, tab[t].room.id, 0)
     ELSE Ask(t, "leave", tab[t].room.intent, tab[t].room.id, 0)

\* act: the host removes a guest, or changes the password.
Manage(t) ==
  /\ tab[t].connected /\ tab[t].room.host
  /\ LET r == tab[t].room.id IN
     /\ Alive(Now, r)
     /\ \/ \E u \in Tab \ {t} :
             rooms[r].seat[u] # 0 /\ Send(t, <<Command("remove", 0, rooms[r].seat[u], r, 0)>>)
        \/ /\ rooms[r].access < MaxAccess
           /\ \E password \in {0, rooms[r].access + 2} :
                Send(t, <<Command("access", 0, rooms[r].access, r, password)>>)
  /\ Len(up[t]) = 0
  /\ \A i \in DOMAIN work : work[i].tab # t
  /\ UNCHANGED <<session, rooms, work, down, tab, restarts, withdrawn>>

\* Mutation: the screen forgets the attempt, the coordinator is not told.
WithdrawSilently(t) ==
  /\ tab[t].joining # 0 \/ tab[t].lobby # 0
  /\ tab' = [tab EXCEPT ![t].joining = 0, ![t].lobby = 0, ![t].busy = FALSE,
        ![t].waiting = {w \in @ : w.type \notin {"join", "create"}}]
  /\ UNCHANGED <<session, rooms, work, up, down, restarts, withdrawn>>
\* cancelPending and cancelCreation: what is under way is not wanted any more.
WithdrawAttempt(t) ==
  /\ tab[t].joining # 0 \/ tab[t].lobby # 0
  /\ tab' = [tab EXCEPT ![t].joining = 0, ![t].lobby = 0, ![t].busy = FALSE,
        ![t].waiting = {[w EXCEPT !.stale = @ \/ w.type \in {"join", "create"}] : w \in @}]
  /\ Send(t, (IF tab[t].lobby = 0 THEN <<>> ELSE <<Command("cancelCreate", 0, tab[t].lobby, 0, 0)>>)
          \o (IF tab[t].joining = 0 THEN <<>> ELSE <<Command("leave", 0, tab[t].joining, 0, 0)>>))
  /\ UNCHANGED <<session, rooms, work, down, restarts, withdrawn>>

\* The end of an attempt without a room.
Fail(c, w) ==
  [c EXCEPT !.busy = @ /\ w.stale,
            !.joining = IF @ = w.intent /\ w.type = "join" THEN 0 ELSE @]

Entering == {"join", "create"}

\* Eight seconds without a reply: the tab gives the request up, nobody else does.
GivenUp(c, w) ==
  [Fail(c, w) EXCEPT !.waiting = @ \ {w}, !.lost = IF w.type \in Entering THEN @ \cup {w} ELSE @]
Timeout(t) ==
  /\ t \in Slow
  /\ \E w \in tab[t].waiting : tab' = [tab EXCEPT ![t] = GivenUp(@, w)]
  /\ UNCHANGED <<session, rooms, work, up, down, restarts, withdrawn>>

SetRoom(c, shown) == [c EXCEPT !.room = shown, !.blind = FALSE]

\* A session the coordinator does not know is forgotten, and its socket closed.
Forgotten(c) == [SetRoom(Dropped(c), Nowhere) EXCEPT !.token = 0]

\* The reply to hello: the tab is where the coordinator says it is, or it
\* starts again, and what was sent on the socket is lost.
Greeted(t, reply) ==
  \/ /\ reply.code = "ok"
     /\ tab' = [tab EXCEPT ![t] = [SetRoom(@, Shown(reply.room, reply.intent, reply.host))
                  EXCEPT !.connected = TRUE, !.token = session[t].token, !.lost = {}]]
     /\ UNCHANGED up
  \/ /\ reply.code # "ok"
     /\ tab' = [tab EXCEPT ![t] = Forgotten(@)]
     /\ up' = [up EXCEPT ![t] = <<>>]

\* The coordinator handles creations in order: those before this one are over.
Outlives(v, w) == v.type # "create" \/ v.n > w.n

\* A reply to a request that is still wanted, or to one that is not.
Replied(t, reply) ==
  \E w \in tab[t].waiting :
    /\ w.n = reply.n
    /\ LET c == [tab[t] EXCEPT !.waiting = @ \ {w}]
           won == w.type \in Entering /\ reply.code = "ok"
           undo == IF w.type = "join" THEN "leave" ELSE "cancelCreate"
       IN IF won /\ w.stale
          THEN /\ tab' = [tab EXCEPT ![t] = Fail(c, w)]
               /\ Send(t, <<Command(undo, 0, w.intent, 0, 0)>>)
          ELSE /\ UNCHANGED up
               /\ tab' = [tab EXCEPT ![t] =
                    IF won
                    THEN [SetRoom(Fail(c, w), Shown(reply.room, reply.intent, reply.host))
                            EXCEPT !.lobby = IF w.type = "create" THEN 0 ELSE @,
                                   !.lost = IF w.type = "create" THEN {v \in @ : Outlives(v, w)} ELSE @]
                    ELSE IF reply.code = "ok" THEN SetRoom(c, Nowhere)
                    ELSE Fail(c, w)]

\* "ended": it does not say which room; our own cancellation is no news.
Told(c, event) ==
  IF event.reason = "creation_cancelled"
  THEN [c EXCEPT !.blind = @ \/ c.room.id # 0]
  ELSE IF c.room.id = 0 /\ c.lobby = 0 THEN c
  ELSE [SetRoom(c, Nowhere) EXCEPT !.busy = FALSE]
Notified(t, event) ==
  /\ UNCHANGED up
  /\ tab' = [tab EXCEPT ![t] = Told(@, event)]

\* onmessage: the next reply or event; a reply nobody waits for is dropped.
Receive(t) ==
  /\ down[t] # <<>>
  /\ down' = [down EXCEPT ![t] = Tail(@)]
  /\ LET m == Head(down[t]) IN
     \/ m.type = "ended" /\ Notified(t, m)
     \/ m.type = "result" /\ m.n = 1 /\ Greeted(t, m)
     \/ m.type = "result" /\ Replied(t, m)
     \/ /\ m.type = "result" /\ m.n # 1 /\ \A w \in tab[t].waiting : w.n # m.n
        /\ UNCHANGED <<tab, up>>
  /\ UNCHANGED <<session, rooms, work, restarts, withdrawn>>

\* The coordinator restarts: rooms and sessions were only in its memory.
Restart ==
  /\ restarts < MaxRestarts
  /\ \A t \in Tab : tab[t].sockets < MaxSockets
  /\ restarts' = restarts + 1
  /\ session' = [t \in Tab |-> Nobody]
  /\ rooms' = [r \in DOMAIN rooms |-> None]
  /\ work' = <<>>
  /\ up' = [t \in Tab |-> <<>>]
  /\ down' = [t \in Tab |-> <<>>]
  /\ tab' = [t \in Tab |-> Dropped(tab[t])]
  /\ withdrawn' = [t \in Tab |-> {}]

-----------------------------------------------------------------------------

Init ==
  /\ session = [t \in Tab |-> Nobody]
  /\ rooms = <<>>
  /\ work = <<>>
  /\ up = [t \in Tab |-> <<>>]
  /\ down = [t \in Tab |-> <<>>]
  /\ tab = [t \in Tab |-> Offline]
  /\ restarts = 0
  /\ withdrawn = [t \in Tab |-> {}]

Next ==
  \/ \E t \in Tab :
       \/ Connect(t) \/ Break(t) \/ Create(t) \/ Join(t) \/ Quit(t) \/ Manage(t)
       \/ WithdrawAttempt(t) \/ Timeout(t) \/ Receive(t)
       \/ Attach(t) \/ Detach(t) \/ Handle(t) \/ Defer(t)
       \/ Lapse(t) \/ Heartbeat(t) \/ Miss(t) \/ Expire(t)
  \/ \E i \in 1..Active : Derived(i)
  \/ Operator
  \/ Restart

Spec == Init /\ [][Next]_vars

\* Time passes for a session without a socket, and the sweep runs every second.
FairSpec ==
  /\ Spec
  /\ \A t \in Tab :
       /\ WF_vars(Lapse(t) /\ session[t].socket = 0)
       /\ WF_vars(Miss(t))
       /\ WF_vars(Expire(t))

-----------------------------------------------------------------------------
(* Properties.                                                             *)

\* The variables have the values the coordinator and the tabs can hold.
TypeOK ==
  /\ \A r \in DOMAIN rooms : rooms[r] \in Room \cup {None}
  /\ \A t \in Tab :
       /\ session[t].token \in 0..(restarts + 1)
       /\ session[t].room \in 0..Len(rooms)
       /\ Len(session[t].cancelled) <= Tombstones
       /\ tab[t].room.id \in 0..Len(rooms)
       /\ tab[t].joining \in {0} \cup {w.intent : w \in {v \in tab[t].waiting : v.type = "join"}}
  /\ Len(work) <= Active + Queue

\* A session points to a room exactly when that room has a seat for it, and a
\* room has its host: no release, closure, expiry or late admission leaves one
\* side behind.
MembershipAgrees ==
  /\ \A t \in Tab : \A r \in DOMAIN rooms :
       session[t].room = r <=> rooms[r] # None /\ rooms[r].seat[t] # 0
  /\ \A r \in DOMAIN rooms :
       rooms[r] # None => rooms[r].seat[rooms[r].host] = rooms[r].intent

\* An attempt the coordinator was told to forget holds no seat, however late
\* its command, or the end of its password derivation, comes.
CancelledStaysOut ==
  \A r \in DOMAIN rooms : rooms[r] # None =>
    \A t \in Tab : Cardinality(withdrawn[t]) < Tombstones => rooms[r].seat[t] \notin withdrawn[t]

\* Who was admitted by a derivation knew the password the room had at that
\* moment, and was not removed from the room while it derived.
AdmittedByPassword ==
  [][\A i \in DOMAIN work :
       LET w == work[i] r == w.command.room IN
       (Derived(i) /\ w.command.type = "join" /\ session'[w.tab].room = r
          /\ session[w.tab].room = 0)
       => w.command.password = rooms[r].lock /\ w.tab \notin rooms[r].kicked]_vars

\* Nothing of the tab is under way any more.
Settled(t) ==
  /\ tab[t].connected
  /\ up[t] = <<>> /\ down[t] = <<>>
  /\ tab[t].waiting = {}

SameRoom(t) ==
  /\ tab[t].room.id = session[t].room
  /\ LET r == session[t].room IN
     r # 0 => /\ tab[t].room.intent = rooms[r].seat[t]
              /\ tab[t].room.host <=> rooms[r].host = t

\* When nothing is under way the tab shows the room the coordinator has it in:
\* cancelled, superseded and failed attempts, removals and reconnections leave
\* no seat behind that the guest does not see, and no room that is not there.
\* Excepted are a join whose reply came too late, and the notice it ignores.
ViewsAgree ==
  \A t \in Tab : Settled(t) /\ ~tab[t].blind /\ tab[t].lost = {} => SameRoom(t)

\* A guest whose heartbeats arrive again is not removed for being absent.
ReturnedGuestStays ==
  [][\A t \in Tab : Expire(t) /\ rooms[session[t].room].host # t => session[t].quiet]_vars

\* A room whose host has no connection is closed, unless the host comes back.
AbsentHostEnds ==
  \A r \in 1..(MaxCreate * Cardinality(Creators)) :
    LET absent == r \in DOMAIN rooms /\ rooms[r] # None /\ session[rooms[r].host].socket = 0
    IN absent ~> ~absent
=============================================================================
