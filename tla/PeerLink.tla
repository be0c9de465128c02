------------------------------ MODULE PeerLink ------------------------------
(***************************************************************************)
(* One pair of members and the coordinator that brings them together:      *)
(* PeerBroker holds the pair's current negotiation (a round), each browser *)
(* holds a PeerConnection, and a data channel joins the two once both      *)
(* described themselves.                                                   *)
(*                                                                         *)
(* Sockets deliver in order and lose what is on the way when they close.   *)
(* ICE candidates, routes and metrics do not decide what happens and are   *)
(* left out; so is the effective policy, which is always "standard"        *)
(* because no command changes a session's policy.  Events are handled when *)
(* they arrive: the promise chain of PeerConnection.handle only postpones  *)
(* them, and every continuation checks the epoch again.                    *)
(***************************************************************************)
EXTENDS Naturals, Sequences, FiniteSets

CONSTANTS
  None,
  HostSide,     \* which end is the authority of the game
  Dropping,     \* bound: the ends whose socket comes and goes
  RelayPairs,   \* pairs the relay is configured for
  MaxEpoch      \* bound on the rounds opened

Side == {"offerer", "answerer"}
Other(s) == IF s = "offerer" THEN "answerer" ELSE "offerer"

ASSUME PeerAssumption ==
  /\ HostSide \in Side
  /\ Dropping \subseteq Side
  /\ RelayPairs \in Nat
  /\ MaxEpoch \in Nat

VARIABLES
  socket,     \* the socket each session sends on, 0 when it has none
  round,      \* the coordinator's round for this pair, or None
  drawn,      \* rounds opened so far; the epoch of a round is its number
  elsewhere,  \* relay slots that rounds of other pairs hold
  inbox,      \* what the coordinator sent and the browser has not read
  outbox,     \* what the browser sent and the coordinator has not read
  end,        \* the PeerConnection of each browser
  wire        \* what is on its way to each end through the data channel

vars == <<socket, round, drawn, elsewhere, inbox, outbox, end, wire>>

-----------------------------------------------------------------------------
(* The coordinator.                                                        *)

Event(type, epoch) == [type |-> type, epoch |-> epoch]
Live(r) == r # None /\ r.status # "failed"
Holds(r) == IF r # None /\ r.relay THEN 1 ELSE 0

\* Events go to the sockets the round was opened with, if they still are.
Tell(box, r, event) ==
  [s \in Side |-> IF r.socket[s] # 0 /\ r.socket[s] = socket'[s]
                  THEN Append(box[s], event) ELSE box[s]]

\* Mutation: a round is forgotten without a word.
ClearQuietly(st) == [st EXCEPT !.round = None]
Clear(st) ==
  IF st.round = None THEN st
  ELSE [st EXCEPT !.round = None,
                  !.inbox = Tell(@, st.round, Event("stop", st.round.epoch))]

\* A new round of the pair, under an epoch of its own.
Opened(epoch) ==
  [epoch |-> epoch, status |-> "preparing", acks |-> {}, connected |-> {},
   described |-> {}, relay |-> elsewhere < RelayPairs, socket |-> socket']

\* The end of every handler that publishes the room.
Sync(st) ==
  IF \E s \in Side : socket'[s] = 0 THEN Clear(st)
  ELSE IF st.round # None /\ st.round.socket = socket' THEN st
  ELSE LET cleared == Clear(st)
           opened  == Opened(st.drawn + 1)
       IN [round |-> opened, drawn |-> st.drawn + 1,
           inbox |-> Tell(cleared.inbox, opened, Event("prepare", opened.epoch))]

Now == [round |-> round, drawn |-> drawn, inbox |-> inbox]
Install(st) ==
  /\ st.drawn <= MaxEpoch
  /\ round' = st.round
  /\ drawn' = st.drawn
  /\ inbox' = st.inbox

Described(command) == command.type \in {"offer", "answer"}

\* A command of an earlier round, or out of its phase, is answered with an error.
Accepts(s, command) ==
  /\ round # None
  /\ round.epoch = command.epoch
  /\ command.type = "ack" => round.status = "preparing"
  /\ command.type = "connected" => round.status \in {"connecting", "connected"}
  /\ Described(command) =>
       /\ round.status \in {"connecting", "connected"}
       /\ s \notin round.described

Acknowledged(s) ==
  LET acks == round.acks \cup {s} IN
  IF acks = Side
  THEN [Now EXCEPT !.round = [round EXCEPT !.acks = acks, !.status = "connecting"],
                   !.inbox = Tell(@, round, Event("start", round.epoch))]
  ELSE [Now EXCEPT !.round.acks = acks]

\* Mutation: a failed round keeps its relay slot.
FailingKeepsSlot(st) ==
  [st EXCEPT !.round.status = "failed",
             !.inbox = Tell(@, st.round, Event("stop", st.round.epoch))]
Failing(st) ==
  [st EXCEPT !.round.status = "failed", !.round.relay = FALSE,
             !.inbox = Tell(@, st.round, Event("stop", st.round.epoch))]

Reporting(s) ==
  LET connected == round.connected \cup {s} IN
  [Now EXCEPT !.round.connected = connected,
              !.round.status = IF connected = Side THEN "connected" ELSE @]

Signalling(s, command) ==
  [Now EXCEPT !.round.described = @ \cup {s},
              !.inbox[Other(s)] =
                 IF round.socket[Other(s)] = socket'[Other(s)]
                 THEN Append(@, command) ELSE @]

Effect(s, command) ==
  CASE command.type = "ack"       -> Sync(Acknowledged(s))
    [] command.type = "connected" -> Sync(Reporting(s))
    [] command.type = "failed"    -> Sync(Failing(Now))
    [] command.type = "retry"     -> Sync(Clear(Now))
    [] OTHER                      -> Signalling(s, command)

\* PeerBroker.handle: the next command of a browser, with the reply the
\* browser acts on (the others only settle a promise).
Handle(s) ==
  /\ socket[s] # 0
  /\ outbox[s] # <<>>
  /\ UNCHANGED <<socket, elsewhere, end, wire>>
  /\ outbox' = [outbox EXCEPT ![s] = Tail(@)]
  /\ LET command == Head(outbox[s])
         st      == IF Accepts(s, command) THEN Effect(s, command) ELSE Now
     IN IF ~Accepts(s, command) /\ command.type \notin {"failed", "retry"}
        THEN Install([st EXCEPT !.inbox[s] = Append(@, Event("rejected", command.epoch))])
        ELSE IF command.type = "connected"
        THEN Install([st EXCEPT !.inbox[s] = Append(@, Event("admitted", command.epoch))])
        ELSE Install(st)

\* Mutation: only the second phase has a deadline.
SweepConnecting ==
  /\ round # None
  /\ round.status = "connecting"
  /\ UNCHANGED <<socket, elsewhere, outbox, end, wire>>
  /\ Install(Sync(Failing(Now)))

\* Rooms.sweep: the deadline of the phase has passed, and the room is published.
SweepRound ==
  /\ round # None
  /\ round.status \in {"preparing", "connecting"}
  /\ UNCHANGED <<socket, elsewhere, outbox, end, wire>>
  /\ Install(Sync(Failing(Now)))

\* Rounds of other pairs take free relay slots and give them back.
Elsewhere ==
  /\ \/ elsewhere + Holds(round) < RelayPairs /\ elsewhere' = elsewhere + 1
     \/ elsewhere > 0 /\ elsewhere' = elsewhere - 1
  /\ UNCHANGED <<socket, round, drawn, inbox, outbox, end, wire>>

-----------------------------------------------------------------------------
(* The browsers.                                                           *)

Idle == [epoch |-> 0, described |-> FALSE, channel |-> "none",
         replied |-> FALSE, verified |-> FALSE, ready |-> FALSE]

\* close(): the channel closes after what was sent on it.
Hangup(s, w) ==
  [w EXCEPT ![s] = <<>>,
            ![Other(s)] = IF end[s].channel = "open" /\ end[Other(s)].epoch = end[s].epoch
                          THEN Append(@, "closed") ELSE @]
Close(s) ==
  /\ end' = [end EXCEPT ![s] = Idle]
  /\ wire' = Hangup(s, wire)

Post(s, command) == outbox' = [outbox EXCEPT ![s] = Append(@, command)]

\* fail(): close, and tell the coordinator.
Fail(s) ==
  /\ Close(s)
  /\ Post(s, Event("failed", end[s].epoch))

\* A new epoch replaces the connection of the old one.
BePrepared(s, event) ==
  /\ end' = [end EXCEPT ![s] = [Idle EXCEPT !.epoch = event.epoch]]
  /\ wire' = Hangup(s, wire)
  /\ Post(s, Event("ack", event.epoch))

\* The offerer makes the channel and offers when both acknowledged.
BeStarted(s, event) ==
  /\ UNCHANGED wire
  /\ IF s = "offerer"
     THEN /\ end' = [end EXCEPT ![s].channel = "made"]
          /\ Post(s, Event("offer", event.epoch))
     ELSE UNCHANGED <<end, outbox>>

BeDescribed(s, event) ==
  /\ end' = [end EXCEPT ![s].described = TRUE]
  /\ UNCHANGED wire
  /\ IF event.type = "offer" THEN Post(s, Event("answer", event.epoch))
                             ELSE UNCHANGED outbox

\* PeerConnection.handle, and the replies to its requests.
Receive(s) ==
  /\ inbox[s] # <<>>
  /\ inbox' = [inbox EXCEPT ![s] = Tail(@)]
  /\ UNCHANGED <<socket, round, drawn, elsewhere>>
  /\ LET event   == Head(inbox[s])
         current == end[s].epoch = event.epoch
     IN \/ event.type = "stop" /\ Close(s) /\ UNCHANGED outbox
        \/ event.type = "prepare" /\ BePrepared(s, event)
        \/ event.type = "start" /\ current /\ BeStarted(s, event)
        \/ event.type \in {"offer", "answer"} /\ current /\ BeDescribed(s, event)
        \/ event.type = "rejected" /\ current /\ Fail(s)
        \/ /\ event.type = "admitted" /\ current
           /\ end' = [end EXCEPT ![s].ready = TRUE]
           /\ UNCHANGED <<wire, outbox>>
        \/ event.type \notin {"stop", "prepare"} /\ ~current /\ UNCHANGED <<end, wire, outbox>>

\* The transport is up; the offerer sends the first probe.
Open(s) ==
  /\ end[s].epoch # 0
  /\ end[Other(s)].epoch = end[s].epoch
  /\ \A t \in Side : end[t].described
  /\ end["offerer"].channel \in {"made", "open"}
  /\ end[s].channel # "open"
  /\ end' = [end EXCEPT ![s].channel = "open"]
  /\ wire' = IF s = "offerer" THEN [wire EXCEPT !["answerer"] = Append(@, "probe")] ELSE wire
  /\ UNCHANGED <<socket, round, drawn, elsewhere, inbox, outbox>>

Tested(e) == e.verified /\ e.replied

\* An answered probe and an answered challenge of its own complete an end,
\* which tells the coordinator (connected(), once its statistics arrived).
Complete(s, e) ==
  /\ end' = [end EXCEPT ![s] = e]
  /\ IF Tested(e) THEN Post(s, Event("connected", e.epoch)) ELSE UNCHANGED outbox

AnswerProbe(s) ==
  /\ Complete(s, [end[s] EXCEPT !.replied = TRUE])
  /\ wire' = [wire EXCEPT ![s] = Tail(@),
                ![Other(s)] = @ \o (IF s = "answerer" THEN <<"probe">> ELSE <<>>) \o <<"reply">>]

AcceptReply(s) ==
  /\ Complete(s, [end[s] EXCEPT !.verified = TRUE])
  /\ wire' = [wire EXCEPT ![s] = Tail(@)]

\* channel.onmessage: until the end is ready only the probe and its reply are
\* expected, and anything else fails the connection; then the game reads.
Message(s) ==
  /\ end[s].channel = "open"
  /\ wire[s] # <<>>
  /\ UNCHANGED <<socket, round, drawn, elsewhere, inbox>>
  /\ LET m == Head(wire[s]) IN
     CASE m = "closed"                          -> Fail(s)
       [] m = "probe" /\ ~end[s].replied        -> AnswerProbe(s)
       [] m = "reply" /\ ~end[s].verified       -> AcceptReply(s)
       [] m = "lease" /\ end[s].ready           -> /\ wire' = [wire EXCEPT ![s] = Tail(@)]
                                                   /\ UNCHANGED <<end, outbox>>
       [] OTHER                                 -> Fail(s)

\* The transport fails, or the timer that runs until the channel is verified.
Break(s) ==
  /\ end[s].epoch # 0
  /\ Fail(s)
  /\ UNCHANGED <<socket, round, drawn, elsewhere, inbox>>

\* retryPeer: the epoch is the one the room shows.
Retry(s) ==
  /\ socket[s] # 0
  /\ outbox[s] = <<>>
  /\ round # None
  /\ Post(s, Event("retry", round.epoch))
  /\ UNCHANGED <<socket, round, drawn, elsewhere, inbox, end, wire>>

\* renewInputs: in a game under way, the host leases input to a linked owner.
\* Bound: leases a ready guest merely reads are left out.
Lease ==
  LET guest == Other(HostSide) IN
  /\ end[HostSide].ready
  /\ ~end[guest].ready
  /\ "lease" \notin {wire[guest][i] : i \in DOMAIN wire[guest]}
  /\ wire' = [wire EXCEPT ![guest] = Append(@, "lease")]
  /\ UNCHANGED <<socket, round, drawn, elsewhere, inbox, outbox, end>>

\* The coordinator finds the socket of a session closed, and publishes the
\* room.  What was on the way is lost; the browser finds out by itself and then
\* closes its peers (closePeers), as at a stop.  That it finds out first is a
\* Break whose report is lost here.
Detach(s) ==
  /\ socket[s] # 0
  /\ socket' = [socket EXCEPT ![s] = 0]
  /\ LET st   == Sync(Now)
         lost == IF end[s].epoch = 0 THEN <<>> ELSE <<Event("stop", end[s].epoch)>>
     IN Install([st EXCEPT !.inbox[s] = lost])
  /\ outbox' = [outbox EXCEPT ![s] = <<>>]
  /\ UNCHANGED <<elsewhere, end, wire>>

\* A session attaches, after the browser closed its peers; one that still had a
\* socket loses the old one.
Attach(s) ==
  /\ socket[s] = 0 => inbox[s] = <<>>
  /\ socket' = [socket EXCEPT ![s] = IF @ = 1 THEN 2 ELSE 1]
  /\ LET st == Sync([Now EXCEPT !.inbox[s] = <<>>]) IN Install(st)
  /\ outbox' = [outbox EXCEPT ![s] = <<>>]
  /\ Close(s)
  /\ UNCHANGED elsewhere

Init ==
  /\ socket = [s \in Side |-> IF s \in Dropping THEN 0 ELSE 1]
  /\ round = None
  /\ drawn = 0
  /\ elsewhere = 0
  /\ inbox = [s \in Side |-> <<>>]
  /\ outbox = [s \in Side |-> <<>>]
  /\ end = [s \in Side |-> Idle]
  /\ wire = [s \in Side |-> <<>>]

Next ==
  \/ SweepRound
  \/ Elsewhere
  \/ Lease
  \/ \E s \in Side : \/ Handle(s) \/ Receive(s) \/ Open(s) \/ Message(s)
                     \/ Break(s) \/ Retry(s)
  \/ \E s \in Dropping : Detach(s) \/ Attach(s)

\* The sweep runs every second; nobody has to answer.
Fairness == WF_vars(SweepRound)

Spec == Init /\ [][Next]_vars /\ Fairness

-----------------------------------------------------------------------------
Round ==
  [epoch : 1..MaxEpoch, status : {"preparing", "connecting", "connected", "failed"},
   acks : SUBSET Side, connected : SUBSET Side, described : SUBSET Side,
   relay : BOOLEAN, socket : [Side -> 0..2]]
End ==
  [epoch : 0..MaxEpoch, described : BOOLEAN, channel : {"none", "made", "open"},
   replied : BOOLEAN, verified : BOOLEAN, ready : BOOLEAN]

ASSUME NoneAssumption == None \notin Round

\* Every variable has its type, and rounds and connections their fields.
TypeOK ==
  /\ socket \in [Side -> 0..2]
  /\ round \in Round \cup {None}
  /\ drawn \in 0..MaxEpoch
  /\ elsewhere \in 0..RelayPairs
  /\ end \in [Side -> End]
  /\ \A s \in Side : \A i \in DOMAIN inbox[s] : inbox[s][i].epoch \in 0..MaxEpoch
  /\ \A s \in Side : \A i \in DOMAIN outbox[s] : outbox[s][i].epoch \in 0..MaxEpoch
  /\ \A s \in Side : \A i \in DOMAIN wire[s] : wire[s][i] \in {"probe", "reply", "lease", "closed"}

\* Pairs that fail, retry and leave never make the relay hand out more slots
\* than it is configured for, and a failed round holds none (peer.ts:37-51).
RelaySlots ==
  /\ elsewhere + Holds(round) <= RelayPairs
  /\ round # None /\ round.status = "failed" => ~round.relay

Waiting(box, type, epoch) ==
  \E i \in DOMAIN box : box[i].type = type /\ box[i].epoch = epoch

\* The two views converge: a browser that still has a connection whose round is
\* over has the notice on its way, and a round in progress that a browser has
\* no connection for has the invitation or the failure on its way
\* (peer.ts:21, 31-58, client peer.ts:28-33).
ViewsConverge ==
  \A s \in Side :
    /\ end[s].epoch # 0 /\ ~(Live(round) /\ round.epoch = end[s].epoch)
         => \E i \in DOMAIN inbox[s] : inbox[s][i].type = "stop"
    /\ socket[s] # 0 /\ Live(round) /\ round.epoch # end[s].epoch
         => \/ Waiting(inbox[s], "prepare", round.epoch)
            \/ Waiting(outbox[s], "failed", round.epoch)

\* A round that is being prepared or connected ends, connected or not: an end
\* that never answers cannot hold the pair or its relay slot (peer.ts:78-83).
RoundsSettle ==
  \A n \in 1..MaxEpoch :
    (Live(round) /\ round.epoch = n /\ round.status # "connected")
      ~> ~(Live(round) /\ round.epoch = n /\ round.status # "connected")

=============================================================================
