--------------------------- MODULE PeerLinkProofs ---------------------------
(***************************************************************************)
(* However rounds start, are retried, time out and fail while sockets come *)
(* and go: the broker stays within its relay pairs, and once everything on *)
(* its way is read the two browsers and the coordinator agree on the round.*)
(* The invariant says where each browser is heading: it follows the events *)
(* it has still to read, which the coordinator sends in order, and a       *)
(* connection it gave up itself is on its way to the coordinator.          *)
(***************************************************************************)
EXTENDS PeerLink, SequenceTheorems, TLAPS

Note ==
  [type : {"prepare", "start", "stop", "offer", "answer", "rejected", "admitted"},
   epoch : 1..MaxEpoch]
Command ==
  [type : {"ack", "connected", "failed", "retry", "offer", "answer"}, epoch : 1..MaxEpoch]
Packet == {"probe", "reply", "lease", "closed"}

\* The events that change which round a browser has a connection for.
Turns(event) == event.type \in {"prepare", "stop"}
LastTurn(box, j) == \A i \in DOMAIN box : j < i => ~Turns(box[i])
NoTurn(box) == \A i \in DOMAIN box : ~Turns(box[i])

\* A connection is stopped before the next one is prepared.
Separate(box, n) ==
  \A i \in DOMAIN box : box[i].type = "prepare" =>
    /\ n # 0 => \E k \in DOMAIN box : k < i /\ box[k].type = "stop"
    /\ \A h \in DOMAIN box : h < i /\ box[h].type = "prepare" =>
         \E k \in DOMAIN box : h < k /\ k < i /\ box[k].type = "stop"

\* A browser that reads what is on its way ends with a connection for the round,
\* unless it has given that up, or without one when there is none.
Ends(box, out, n, r) ==
  IF Live(r)
  THEN \/ \E j \in DOMAIN box : box[j].type = "prepare" /\ box[j].epoch = r.epoch /\ LastTurn(box, j)
       \/ NoTurn(box) /\ n = r.epoch
       \/ NoTurn(box) /\ n = 0 /\ Waiting(out, "failed", r.epoch)
  ELSE \/ \E j \in DOMAIN box : box[j].type = "stop" /\ LastTurn(box, j)
       \/ NoTurn(box) /\ n = 0

Agrees(box, out, n, r) == Separate(box, n) /\ Ends(box, out, n, r)

Typed ==
  /\ socket \in [Side -> 0..2]
  /\ round \in Round \cup {None}
  /\ drawn \in 0..MaxEpoch
  /\ elsewhere \in 0..RelayPairs
  /\ inbox \in [Side -> Seq(Note)]
  /\ outbox \in [Side -> Seq(Command)]
  /\ end \in [Side -> End]
  /\ wire \in [Side -> Seq(Packet)]

\* A round is between the sockets there are, and only a connection has a channel.
Attached ==
  /\ round # None => round.socket = socket /\ \A s \in Side : socket[s] # 0
  /\ \A s \in Side : end[s].channel # "none" => end[s].epoch # 0

Inv ==
  /\ Typed
  /\ Attached
  /\ RelaySlots
  /\ \A s \in Side : Agrees(inbox[s], outbox[s], end[s].epoch, round)

-----------------------------------------------------------------------------
\* One message more at the end of a channel.
LEMMA Boxes ==
  ASSUME NEW S, NEW box \in Seq(S), NEW x \in S
  PROVE  /\ Append(box, x) \in Seq(S)
         /\ Len(box) \in Nat
         /\ Len(Append(box, x)) = Len(box) + 1
         /\ DOMAIN box = 1..Len(box)
         /\ DOMAIN Append(box, x) = 1..(Len(box) + 1)
         /\ \A i \in 1..Len(box) : box[i] \in S /\ Append(box, x)[i] = box[i]
         /\ Append(box, x)[Len(box) + 1] = x
BY AppendProperties, LenProperties, ElementOfSeq

\* A channel without its first message.
LEMMA Rests ==
  ASSUME NEW S, NEW box \in Seq(S), box # <<>>
  PROVE  /\ Tail(box) \in Seq(S)
         /\ Len(box) \in Nat /\ Len(box) >= 1
         /\ Len(Tail(box)) = Len(box) - 1
         /\ DOMAIN box = 1..Len(box)
         /\ DOMAIN Tail(box) = 1..(Len(box) - 1)
         /\ \A i \in 1..(Len(box) - 1) : Tail(box)[i] = box[i + 1]
         /\ Head(box) = box[1] /\ Head(box) \in S
         /\ \A i \in 1..Len(box) : box[i] \in S
BY HeadTailProperties, LenProperties, ElementOfSeq, EmptySeq

\* An event that turns nothing leaves a browser where it was heading.
LEMMA OtherAppended ==
  ASSUME NEW box \in Seq(Note), NEW x \in Note, ~Turns(x),
         NEW out, NEW n, NEW r, Agrees(box, out, n, r)
  PROVE  Agrees(Append(box, x), out, n, r)
<1> DEFINE new == Append(box, x)
<1>1. /\ Len(box) \in Nat
      /\ DOMAIN box = 1..Len(box)
      /\ DOMAIN new = 1..(Len(box) + 1)
      /\ \A i \in 1..Len(box) : new[i] = box[i]
      /\ new[Len(box) + 1] = x
  BY Boxes
<1> HIDE DEF new
<1>2. Separate(new, n)
  <2> SUFFICES ASSUME NEW i \in DOMAIN new, new[i].type = "prepare"
               PROVE  /\ n # 0 => \E k \in DOMAIN new : k < i /\ new[k].type = "stop"
                      /\ \A h \in DOMAIN new : h < i /\ new[h].type = "prepare" =>
                           \E k \in DOMAIN new : h < k /\ k < i /\ new[k].type = "stop"
    BY DEF Separate
  <2>1. i \in DOMAIN box /\ box[i].type = "prepare" BY <1>1 DEF Turns
  <2> QED BY <1>1, <2>1 DEF Agrees, Separate
<1>4. NoTurn(box) => NoTurn(new) BY <1>1 DEF NoTurn
<1>5. \A j \in DOMAIN box : j \in DOMAIN new /\ new[j] = box[j] BY <1>1
<1>6. Ends(new, out, n, r) BY <1>1, <1>4, <1>5 DEF Agrees, Ends, LastTurn
<1> QED BY <1>2, <1>6 DEF Agrees, new

\* A stop at the end leaves the browser without a connection.
LEMMA StopAppended ==
  ASSUME NEW box \in Seq(Note), NEW x \in Note, x.type = "stop",
         NEW out, NEW n, NEW r, ~Live(r), Separate(box, n)
  PROVE  Agrees(Append(box, x), out, n, r)
<1> DEFINE new == Append(box, x)
<1>1. /\ Len(box) \in Nat
      /\ DOMAIN box = 1..Len(box)
      /\ DOMAIN new = 1..(Len(box) + 1)
      /\ \A i \in 1..Len(box) : new[i] = box[i]
      /\ new[Len(box) + 1] = x
  BY Boxes
<1> HIDE DEF new
<1>2. Separate(new, n)
  <2> SUFFICES ASSUME NEW i \in DOMAIN new, new[i].type = "prepare"
               PROVE  /\ n # 0 => \E k \in DOMAIN new : k < i /\ new[k].type = "stop"
                      /\ \A h \in DOMAIN new : h < i /\ new[h].type = "prepare" =>
                           \E k \in DOMAIN new : h < k /\ k < i /\ new[k].type = "stop"
    BY DEF Separate
  <2>1. i \in DOMAIN box /\ box[i].type = "prepare" BY <1>1
  <2> QED BY <1>1, <2>1 DEF Separate
<1>3. LastTurn(new, Len(box) + 1) BY <1>1 DEF LastTurn
<1>4. Ends(new, out, n, r) BY <1>1, <1>3 DEF Ends
<1> QED BY <1>2, <1>4 DEF Agrees, new

\* A prepare at the end leads the browser to the new round, if a stop is
\* before it or nothing is left of the last round.
LEMMA PrepareAppended ==
  ASSUME NEW box \in Seq(Note), NEW x \in Note, x.type = "prepare",
         NEW out, NEW n, NEW r, ~Live(r), Agrees(box, out, n, r),
         NEW q, Live(q), q.epoch = x.epoch
  PROVE  Agrees(Append(box, x), out, n, q)
<1> DEFINE new == Append(box, x)
<1>1. /\ Len(box) \in Nat
      /\ DOMAIN box = 1..Len(box)
      /\ DOMAIN new = 1..(Len(box) + 1)
      /\ \A i \in 1..Len(box) : new[i] = box[i]
      /\ new[Len(box) + 1] = x
  BY Boxes
<1> HIDE DEF new
<1>2. Separate(new, n)
  <2> SUFFICES ASSUME NEW i \in DOMAIN new, new[i].type = "prepare"
               PROVE  /\ n # 0 => \E k \in DOMAIN new : k < i /\ new[k].type = "stop"
                      /\ \A h \in DOMAIN new : h < i /\ new[h].type = "prepare" =>
                           \E k \in DOMAIN new : h < k /\ k < i /\ new[k].type = "stop"
    BY DEF Separate
  <2>1. CASE i \in DOMAIN box BY <1>1, <2>1 DEF Agrees, Separate
  <2>2. CASE i = Len(box) + 1
    <3>1. CASE NoTurn(box) /\ n = 0 BY <1>1, <2>2, <3>1 DEF NoTurn, Turns
    <3>2. CASE \E j \in DOMAIN box : box[j].type = "stop" /\ LastTurn(box, j)
      <4>1. PICK j \in DOMAIN box : box[j].type = "stop" /\ LastTurn(box, j) BY <3>2
      <4>2. j \in DOMAIN new /\ j < i /\ new[j].type = "stop" BY <1>1, <4>1, <2>2
      <4>3. ASSUME NEW h \in DOMAIN new, h < i, new[h].type = "prepare"
            PROVE  h < j
        BY <4>3, <1>1, <2>2, <4>1 DEF LastTurn, Turns
      <4> QED BY <4>2, <4>3
    <3> QED BY <3>1, <3>2 DEF Agrees, Ends
  <2> QED BY <2>1, <2>2, <1>1
<1>3. LastTurn(new, Len(box) + 1) BY <1>1 DEF LastTurn
<1>4. Ends(new, out, n, q) BY <1>1, <1>3 DEF Ends
<1> QED BY <1>2, <1>4 DEF Agrees, new

\* What is ahead of a browser after it read an event.
LEMMA HeadRead ==
  ASSUME NEW box \in Seq(Note), box # <<>>, NEW out, NEW n, NEW r, Agrees(box, out, n, r),
         NEW m, m = IF Head(box).type = "stop" THEN 0
                    ELSE IF Head(box).type = "prepare" THEN Head(box).epoch ELSE n
  PROVE  Agrees(Tail(box), out, m, r)
<1> DEFINE new == Tail(box)
<1>1. /\ Len(box) \in Nat /\ Len(box) >= 1
      /\ DOMAIN box = 1..Len(box)
      /\ DOMAIN new = 1..(Len(box) - 1)
      /\ \A i \in 1..(Len(box) - 1) : new[i] = box[i + 1]
      /\ Head(box) = box[1]
  BY Rests
<1> HIDE DEF new
<1>2. Separate(new, m)
  <2> SUFFICES ASSUME NEW i \in DOMAIN new, new[i].type = "prepare"
               PROVE  /\ m # 0 => \E k \in DOMAIN new : k < i /\ new[k].type = "stop"
                      /\ \A h \in DOMAIN new : h < i /\ new[h].type = "prepare" =>
                           \E k \in DOMAIN new : h < k /\ k < i /\ new[k].type = "stop"
    BY DEF Separate
  <2>0. i + 1 \in DOMAIN box /\ box[i + 1].type = "prepare" BY <1>1
  <2>1. ASSUME m # 0
        PROVE  \E k \in DOMAIN new : k < i /\ new[k].type = "stop"
    <3>1. CASE box[1].type = "prepare"
      <4>1. PICK k \in DOMAIN box : 1 < k /\ k < i + 1 /\ box[k].type = "stop"
        BY <1>1, <2>0, <3>1 DEF Agrees, Separate
      <4>2. k - 1 \in DOMAIN new /\ k - 1 < i /\ new[k - 1].type = "stop" BY <1>1, <4>1
      <4> QED BY <4>2
    <3>2. CASE box[1].type # "prepare"
      <4>1. PICK k \in DOMAIN box : k < i + 1 /\ box[k].type = "stop"
        BY <1>1, <2>0, <2>1, <3>2 DEF Agrees, Separate
      <4>2. k # 1 BY <1>1, <2>1, <4>1, <3>2
      <4>3. k - 1 \in DOMAIN new /\ k - 1 < i /\ new[k - 1].type = "stop" BY <1>1, <4>1, <4>2
      <4> QED BY <4>3
    <3> QED BY <3>1, <3>2
  <2>2. ASSUME NEW h \in DOMAIN new, h < i, new[h].type = "prepare"
        PROVE  \E k \in DOMAIN new : h < k /\ k < i /\ new[k].type = "stop"
    <3>2. PICK k \in DOMAIN box : h + 1 < k /\ k < i + 1 /\ box[k].type = "stop"
      BY <2>0, <1>1, <2>2 DEF Agrees, Separate
    <3>3. k - 1 \in DOMAIN new /\ h < k - 1 /\ k - 1 < i /\ new[k - 1].type = "stop" BY <1>1, <3>2
    <3> QED BY <3>3
  <2> QED BY <2>1, <2>2
<1>3. NoTurn(box) => NoTurn(new) /\ m = n BY <1>1 DEF NoTurn, Turns
<1>4. ASSUME NEW j \in DOMAIN box, LastTurn(box, j), j # 1
      PROVE  j - 1 \in DOMAIN new /\ new[j - 1] = box[j] /\ LastTurn(new, j - 1)
  BY <1>1, <1>4 DEF LastTurn
<1>5. ASSUME LastTurn(box, 1) PROVE NoTurn(new) BY <1>1, <1>5 DEF LastTurn, NoTurn
<1>6. Ends(new, out, m, r)
  <2>1. CASE NoTurn(box) BY <1>3, <2>1, <1>1 DEF Agrees, Ends, NoTurn, Turns
  <2>2. CASE \E j \in DOMAIN box : LastTurn(box, j) /\ box[j].type = "prepare" /\ Live(r) /\ box[j].epoch = r.epoch
    <3>1. PICK j \in DOMAIN box : LastTurn(box, j) /\ box[j].type = "prepare" /\ Live(r) /\ box[j].epoch = r.epoch
      BY <2>2
    <3>2. CASE j = 1 BY <3>1, <3>2, <1>5, <1>1 DEF Ends
    <3>3. CASE j # 1 BY <3>1, <3>3, <1>4 DEF Ends
    <3> QED BY <3>2, <3>3
  <2>3. CASE \E j \in DOMAIN box : LastTurn(box, j) /\ box[j].type = "stop" /\ ~Live(r)
    <3>1. PICK j \in DOMAIN box : LastTurn(box, j) /\ box[j].type = "stop" /\ ~Live(r) BY <2>3
    <3>2. CASE j = 1 BY <3>1, <3>2, <1>5, <1>1 DEF Ends
    <3>3. CASE j # 1 BY <3>1, <3>3, <1>4 DEF Ends
    <3> QED BY <3>2, <3>3
  <2> QED BY <2>1, <2>2, <2>3 DEF Agrees, Ends
<1> QED BY <1>2, <1>6 DEF Agrees, new

-----------------------------------------------------------------------------
(* What a browser reads and writes.                                        *)

\* A socket that lost everything, and a browser without a connection, agree on
\* no round.
LEMMA Emptied ==
  ASSUME NEW out, NEW r, ~Live(r)
  PROVE  Agrees(<<>>, out, 0, r)
BY DEF Agrees, Separate, Ends, NoTurn

\* What a round becomes while it lasts changes nothing for the browsers.
LEMMA GoesOn ==
  ASSUME NEW box, NEW out, NEW n, NEW r, Agrees(box, out, n, r), Live(r),
         NEW q, Live(q), q.epoch = r.epoch
  PROVE  Agrees(box, out, n, q)
BY DEF Agrees, Ends

\* Nor does one command more.
LEMMA CommandAdded ==
  ASSUME NEW box, NEW out \in Seq(Command), NEW n, NEW r, Agrees(box, out, n, r),
         NEW c \in Command
  PROVE  Agrees(box, Append(out, c), n, r)
BY Boxes DEF Waiting, Agrees, Ends

\* Nor does a command the coordinator read, unless it says that the round failed.
LEMMA CommandTaken ==
  ASSUME NEW box, NEW out \in Seq(Command), out # <<>>, NEW n, NEW r, Agrees(box, out, n, r),
         Live(r) => Head(out).type # "failed" \/ Head(out).epoch # r.epoch
  PROVE  Agrees(box, Tail(out), n, r)
<1>1. /\ DOMAIN out = 1..Len(out) /\ DOMAIN Tail(out) = 1..(Len(out) - 1) /\ Len(out) \in Nat
      /\ \A i \in 1..(Len(out) - 1) : Tail(out)[i] = out[i + 1]
      /\ Head(out) = out[1]
  BY Rests
<1>2. ASSUME Live(r), Waiting(out, "failed", r.epoch)
      PROVE  Waiting(Tail(out), "failed", r.epoch)
  <2>1. PICK i \in DOMAIN out : out[i].type = "failed" /\ out[i].epoch = r.epoch BY <1>2 DEF Waiting
  <2>2. i # 1 BY <1>1, <1>2, <2>1
  <2>3. i - 1 \in DOMAIN Tail(out) /\ Tail(out)[i - 1] = out[i] BY <1>1, <2>1, <2>2
  <2> QED BY <2>1, <2>3 DEF Waiting
<1> QED BY <1>2 DEF Agrees, Ends

\* A browser that gives its connection up and says so still agrees.
LEMMA GivenUp ==
  ASSUME NEW box, NEW out \in Seq(Command), NEW n \in 1..MaxEpoch, NEW r, Agrees(box, out, n, r),
         NEW c \in Command, c.type = "failed", c.epoch = n
  PROVE  Agrees(box, Append(out, c), 0, r)
BY Boxes DEF Waiting, Agrees, Separate, Ends

-----------------------------------------------------------------------------
(* What the coordinator publishes.                                         *)

Station == [round : Round \cup {None}, drawn : 0..MaxEpoch, inbox : [Side -> Seq(Note)]]

Slots(r) ==
  /\ elsewhere + Holds(r) <= RelayPairs
  /\ r # None /\ r.status = "failed" => ~r.relay

\* A handler may publish the room: who has another socket than the round was
\* opened with has nothing on its way and no connection.
Publishable(st) ==
  /\ st \in Station
  /\ Slots(st.round)
  /\ st.round # None => \A s \in Side : st.round.socket[s] # 0
  /\ \A s \in Side :
       IF st.round # None /\ st.round.socket[s] # socket'[s]
       THEN st.inbox[s] = <<>> /\ end'[s].epoch = 0
       ELSE Agrees(st.inbox[s], outbox'[s], end'[s].epoch, st.round)

\* The room is published.
Published(st) ==
  /\ st \in Station
  /\ Slots(st.round)
  /\ st.round # None => st.round.socket = socket' /\ \A s \in Side : socket'[s] # 0
  /\ \A s \in Side : Agrees(st.inbox[s], outbox'[s], end'[s].epoch, st.round)

\* The coordinator tells the browsers what it has to.
LEMMA Told ==
  ASSUME NEW box \in [Side -> Seq(Note)], NEW r \in Round, NEW x \in Note
  PROVE  /\ Tell(box, r, x) \in [Side -> Seq(Note)]
         /\ \A s \in Side :
              Tell(box, r, x)[s] = IF r.socket[s] # 0 /\ r.socket[s] = socket'[s]
                                   THEN Append(box[s], x) ELSE box[s]
BY Boxes DEF Tell

\* The events that one publication may send are notes.
LEMMA Events ==
  ASSUME NEW e \in 1..MaxEpoch
  PROVE  /\ Event("stop", e) \in Note /\ Event("prepare", e) \in Note /\ Event("start", e) \in Note
         /\ Event("rejected", e) \in Note /\ Event("admitted", e) \in Note
         /\ Event("ack", e) \in Command /\ Event("failed", e) \in Command /\ Event("offer", e) \in Command
         /\ Event("answer", e) \in Command /\ Event("connected", e) \in Command
         /\ Event("retry", e) \in Command
         /\ \A t : Event(t, e).type = t /\ Event(t, e).epoch = e
BY DEF Event, Note, Command

\* clear() ends the round and stops both browsers.
LEMMA Cleared ==
  ASSUME NEW st, Publishable(st), elsewhere \in 0..RelayPairs
  PROVE  /\ Clear(st) \in Station /\ Clear(st).round = None /\ Clear(st).drawn = st.drawn
         /\ Publishable(Clear(st))
         /\ \A s \in Side : Agrees(Clear(st).inbox[s], outbox'[s], end'[s].epoch, None)
<1> USE PeerAssumption
<1>0. st \in Station BY DEF Publishable
<1>1. CASE st.round = None BY <1>1 DEF Clear, Publishable
<1>2. CASE st.round # None
  <2> DEFINE r == st.round
             x == Event("stop", r.epoch)
  <2>0. r \in Round /\ r.epoch \in 1..MaxEpoch BY <1>0, <1>2 DEF Station, Round
  <2>1. r \in Round /\ x \in Note /\ x.type = "stop" BY <2>0, Events
  <2>3. /\ Tell(st.inbox, r, x) \in [Side -> Seq(Note)]
        /\ \A s \in Side :
              Tell(st.inbox, r, x)[s] = IF r.socket[s] # 0 /\ r.socket[s] = socket'[s]
                                        THEN Append(st.inbox[s], x) ELSE st.inbox[s]
    BY <2>1, <1>0, Told DEF Station
  <2>4. /\ Clear(st) \in Station /\ Clear(st).round = None /\ Clear(st).drawn = st.drawn
        /\ Clear(st).inbox = Tell(st.inbox, r, x)
    BY <1>0, <1>2, <2>3 DEF Station, Clear
  <2> HIDE DEF x
  <2>5. ASSUME NEW s \in Side
        PROVE  Agrees(Clear(st).inbox[s], outbox'[s], end'[s].epoch, None)
    <3>1. CASE r.socket[s] # socket'[s] BY <2>3, <2>4, <3>1, <1>2, Emptied DEF Publishable, Live
    <3>2. CASE r.socket[s] = socket'[s]
      BY <2>3, <2>4, <3>2, <1>2, <1>0, <2>1, StopAppended DEF Publishable, Agrees, Station, Live
    <3> QED BY <3>1, <3>2
  <2>6. Slots(None) BY DEF Slots, Holds
  <2> QED BY <2>4, <2>5, <2>6 DEF Publishable
<1> QED BY <1>1, <1>2

\* sync() agrees with both browsers whatever it does.
LEMMA Synced ==
  ASSUME NEW st, Publishable(st), elsewhere \in 0..RelayPairs, socket' \in [Side -> 0..2],
         Sync(st).drawn <= MaxEpoch
  PROVE  Published(Sync(st))
<1> USE PeerAssumption
<1>0. st \in Station BY DEF Publishable
<1>1. CASE \E s \in Side : socket'[s] = 0 BY <1>1, Cleared DEF Sync, Publishable, Published
<1>2. CASE (\A s \in Side : socket'[s] # 0) /\ st.round # None /\ st.round.socket = socket'
  BY <1>2 DEF Sync, Publishable, Published
<1>3. CASE (\A s \in Side : socket'[s] # 0) /\ ~(st.round # None /\ st.round.socket = socket')
  <2> DEFINE c == Clear(st)
             q == Opened(st.drawn + 1)
             x == Event("prepare", q.epoch)
  <2>1. Sync(st) = [round |-> q, drawn |-> st.drawn + 1, inbox |-> Tell(c.inbox, q, x)]
    BY <1>3 DEF Sync
  <2>2. st.drawn \in Nat /\ st.drawn + 1 \in 1..MaxEpoch BY <2>1, <1>0 DEF Station
  <2>3. q \in Round /\ q.epoch = st.drawn + 1 /\ q.status = "preparing" /\ q.socket = socket'
        /\ (q.relay => elsewhere < RelayPairs)
    <3>2. q.relay => elsewhere < RelayPairs BY DEF Opened
    <3>3. (elsewhere < RelayPairs) \in BOOLEAN OBVIOUS
    <3>4. q \in Round BY <2>2, <3>3, Zenon DEF Opened, Round
    <3> QED BY <3>2, <3>4 DEF Opened
  <2>4. x \in Note /\ x.type = "prepare" /\ x.epoch = q.epoch
    <3>1. q.epoch \in 1..MaxEpoch BY <2>2, <2>3
    <3> HIDE DEF q
    <3> QED BY <3>1, Events
  <2>5. c \in Station /\ \A s \in Side : Agrees(c.inbox[s], outbox'[s], end'[s].epoch, None)
    BY Cleared
  <2> HIDE DEF c, q, x
  <2>6. Live(q) /\ ~Live(None) BY <2>3, NoneAssumption DEF Live
  <2>7. /\ Tell(c.inbox, q, x) \in [Side -> Seq(Note)]
        /\ \A s \in Side : Tell(c.inbox, q, x)[s] = Append(c.inbox[s], x)
    <3>1. c.inbox \in [Side -> Seq(Note)] BY <2>5 DEF Station
    <3>2. /\ Tell(c.inbox, q, x) \in [Side -> Seq(Note)]
          /\ \A s \in Side :
               Tell(c.inbox, q, x)[s] = IF q.socket[s] # 0 /\ q.socket[s] = socket'[s]
                                        THEN Append(c.inbox[s], x) ELSE c.inbox[s]
      BY <3>1, <2>3, <2>4, Told
    <3> QED BY <3>2, <2>3, <1>3
  <2>8. \A s \in Side : Agrees(Append(c.inbox[s], x), outbox'[s], end'[s].epoch, q)
    BY <2>4, <2>5, <2>6, PrepareAppended DEF Station
  <2>9. Slots(q) BY <2>3 DEF Holds, Slots
  <2>10. Sync(st) \in Station BY <2>1, <2>2, <2>3, <2>7 DEF Station
  <2>11. /\ Sync(st).round = q /\ q.socket = socket'
         /\ \A s \in Side : Sync(st).inbox[s] = Append(c.inbox[s], x)
    BY <2>1, <2>3, <2>7
  <2> QED BY <2>8, <2>9, <2>10, <2>11, <1>3 DEF Published
<1> QED BY <1>1, <1>2, <1>3

-----------------------------------------------------------------------------
(* The handlers of the coordinator.                                        *)

\* What a handler of the coordinator leaves is what holds afterwards.
LEMMA Installed ==
  ASSUME NEW st, Published(st), Install(st), elsewhere \in 0..RelayPairs, elsewhere' = elsewhere,
         socket' \in [Side -> 0..2], outbox' \in [Side -> Seq(Command)],
         end' \in [Side -> End], wire' \in [Side -> Seq(Packet)],
         \A s \in Side : end'[s].channel # "none" => end'[s].epoch # 0
  PROVE  Inv'
<1>1. round' = st.round /\ drawn' = st.drawn /\ inbox' = st.inbox BY DEF Install
<1>2. Typed' BY <1>1 DEF Published, Station, Typed
<1>3. Attached' BY <1>1 DEF Published, Attached
<1>4. RelaySlots' BY <1>1 DEF Published, Slots, RelaySlots, Holds
<1> QED
  BY <1>2, <1>3, <1>4, <1>1 DEF Inv, Agrees, Separate, Ends, Live, Waiting, NoTurn, LastTurn, Turns,
     Published

\* The state the handlers work on fits.
LEMMA Standing ==
  ASSUME Inv, socket' = socket, end' = end,
         \A s \in Side : Agrees(inbox[s], outbox'[s], end[s].epoch, round)
  PROVE  Publishable(Now) /\ Published(Now) /\ Now.round = round /\ Now.inbox = inbox
BY DEF Inv, Typed, Now, Station, RelaySlots, Slots, Attached, Publishable, Published

\* A round that goes on, in a state that fits.
LEMMA RoundMoved ==
  ASSUME NEW st, Publishable(st), Live(st.round),
         NEW q \in Round, q.status # "failed", q.epoch = st.round.epoch, q.socket = st.round.socket,
         q.relay = st.round.relay
  PROVE  /\ Publishable([st EXCEPT !.round = q])
         /\ [st EXCEPT !.round = q].round = q
<1> DEFINE new == [st EXCEPT !.round = q]
<1>1. new \in Station /\ new.round = q /\ new.inbox = st.inbox BY DEF Publishable, Station
<1>2. Live(q) /\ q # None /\ st.round # None BY NoneAssumption DEF Live
<1>3. Slots(q) BY <1>2 DEF Publishable, Slots, Holds
<1> HIDE DEF new
<1>5. Publishable(new) BY <1>1, <1>2, <1>3, GoesOn DEF Publishable
<1> QED BY <1>1, <1>5 DEF new

\* An event that turns nothing, in a state that fits.
LEMMA EventTold ==
  ASSUME NEW st, Publishable(st), st.round # None, NEW x \in Note, ~Turns(x)
  PROVE  Publishable([st EXCEPT !.inbox = Tell(@, st.round, x)])
<1> DEFINE new == [st EXCEPT !.inbox = Tell(@, st.round, x)]
<1>1. st \in Station /\ st.round \in Round /\ st.inbox \in [Side -> Seq(Note)]
  BY DEF Publishable, Station
<1>2. /\ Tell(st.inbox, st.round, x) \in [Side -> Seq(Note)]
      /\ \A s \in Side :
           Tell(st.inbox, st.round, x)[s] = IF st.round.socket[s] # 0 /\ st.round.socket[s] = socket'[s]
                                            THEN Append(st.inbox[s], x) ELSE st.inbox[s]
  BY <1>1, Told
<1>3. new \in Station /\ new.round = st.round /\ new.inbox = Tell(st.inbox, st.round, x)
  BY <1>1, <1>2 DEF Station
<1> HIDE DEF new
<1>4. ASSUME NEW s \in Side
      PROVE  IF st.round.socket[s] # socket'[s] THEN new.inbox[s] = <<>> /\ end'[s].epoch = 0
             ELSE Agrees(new.inbox[s], outbox'[s], end'[s].epoch, st.round)
  BY <1>2, <1>3, <1>1, OtherAppended DEF Publishable
<1>5. Publishable(new) BY <1>3, <1>4 DEF Publishable
<1> QED BY <1>5 DEF new

\* Such an event, told to one or both browsers.
LEMMA EventAdded ==
  ASSUME NEW st, Published(st), NEW x \in Note, ~Turns(x), NEW s \in Side
  PROVE  Published([st EXCEPT !.inbox[s] = Append(@, x)])
<1> DEFINE new == [st EXCEPT !.inbox[s] = Append(@, x)]
<1>1. st \in Station /\ st.inbox \in [Side -> Seq(Note)] BY DEF Published, Station
<1>2. Append(st.inbox[s], x) \in Seq(Note) BY <1>1, Boxes
<1>3. new \in Station /\ new.round = st.round
      /\ new.inbox = [st.inbox EXCEPT ![s] = Append(@, x)]
  BY <1>1, <1>2 DEF Station
<1> HIDE DEF new
<1>5. Agrees(Append(st.inbox[s], x), outbox'[s], end'[s].epoch, st.round)
  BY <1>1, OtherAppended DEF Published
<1>6. Published(new) BY <1>3, <1>1, <1>5 DEF Published
<1> QED BY <1>6 DEF new

\* A round that fails gives its relay slot back and stops both browsers.
LEMMA Failed ==
  ASSUME Inv, socket' = socket, end' = end, round # None,
         \A s \in Side : Separate(inbox[s], end[s].epoch)
  PROVE  Publishable(Failing(Now))
<1> DEFINE q == [round EXCEPT !.status = "failed", !.relay = FALSE]
           x == Event("stop", round.epoch)
           new == [round |-> q, drawn |-> drawn, inbox |-> Tell(inbox, round, x)]
<1>1. round \in Round /\ inbox \in [Side -> Seq(Note)] /\ drawn \in 0..MaxEpoch BY DEF Inv, Typed
<1>2. round.epoch \in 1..MaxEpoch BY <1>1 DEF Round
<1>3. x \in Note /\ x.type = "stop" BY <1>2, Events
<1>4. Failing(Now) = new
  <2>1. Failing(Now) = [[[Now EXCEPT !.round = [@ EXCEPT !.status = "failed"]]
                            EXCEPT !.round = [@ EXCEPT !.relay = FALSE]]
                            EXCEPT !.inbox = Tell(inbox, round, x)]
    BY DEF Failing, Now
  <2>2. [Now EXCEPT !.round = [@ EXCEPT !.status = "failed"]]
          = [round |-> [round EXCEPT !.status = "failed"], drawn |-> drawn, inbox |-> inbox]
    BY DEF Now
  <2>3. [[round EXCEPT !.status = "failed"] EXCEPT !.relay = FALSE] = q OBVIOUS
  <2> QED BY <2>1, <2>2, <2>3
<1>5. q \in Round /\ q.status = "failed" /\ q.relay = FALSE /\ q.socket = round.socket
  BY <1>1 DEF Round
<1>6. round.socket = socket /\ \A s \in Side : socket[s] # 0 BY DEF Inv, Attached
<1> HIDE DEF x, q
<1>7. /\ Tell(inbox, round, x) \in [Side -> Seq(Note)]
      /\ \A s \in Side : Tell(inbox, round, x)[s] = Append(inbox[s], x)
  <2>1. /\ Tell(inbox, round, x) \in [Side -> Seq(Note)]
        /\ \A s \in Side :
             Tell(inbox, round, x)[s] = IF round.socket[s] # 0 /\ round.socket[s] = socket'[s]
                                        THEN Append(inbox[s], x) ELSE inbox[s]
    BY <1>1, <1>3, Told
  <2> QED BY <2>1, <1>6
<1>8. ~Live(q) BY <1>5 DEF Live
<1>9. \A s \in Side : Agrees(Append(inbox[s], x), outbox'[s], end'[s].epoch, q)
  BY <1>1, <1>3, <1>8, StopAppended
<1>10. Slots(q) BY PeerAssumption, <1>5 DEF Inv, Typed, Slots, Holds
<1>11. new \in Station /\ new.round = q /\ \A s \in Side : new.inbox[s] = Append(inbox[s], x)
  BY <1>1, <1>5, <1>7 DEF Station
<1> HIDE DEF new
<1> QED BY <1>4, <1>5, <1>6, <1>9, <1>10, <1>11 DEF Publishable

\* An action that ends in a publication keeps the invariant.
LEMMA Publication ==
  ASSUME NEW st, Publishable(st), Install(Sync(st)), elsewhere \in 0..RelayPairs,
         socket' \in [Side -> 0..2]
  PROVE  Published(Sync(st))
BY Synced DEF Install

\* The round is a record with the epoch of a round.
LEMMA RoundTyped ==
  ASSUME Inv, round # None
  PROVE  /\ round \in Round /\ round.epoch \in 1..MaxEpoch /\ round.acks \subseteq Side
         /\ round.connected \subseteq Side /\ round.described \subseteq Side
         /\ round.status \in {"preparing", "connecting", "connected", "failed"}
         /\ round.relay \in BOOLEAN /\ round.socket = socket
         /\ \A s \in Side : socket[s] # 0
BY DEF Inv, Typed, Round, Attached

\* Every command the coordinator reads leaves a state that fits.
LEMMA Commanded ==
  ASSUME Inv, NEW s \in Side, outbox[s] # <<>>, socket' = socket, end' = end,
         outbox' = [outbox EXCEPT ![s] = Tail(@)],
         Accepts(s, Head(outbox[s])), Effect(s, Head(outbox[s])).drawn <= MaxEpoch
  PROVE  Published(Effect(s, Head(outbox[s])))
<1> DEFINE c == Head(outbox[s])
<1>1. outbox \in [Side -> Seq(Command)] /\ elsewhere \in 0..RelayPairs
      /\ socket' \in [Side -> 0..2]
  BY DEF Inv, Typed
<1>2. outbox[s] \in Seq(Command) /\ c \in Command BY <1>1, Rests
<1>4. /\ round # None /\ round.epoch = c.epoch
      /\ c.type = "ack" => round.status = "preparing"
      /\ c.type = "connected" => round.status \in {"connecting", "connected"}
      /\ Described(c) => round.status \in {"connecting", "connected"}
  BY DEF Accepts
<1>5. \A t \in Side : Agrees(inbox[t], outbox[t], end[t].epoch, round) BY DEF Inv
<1> HIDE DEF c
<1>6. CASE c.type = "failed" BY <1>4, <1>5, Failed, <1>6, <1>1, Synced DEF Agrees, Effect, c
<1>7. CASE c.type # "failed"
  <2>1. \A t \in Side : Agrees(inbox[t], outbox'[t], end[t].epoch, round)
    BY <1>2, <1>1, <1>5, <1>7, CommandTaken DEF c
  <2>2. Publishable(Now) /\ Published(Now) /\ Now.round = round /\ Now.inbox = inbox
    BY <2>1, Standing
  <2>3. CASE c.type = "ack"
    <3> DEFINE acks == round.acks \cup {s}
               q == IF acks = Side THEN [round EXCEPT !.acks = acks, !.status = "connecting"]
                    ELSE [round EXCEPT !.acks = acks]
               new == [Now EXCEPT !.round = q]
               x == Event("start", round.epoch)
    <3>1. /\ q \in Round /\ q.status # "failed" /\ q.epoch = round.epoch /\ q.socket = round.socket
          /\ q.relay = round.relay
      BY <1>4, <2>3, RoundTyped DEF Round
    <3>2. Live(round) BY <1>4, <2>3 DEF Live
    <3> HIDE DEF q
    <3>3. Publishable(new) /\ new.round = q BY <2>2, <3>1, <3>2, RoundMoved
    <3>4. x \in Note /\ ~Turns(x) BY <1>4, RoundTyped, Events DEF Turns
    <3>5. CASE acks = Side
      <4>1. q # None BY <3>1, NoneAssumption
      <4>3. \A box : Tell(box, round, x) = Tell(box, q, x) BY <3>1 DEF Tell
      <4>4. Acknowledged(s) = [new EXCEPT !.inbox = Tell(@, new.round, x)]
        BY <3>5, <4>3, <3>3 DEF Acknowledged, Now, q
      <4>5. Publishable(Acknowledged(s))
        <5> HIDE DEF new
        <5>1. new.round # None BY <4>1, <3>3
        <5> QED BY <5>1, <3>3, <3>4, EventTold, <4>4
      <4>6. Effect(s, c) = Sync(Acknowledged(s)) BY <2>3 DEF Effect
      <4> QED BY <4>5, <4>6, <1>1, Synced DEF c
    <3>6. CASE acks # Side BY <3>6, <2>3, <3>3, <1>1, Synced DEF Acknowledged, Now, q, Effect, c
    <3> QED BY <3>5, <3>6
  <2>4. CASE c.type = "connected"
    <3> DEFINE connected == round.connected \cup {s}
               q == [round EXCEPT !.connected = connected,
                                  !.status = IF connected = Side THEN "connected" ELSE @]
    <3>1. /\ q \in Round /\ q.status # "failed" /\ q.epoch = round.epoch /\ q.socket = round.socket
          /\ q.relay = round.relay
      BY <1>4, <2>4, RoundTyped DEF Round
    <3>2. Live(round) BY <1>4, <2>4 DEF Live
    <3>3. Reporting(s) = [Now EXCEPT !.round = q] BY DEF Reporting, Now
    <3> HIDE DEF q
    <3>4. Publishable(Reporting(s)) BY <2>2, <3>1, <3>2, <3>3, RoundMoved
    <3>5. Effect(s, c) = Sync(Reporting(s)) BY <2>4 DEF Effect
    <3> QED BY <3>4, <3>5, <1>1, Synced DEF c
  <2>5. CASE c.type = "retry" BY <2>2, <1>1, Cleared, <2>5, Synced DEF Effect, c
  <2>6. CASE c.type \in {"offer", "answer"}
    <3> DEFINE q == [round EXCEPT !.described = @ \cup {s}]
               new == [Now EXCEPT !.round = q]
    <3>1. /\ q \in Round /\ q.status # "failed" /\ q.epoch = round.epoch /\ q.socket = round.socket
          /\ q.relay = round.relay
      BY <1>4, <2>6, RoundTyped DEF Round, Described
    <3>2. Live(round) BY <1>4, <2>6 DEF Live, Described
    <3>3. c \in Note /\ ~Turns(c) BY <1>2, <2>6 DEF Note, Command, Turns
    <3> HIDE DEF q
    <3>4. Publishable(new) /\ new.round = q BY <2>2, <3>1, <3>2, RoundMoved
    <3>5. Published(new)
      <4> HIDE DEF new
      <4> QED BY <3>1, <3>4, <1>4, RoundTyped DEF Publishable, Published
    <3>6. Signalling(s, c) = [new EXCEPT !.inbox[Other(s)] = Append(@, c)]
      BY <1>4, RoundTyped DEF Signalling, Now, q
    <3>7. Other(s) \in Side BY DEF Other, Side
    <3>8. Published(Signalling(s, c))
      <4> HIDE DEF new
      <4>1. \A o \in Side : Published([new EXCEPT !.inbox[o] = Append(@, c)])
        BY <3>3, <3>5, EventAdded
      <4> QED BY <4>1, <3>6, <3>7
    <3>9. Effect(s, c) = Signalling(s, c) BY <2>6 DEF Effect
    <3> QED BY <3>8, <3>9 DEF c
  <2> QED BY <1>2, <1>7, <2>3, <2>4, <2>5, <2>6 DEF Command
<1> QED BY <1>6, <1>7

\* handle() keeps the invariant.
LEMMA HandleKeeps ==
  ASSUME Inv, NEW s \in Side, Handle(s)
  PROVE  Inv'
<1> DEFINE c == Head(outbox[s])
           st == IF Accepts(s, c) THEN Effect(s, c) ELSE Now
           r == Event("rejected", c.epoch)
           a == Event("admitted", c.epoch)
<1>1. /\ outbox[s] # <<>> /\ UNCHANGED <<socket, elsewhere, end, wire>>
      /\ outbox' = [outbox EXCEPT ![s] = Tail(@)]
      /\ \/ Install(st)
         \/ Install([st EXCEPT !.inbox[s] = Append(@, r)])
         \/ Install([st EXCEPT !.inbox[s] = Append(@, a)])
  BY DEF Handle
<1>2. /\ outbox \in [Side -> Seq(Command)] /\ elsewhere \in 0..RelayPairs /\ socket \in [Side -> 0..2]
      /\ end \in [Side -> End] /\ wire \in [Side -> Seq(Packet)]
      /\ \A t \in Side : end[t].channel # "none" => end[t].epoch # 0
      /\ \A t \in Side : Agrees(inbox[t], outbox[t], end[t].epoch, round)
      /\ round \in Round \cup {None}
  BY DEF Inv, Typed, Attached
<1>3. outbox[s] \in Seq(Command) /\ c \in Command /\ Tail(outbox[s]) \in Seq(Command)
  BY <1>1, <1>2, Rests
<1>4. c.epoch \in 1..MaxEpoch BY <1>3 DEF Command
<1>5. outbox' \in [Side -> Seq(Command)] BY <1>1, <1>2, <1>3
<1>6. r \in Note /\ a \in Note /\ ~Turns(r) /\ ~Turns(a) BY <1>4, Events DEF Turns
<1> HIDE DEF c, r, a
<1>7. st.drawn <= MaxEpoch BY <1>1 DEF Install
<1>8. Published(st)
  BY <1>1, <1>7, Commanded, <1>2, <1>3, CommandTaken, Standing DEF c, Accepts, Live, Described
<1> HIDE DEF st
<1>10. PICK p : Published(p) /\ Install(p) BY <1>1, <1>8, <1>6, EventAdded
<1> QED BY <1>1, <1>2, <1>5, <1>10, Installed

\* The sweep of the rounds that took too long keeps it.
LEMMA SweepKeeps ==
  ASSUME Inv, SweepRound
  PROVE  Inv'
BY Failed, Publication, Installed DEF SweepRound, Inv, Typed, Attached, Agrees

\* Other rooms take and give back relay pairs within the limit.
LEMMA ElsewhereKeeps ==
  ASSUME Inv, Elsewhere
  PROVE  Inv'
<1> USE PeerAssumption
<1>1. /\ UNCHANGED <<socket, round, drawn, inbox, outbox, end, wire>>
      /\ \/ elsewhere + Holds(round) < RelayPairs /\ elsewhere' = elsewhere + 1
         \/ elsewhere > 0 /\ elsewhere' = elsewhere - 1
  BY DEF Elsewhere
<1>3. elsewhere' \in 0..RelayPairs /\ elsewhere' + Holds(round) <= RelayPairs
  BY <1>1 DEF Inv, Typed, RelaySlots, Holds
<1>4. Typed' /\ Attached' BY <1>1, <1>3 DEF Inv, Typed, Attached
<1>5. RelaySlots' BY <1>1, <1>3 DEF Inv, RelaySlots, Holds
<1> QED BY <1>4, <1>5, <1>1 DEF Inv, Agrees, Separate, Ends, Live, Waiting, NoTurn, LastTurn, Turns

-----------------------------------------------------------------------------
(* The browsers.                                                           *)

\* The other side of a side is a side.
LEMMA Opposite ==
  ASSUME NEW s \in Side
  PROVE  Other(s) \in Side /\ Other(s) # s
BY DEF Other, Side

\* A step of a browser that leaves the coordinator alone keeps the invariant.
LEMMA BrowserKeeps ==
  ASSUME Inv, UNCHANGED <<socket, round, drawn, elsewhere>>,
         inbox' \in [Side -> Seq(Note)], outbox' \in [Side -> Seq(Command)],
         end' \in [Side -> End], wire' \in [Side -> Seq(Packet)],
         \A t \in Side : end'[t].channel # "none" => end'[t].epoch # 0,
         \A t \in Side : Agrees(inbox'[t], outbox'[t], end'[t].epoch, round)
  PROVE  Inv'
BY DEF Inv, Typed, Attached, RelaySlots, Holds, Agrees, Separate, Ends, Live, Waiting, NoTurn,
   LastTurn, Turns

\* What is on its way through a channel that one end closes.
LEMMA Hung ==
  ASSUME Inv, NEW s \in Side
  PROVE  Hangup(s, wire) \in [Side -> Seq(Packet)]
<1>1. wire \in [Side -> Seq(Packet)] BY DEF Inv, Typed
<1>2. <<>> \in Seq(Packet) /\ \A t \in Side : Append(wire[t], "closed") \in Seq(Packet)
  BY <1>1, Boxes DEF Packet
<1>3. Other(s) \in Side /\ Other(s) # s BY Opposite
<1> QED BY <1>1, <1>2, <1>3 DEF Hangup

\* A browser that closes its connection has none, and the other keeps its own.
LEMMA Closed ==
  ASSUME Inv, NEW s \in Side, Close(s)
  PROVE  /\ end' \in [Side -> End] /\ wire' \in [Side -> Seq(Packet)]
         /\ end'[s].epoch = 0 /\ \A t \in Side \ {s} : end'[t] = end[t]
         /\ \A t \in Side : end'[t].channel # "none" => end'[t].epoch # 0
<1>1. Idle \in End /\ Idle.epoch = 0 /\ Idle.channel = "none" BY PeerAssumption DEF Idle, End
<1> QED BY <1>1, Hung DEF Close, Inv, Typed, Attached

\* What a browser says goes out, or is lost with its socket.
LEMMA Posted ==
  ASSUME Inv, NEW s \in Side, NEW c \in Command, Post(s, c)
  PROVE  /\ outbox' \in [Side -> Seq(Command)]
         /\ outbox[s] \in Seq(Command)
         /\ outbox'[s] = Append(outbox[s], c)
         /\ \A t \in Side \ {s} : outbox'[t] = outbox[t]
         /\ \A t \in Side : \A box, n : Agrees(box, outbox[t], n, round) => Agrees(box, outbox'[t], n, round)
BY Boxes, CommandAdded DEF Inv, Typed, Post

\* A browser that gives up its connection keeps the invariant.
LEMMA Gone ==
  ASSUME Inv, NEW s \in Side, Fail(s), end[s].epoch # 0,
         NEW boxes, \A t \in Side : Agrees(boxes[t], outbox[t], end[t].epoch, round)
  PROVE  /\ end' \in [Side -> End] /\ wire' \in [Side -> Seq(Packet)]
         /\ outbox' \in [Side -> Seq(Command)]
         /\ \A t \in Side : end'[t].channel # "none" => end'[t].epoch # 0
         /\ \A t \in Side : Agrees(boxes[t], outbox'[t], end'[t].epoch, round)
<1> DEFINE c == Event("failed", end[s].epoch)
<1>1. end[s].epoch \in 1..MaxEpoch BY DEF Inv, Typed, End
<1>2. c \in Command /\ c.type = "failed" /\ c.epoch = end[s].epoch BY <1>1, Events
<1>3. Close(s) /\ Post(s, c) BY DEF Fail
<1> HIDE DEF c
<1>5. /\ outbox' \in [Side -> Seq(Command)] /\ outbox[s] \in Seq(Command)
      /\ outbox'[s] = Append(outbox[s], c) /\ \A t \in Side \ {s} : outbox'[t] = outbox[t]
  BY <1>2, <1>3, Posted
<1>6. Agrees(boxes[s], Append(outbox[s], c), 0, round) BY <1>1, <1>2, <1>5, GivenUp
<1> QED BY <1>3, Closed, <1>5, <1>6

\* An established connection fails.
LEMMA FailKeeps ==
  ASSUME Inv, NEW s \in Side, Fail(s), end[s].epoch # 0,
         UNCHANGED <<socket, round, drawn, elsewhere, inbox>>
  PROVE  Inv'
BY Gone, BrowserKeeps DEF Inv, Typed

\* A browser reads an event of the coordinator.
LEMMA ReceiveKeeps ==
  ASSUME Inv, NEW s \in Side, Receive(s)
  PROVE  Inv'
<1> DEFINE x == Head(inbox[s])
<1>1. /\ inbox[s] # <<>> /\ inbox' = [inbox EXCEPT ![s] = Tail(@)]
      /\ UNCHANGED <<socket, round, drawn, elsewhere>>
  BY DEF Receive
<1>2. /\ inbox \in [Side -> Seq(Note)] /\ outbox \in [Side -> Seq(Command)]
      /\ end \in [Side -> End] /\ wire \in [Side -> Seq(Packet)]
      /\ \A t \in Side : end[t].channel # "none" => end[t].epoch # 0
      /\ \A t \in Side : Agrees(inbox[t], outbox[t], end[t].epoch, round)
  BY DEF Inv, Typed, Attached
<1>3. x \in Note /\ Tail(inbox[s]) \in Seq(Note) BY <1>1, <1>2, Rests
<1>4. x.epoch \in 1..MaxEpoch BY <1>3 DEF Note
<1>5. /\ inbox' \in [Side -> Seq(Note)] /\ inbox'[s] = Tail(inbox[s])
      /\ \A t \in Side \ {s} : inbox'[t] = inbox[t]
  BY <1>1, <1>2, <1>3
<1>6. ASSUME NEW m, m = IF x.type = "stop" THEN 0 ELSE IF x.type = "prepare" THEN x.epoch ELSE end[s].epoch
      PROVE  Agrees(inbox'[s], outbox[s], m, round)
  BY <1>2, <1>1, <1>5, <1>6, HeadRead
<1>7. \A t \in Side \ {s} : Agrees(inbox'[t], outbox[t], end[t].epoch, round) BY <1>2, <1>5
<1>8. CASE x.type = "stop" /\ Close(s) /\ UNCHANGED outbox
  <2>1. /\ end' \in [Side -> End] /\ wire' \in [Side -> Seq(Packet)]
        /\ end'[s].epoch = 0 /\ \A t \in Side \ {s} : end'[t] = end[t]
        /\ \A t \in Side : end'[t].channel # "none" => end'[t].epoch # 0
    BY <1>8, Closed
  <2>2. \A t \in Side : Agrees(inbox'[t], outbox'[t], end'[t].epoch, round)
    BY <1>6, <1>7, <1>8, <2>1
  <2> HIDE DEF x
  <2> QED BY <2>1, <2>2, <1>1, <1>2, <1>5, <1>8, BrowserKeeps
<1>9. CASE x.type = "prepare" /\ BePrepared(s, x)
  <2> DEFINE e == [Idle EXCEPT !.epoch = x.epoch]
  <2>1. e \in End /\ e.epoch = x.epoch
    <3> HIDE DEF x
    <3>1. x.epoch \in 0..MaxEpoch BY <1>4
    <3>2. Idle \in End /\ Idle.epoch = 0 BY PeerAssumption DEF Idle, End
    <3> QED BY <3>1, <3>2 DEF End
  <2>2. /\ end' = [end EXCEPT ![s] = e] /\ wire' = Hangup(s, wire) /\ Post(s, Event("ack", x.epoch))
    BY <1>9 DEF BePrepared
  <2> HIDE DEF e
  <2>3. end' \in [Side -> End] /\ end'[s] = e /\ \A t \in Side \ {s} : end'[t] = end[t]
    BY <2>1, <2>2, <1>2
  <2>4. Event("ack", x.epoch) \in Command BY <1>4, Events
  <2>5. /\ outbox' \in [Side -> Seq(Command)]
        /\ \A t \in Side : \A box, n : Agrees(box, outbox[t], n, round) => Agrees(box, outbox'[t], n, round)
    BY <2>2, <2>4, Posted
  <2>6. Agrees(inbox'[s], outbox[s], x.epoch, round) BY <1>6, <1>9
  <2>7. \A t \in Side : Agrees(inbox'[t], outbox'[t], end'[t].epoch, round)
    BY <2>1, <2>3, <2>5, <2>6, <1>7
  <2>8. wire' \in [Side -> Seq(Packet)] BY <2>2, Hung
  <2>9. \A t \in Side : end'[t].channel # "none" => end'[t].epoch # 0
    <3>1. end'[s].epoch # 0
      <4> HIDE DEF x
      <4> QED BY <2>1, <2>3, <1>4
    <3> QED BY <3>1, <2>3, <1>2
  <2> HIDE DEF x
  <2> QED BY <2>3, <2>5, <2>7, <2>8, <2>9, <1>1, <1>5, BrowserKeeps
<1> DEFINE ep == end[s].epoch
<1>10. ASSUME x.type \notin {"stop", "prepare"}
       PROVE  \A t \in Side : Agrees(inbox'[t], outbox[t], end[t].epoch, round)
  BY <1>6, <1>7, <1>10
<1>11. CASE x.type = "start" /\ ep = x.epoch /\ BeStarted(s, x)
  <2>1. CASE s = "offerer"
    <3>1. /\ end' = [end EXCEPT ![s].channel = "made"] /\ Post(s, Event("offer", x.epoch)) /\ wire' = wire
      BY <1>11, <2>1 DEF BeStarted
    <3>2. Event("offer", x.epoch) \in Command BY <1>4, Events
    <3>3. /\ outbox' \in [Side -> Seq(Command)]
          /\ \A t \in Side : \A box, n : Agrees(box, outbox[t], n, round) => Agrees(box, outbox'[t], n, round)
      BY <3>1, <3>2, Posted
    <3>4. end' \in [Side -> End] /\ end'[s].epoch = end[s].epoch /\ \A t \in Side \ {s} : end'[t] = end[t]
      BY <3>1, <1>2 DEF End
    <3>5. \A t \in Side : end'[t].channel # "none" => end'[t].epoch # 0
      <4>1. end'[s].epoch # 0
        <5> HIDE DEF x
        <5> QED BY <3>4, <1>4, <1>11
      <4> QED BY <4>1, <3>4, <1>2
    <3>6. \A t \in Side : Agrees(inbox'[t], outbox'[t], end'[t].epoch, round)
      BY <3>3, <3>4, <1>10, <1>11
    <3> HIDE DEF x
    <3> QED BY <3>1, <3>3, <3>4, <3>5, <3>6, <1>1, <1>2, <1>5, BrowserKeeps
  <2>2. CASE s # "offerer" BY <1>11, <2>2, <1>1, <1>2, <1>5, <1>10, BrowserKeeps DEF BeStarted
  <2> QED BY <2>1, <2>2
<1>12. CASE x.type \in {"offer", "answer"} /\ ep = x.epoch /\ BeDescribed(s, x)
  <2>1. end' = [end EXCEPT ![s].described = TRUE] /\ wire' = wire
        /\ (Post(s, Event("answer", x.epoch)) \/ outbox' = outbox)
    BY <1>12 DEF BeDescribed
  <2>2. Event("answer", x.epoch) \in Command BY <1>4, Events
  <2>3. /\ outbox' \in [Side -> Seq(Command)]
        /\ \A t \in Side : \A box, n : Agrees(box, outbox[t], n, round) => Agrees(box, outbox'[t], n, round)
    BY <2>1, <2>2, <1>2, Posted
  <2>4. end' \in [Side -> End] /\ \A t \in Side : end'[t].epoch = end[t].epoch /\ end'[t].channel = end[t].channel
    BY <2>1, <1>2 DEF End
  <2>5. \A t \in Side : Agrees(inbox'[t], outbox'[t], end'[t].epoch, round)
    BY <2>3, <2>4, <1>10, <1>12
  <2>6. \A t \in Side : end'[t].channel # "none" => end'[t].epoch # 0 BY <2>4, <1>2
  <2> HIDE DEF x
  <2> QED BY <2>1, <2>3, <2>4, <2>5, <2>6, <1>1, <1>2, <1>5, BrowserKeeps
<1>13. CASE x.type = "rejected" /\ ep = x.epoch /\ Fail(s)
  <2>1. \A t \in Side : Agrees(inbox'[t], outbox[t], end[t].epoch, round) BY <1>10, <1>13
  <2>2. end[s].epoch # 0 BY <1>4, <1>13
  <2> HIDE DEF x
  <2> QED BY <2>1, <2>2, <1>1, <1>5, <1>13, Gone, BrowserKeeps
<1>14. CASE /\ x.type = "admitted" /\ ep = x.epoch
            /\ end' = [end EXCEPT ![s].ready = TRUE] /\ UNCHANGED <<wire, outbox>>
  <2>1. end' \in [Side -> End] /\ \A t \in Side : end'[t].epoch = end[t].epoch /\ end'[t].channel = end[t].channel
    BY <1>14, <1>2 DEF End
  <2>2. \A t \in Side : Agrees(inbox'[t], outbox'[t], end'[t].epoch, round) BY <2>1, <1>10, <1>14
  <2>3. \A t \in Side : end'[t].channel # "none" => end'[t].epoch # 0 BY <2>1, <1>2
  <2> HIDE DEF x
  <2> QED BY <2>1, <2>2, <2>3, <1>1, <1>2, <1>5, <1>14, BrowserKeeps
<1>15. CASE x.type \notin {"stop", "prepare"} /\ UNCHANGED <<end, wire, outbox>>
  BY <1>1, <1>2, <1>5, <1>10, <1>15, BrowserKeeps
<1> HIDE DEF x
<1> QED BY <1>8, <1>9, <1>11, <1>12, <1>13, <1>14, <1>15 DEF Receive, x

\* The channels of a connection open.
LEMMA OpenKeeps ==
  ASSUME Inv, NEW s \in Side, Open(s)
  PROVE  Inv'
<1>1. /\ end[s].epoch # 0
      /\ end' = [end EXCEPT ![s].channel = "open"]
      /\ wire' \in {wire, [wire EXCEPT !["answerer"] = Append(@, "probe")]}
      /\ UNCHANGED <<socket, round, drawn, elsewhere, inbox, outbox>>
  BY DEF Open
<1>2. /\ inbox \in [Side -> Seq(Note)] /\ outbox \in [Side -> Seq(Command)]
      /\ end \in [Side -> End] /\ wire \in [Side -> Seq(Packet)]
      /\ \A t \in Side : end[t].channel # "none" => end[t].epoch # 0
      /\ \A t \in Side : Agrees(inbox[t], outbox[t], end[t].epoch, round)
  BY DEF Inv, Typed, Attached
<1>3. end' \in [Side -> End] /\ (\A t \in Side : end'[t].epoch = end[t].epoch)
      /\ \A t \in Side \ {s} : end'[t].channel = end[t].channel
  BY <1>1, <1>2 DEF End
<1>4. "probe" \in Packet /\ "answerer" \in Side BY DEF Packet, Side
<1>5. Append(wire["answerer"], "probe") \in Seq(Packet) BY <1>2, <1>4, Boxes
<1>6. wire' \in [Side -> Seq(Packet)] BY <1>1, <1>2, <1>5
<1>8. \A t \in Side : Agrees(inbox'[t], outbox'[t], end'[t].epoch, round) BY <1>1, <1>2, <1>3
<1> QED BY <1>1, <1>2, <1>3, <1>6, <1>8, BrowserKeeps

\* The probe that came back says that the connection stands.
LEMMA Completed ==
  ASSUME Inv, NEW s \in Side, NEW e \in End, e.epoch = end[s].epoch, e.channel = end[s].channel,
         end[s].epoch # 0, Complete(s, e), wire' \in [Side -> Seq(Packet)],
         UNCHANGED <<socket, round, drawn, elsewhere, inbox>>
  PROVE  Inv'
<1>1. end' = [end EXCEPT ![s] = e] /\ (Post(s, Event("connected", e.epoch)) \/ outbox' = outbox)
  BY DEF Complete
<1>2. /\ inbox \in [Side -> Seq(Note)] /\ outbox \in [Side -> Seq(Command)]
      /\ end \in [Side -> End] /\ wire \in [Side -> Seq(Packet)]
      /\ \A t \in Side : end[t].channel # "none" => end[t].epoch # 0
      /\ \A t \in Side : Agrees(inbox[t], outbox[t], end[t].epoch, round)
  BY DEF Inv, Typed, Attached
<1>3. e.epoch \in 1..MaxEpoch BY <1>2 DEF End
<1>4. Event("connected", e.epoch) \in Command BY <1>3, Events
<1>5. /\ outbox' \in [Side -> Seq(Command)]
      /\ \A t \in Side : \A box, n : Agrees(box, outbox[t], n, round) => Agrees(box, outbox'[t], n, round)
  BY <1>1, <1>2, <1>4, Posted
<1>6. end' \in [Side -> End] /\ \A t \in Side : end'[t].epoch = end[t].epoch /\ end'[t].channel = end[t].channel
  BY <1>1, <1>2
<1>8. \A t \in Side : end'[t].channel # "none" => end'[t].epoch # 0 BY <1>2, <1>6
<1> QED BY <1>2, <1>5, <1>6, <1>8, BrowserKeeps

\* A packet on the channel is read.
LEMMA MessageKeeps ==
  ASSUME Inv, NEW s \in Side, Message(s)
  PROVE  Inv'
<1>1. /\ end[s].channel = "open" /\ wire[s] # <<>>
      /\ UNCHANGED <<socket, round, drawn, elsewhere, inbox>>
  BY DEF Message
<1>2. /\ inbox \in [Side -> Seq(Note)] /\ outbox \in [Side -> Seq(Command)]
      /\ end \in [Side -> End] /\ wire \in [Side -> Seq(Packet)]
      /\ \A t \in Side : end[t].channel # "none" => end[t].epoch # 0
      /\ \A t \in Side : Agrees(inbox[t], outbox[t], end[t].epoch, round)
  BY DEF Inv, Typed, Attached
<1>3. end[s].epoch # 0 BY <1>1, <1>2
<1>4. wire[s] \in Seq(Packet) /\ Tail(wire[s]) \in Seq(Packet) BY <1>1, <1>2, Rests
<1>5. [wire EXCEPT ![s] = Tail(@)] \in [Side -> Seq(Packet)] BY <1>2, <1>4
<1>6. CASE Fail(s) BY <1>1, <1>3, <1>6, FailKeeps
<1>7. CASE AnswerProbe(s)
  <2> DEFINE e == [end[s] EXCEPT !.replied = TRUE]
             p == IF s = "answerer" THEN <<"probe">> ELSE <<>>
             b == wire[Other(s)] \o p \o <<"reply">>
  <2>1. e \in End /\ e.epoch = end[s].epoch /\ e.channel = end[s].channel BY <1>2 DEF End
  <2>2. p \in Seq(Packet) /\ <<"reply">> \in Seq(Packet)
    <3>1. "probe" \in Packet /\ "reply" \in Packet BY DEF Packet
    <3> QED BY <3>1
  <2>3. wire[Other(s)] \in Seq(Packet) BY <1>2, Opposite
  <2>4. Complete(s, e) /\ wire' = [wire EXCEPT ![s] = Tail(@), ![Other(s)] = @ \o p \o <<"reply">>]
    BY <1>7 DEF AnswerProbe
  <2> HIDE DEF p
  <2>5. b \in Seq(Packet) BY <2>2, <2>3, ConcatProperties
  <2>6. wire' \in [Side -> Seq(Packet)] BY <2>4, <2>5, <1>2, <1>4, Opposite
  <2> HIDE DEF e
  <2> QED BY <2>1, <2>4, <2>6, <1>1, <1>3, Completed
<1>8. CASE AcceptReply(s)
  <2> DEFINE e == [end[s] EXCEPT !.verified = TRUE]
  <2>1. e \in End /\ e.epoch = end[s].epoch /\ e.channel = end[s].channel BY <1>2 DEF End
  <2>2. Complete(s, e) /\ wire' = [wire EXCEPT ![s] = Tail(@)] BY <1>8 DEF AcceptReply
  <2> HIDE DEF e
  <2> QED BY <2>1, <2>2, <1>1, <1>3, <1>5, Completed
<1>9. CASE wire' = [wire EXCEPT ![s] = Tail(@)] /\ UNCHANGED <<end, outbox>>
  BY <1>1, <1>2, <1>5, <1>9, BrowserKeeps
<1> QED BY <1>6, <1>7, <1>8, <1>9 DEF Message

\* A connection breaks.
LEMMA BreakKeeps ==
  ASSUME Inv, NEW s \in Side, Break(s)
  PROVE  Inv'
BY FailKeeps DEF Break

\* A browser asks for another round.
LEMMA RetryKeeps ==
  ASSUME Inv, NEW s \in Side, Retry(s)
  PROVE  Inv'
BY RoundTyped, Events, Posted, BrowserKeeps DEF Retry, Inv, Typed, Attached

\* A keyboard lease is taken and given back.
LEMMA LeaseKeeps ==
  ASSUME Inv, Lease
  PROVE  Inv'
<1> DEFINE g == Other(HostSide)
<1>1. wire' = [wire EXCEPT ![g] = Append(@, "lease")]
      /\ UNCHANGED <<socket, round, drawn, elsewhere, inbox, outbox, end>>
  BY DEF Lease
<1>2. /\ inbox \in [Side -> Seq(Note)] /\ outbox \in [Side -> Seq(Command)] /\ end \in [Side -> End]
      /\ wire \in [Side -> Seq(Packet)]
      /\ \A t \in Side : end[t].channel # "none" => end[t].epoch # 0
      /\ \A t \in Side : Agrees(inbox[t], outbox[t], end[t].epoch, round)
  BY DEF Inv, Typed, Attached
<1>3. g \in Side BY PeerAssumption, Opposite
<1>4. Append(wire[g], "lease") \in Seq(Packet) BY <1>2, <1>3, Boxes DEF Packet
<1>5. wire' \in [Side -> Seq(Packet)] BY <1>1, <1>2, <1>3, <1>4
<1> QED BY <1>1, <1>2, <1>5, BrowserKeeps

-----------------------------------------------------------------------------
(* The sockets.                                                            *)

\* A browser whose socket closes, or is replaced, starts from nothing.
Fresh(s) ==
  /\ Close(s)
  /\ outbox' = [outbox EXCEPT ![s] = <<>>]
  /\ elsewhere' = elsewhere
  /\ \E n \in 0..2 : n # socket[s] /\ socket' = [socket EXCEPT ![s] = n]

\* A new socket finds an empty channel and no round.
LEMMA FreshFits ==
  ASSUME Inv, NEW s \in Side, Fresh(s)
  PROVE  /\ Publishable([Now EXCEPT !.inbox[s] = <<>>])
         /\ elsewhere \in 0..RelayPairs /\ elsewhere' = elsewhere
         /\ socket' \in [Side -> 0..2] /\ outbox' \in [Side -> Seq(Command)]
         /\ end' \in [Side -> End] /\ wire' \in [Side -> Seq(Packet)]
         /\ \A t \in Side : end'[t].channel # "none" => end'[t].epoch # 0
<1> DEFINE st == [Now EXCEPT !.inbox[s] = <<>>]
<1>1. /\ inbox \in [Side -> Seq(Note)] /\ outbox \in [Side -> Seq(Command)]
      /\ elsewhere \in 0..RelayPairs /\ socket \in [Side -> 0..2]
      /\ round \in Round \cup {None} /\ drawn \in 0..MaxEpoch
      /\ \A t \in Side : Agrees(inbox[t], outbox[t], end[t].epoch, round)
      /\ round # None => round.socket = socket /\ \A t \in Side : socket[t] # 0
  BY DEF Inv, Typed, Attached
<1>2. /\ end' \in [Side -> End] /\ wire' \in [Side -> Seq(Packet)]
      /\ end'[s].epoch = 0 /\ \A t \in Side \ {s} : end'[t] = end[t]
      /\ \A t \in Side : end'[t].channel # "none" => end'[t].epoch # 0
  BY Closed DEF Fresh
<1>3. <<>> \in Seq(Note) /\ <<>> \in Seq(Command) OBVIOUS
<1>4. outbox' \in [Side -> Seq(Command)] /\ \A t \in Side \ {s} : outbox'[t] = outbox[t]
  BY <1>1, <1>3 DEF Fresh
<1>5. socket' \in [Side -> 0..2] /\ socket'[s] # socket[s] /\ \A t \in Side \ {s} : socket'[t] = socket[t]
  BY <1>1 DEF Fresh
<1>7. st \in Station /\ st.round = round /\ st.inbox[s] = <<>>
      /\ \A t \in Side \ {s} : st.inbox[t] = inbox[t]
  BY <1>1, <1>3 DEF Station, Now
<1> HIDE DEF st
<1>8. Slots(st.round) BY <1>7 DEF Inv, RelaySlots, Slots
<1>9. ASSUME NEW t \in Side
      PROVE  IF st.round # None /\ st.round.socket[t] # socket'[t]
             THEN st.inbox[t] = <<>> /\ end'[t].epoch = 0
             ELSE Agrees(st.inbox[t], outbox'[t], end'[t].epoch, st.round)
  <2>1. CASE t = s /\ st.round # None BY <1>1, <1>2, <1>5, <1>7, <2>1
  <2>2. CASE t = s /\ st.round = None BY <1>2, <1>7, <2>2, Emptied DEF Live
  <2>3. CASE t # s BY <1>1, <1>2, <1>4, <1>5, <1>7, <2>3
  <2> QED BY <2>1, <2>2, <2>3
<1>10. Publishable(st) BY <1>1, <1>7, <1>8, <1>9 DEF Publishable
<1> QED BY <1>1, <1>2, <1>4, <1>5, <1>10 DEF Fresh, st

\* A socket is attached.
LEMMA AttachKeeps ==
  ASSUME Inv, NEW s \in Side, Attach(s)
  PROVE  Inv'
<1> DEFINE st == [Now EXCEPT !.inbox[s] = <<>>]
<1>1. Fresh(s)
  <2>1. PICK n \in {1, 2} : n # socket[s] /\ socket' = [socket EXCEPT ![s] = n]
    <3>1. socket' = [socket EXCEPT ![s] = IF socket[s] = 1 THEN 2 ELSE 1] BY DEF Attach
    <3>2. CASE socket[s] = 1 BY <3>1, <3>2
    <3>3. CASE socket[s] # 1 BY <3>1, <3>3
    <3> QED BY <3>2, <3>3
  <2>3. n \in 0..2 OBVIOUS
  <2> QED BY <2>1, <2>3 DEF Fresh, Attach
<1>2. Install(Sync(st)) BY DEF Attach
<1> HIDE DEF st
<1>3. Publishable(st) BY <1>1, FreshFits DEF st
<1>4. Published(Sync(st)) BY <1>1, <1>2, <1>3, FreshFits, Publication
<1> QED BY <1>1, <1>2, <1>4, FreshFits, Installed

\* A socket is lost, and with it what was on its way; its browser will close
\* what it has, the other is told.
LEMMA DetachKeeps ==
  ASSUME Inv, NEW s \in Side, Detach(s)
  PROVE  Inv'
<1> DEFINE lost == IF end[s].epoch = 0 THEN <<>> ELSE <<Event("stop", end[s].epoch)>>
           c == Clear(Now)
           st == [c EXCEPT !.inbox[s] = lost]
<1>1. /\ socket' = [socket EXCEPT ![s] = 0] /\ socket' \in [Side -> 0..2] /\ socket'[s] = 0
      /\ inbox \in [Side -> Seq(Note)] /\ outbox \in [Side -> Seq(Command)] /\ drawn \in 0..MaxEpoch
      /\ round \in Round \cup {None} /\ elsewhere \in 0..RelayPairs /\ elsewhere' = elsewhere
      /\ end' = end /\ wire' = wire /\ end \in [Side -> End] /\ wire \in [Side -> Seq(Packet)]
      /\ \A t \in Side : end[t].channel # "none" => end[t].epoch # 0
      /\ \A t \in Side : Agrees(inbox[t], outbox[t], end[t].epoch, round)
      /\ outbox' = [outbox EXCEPT ![s] = <<>>] /\ outbox' \in [Side -> Seq(Command)]
  BY PeerAssumption DEF Inv, Typed, Attached, Detach
<1>2. Install(st) BY <1>1 DEF Detach, Sync
<1>3. lost \in Seq(Note) /\ Agrees(lost, outbox'[s], end[s].epoch, None)
  <2>1. CASE end[s].epoch = 0 BY <2>1, Emptied DEF Live
  <2>2. CASE end[s].epoch # 0
    <3> DEFINE x == Event("stop", end[s].epoch)
    <3>1. end[s].epoch \in 1..MaxEpoch BY <1>1, <2>2 DEF End
    <3>2. x \in Note /\ x.type = "stop" BY <3>1, Events
    <3>3. lost = <<x>> BY <2>2
    <3> HIDE DEF x, lost
    <3>4. lost \in Seq(Note) /\ DOMAIN lost = {1} /\ lost[1].type = "stop" BY <3>2, <3>3
    <3>5. Separate(lost, end[s].epoch) BY <3>4 DEF Separate
    <3>6. Ends(lost, outbox'[s], end[s].epoch, None) BY <3>4 DEF Ends, LastTurn, Live
    <3> QED BY <3>4, <3>5, <3>6 DEF Agrees
  <2> QED BY <2>1, <2>2
<1>4. /\ c \in Station /\ c.round = None
      /\ \A t \in Side \ {s} : Agrees(c.inbox[t], outbox[t], end[t].epoch, None)
  <2>1. CASE round = None BY <1>1, <2>1 DEF Clear, Now, Station
  <2>2. CASE round # None
    <3> DEFINE x == Event("stop", round.epoch)
    <3>1. round \in Round /\ round.socket = socket /\ \A t \in Side : socket[t] # 0
      BY <1>1, <2>2 DEF Inv, Attached
    <3>2. round.epoch \in 1..MaxEpoch BY <3>1 DEF Round
    <3>3. x \in Note /\ x.type = "stop" BY <3>2, Events
    <3>4. c = [round |-> None, drawn |-> drawn, inbox |-> Tell(inbox, round, x)]
      BY <2>2 DEF Clear, Now
    <3> HIDE DEF x
    <3>5. /\ Tell(inbox, round, x) \in [Side -> Seq(Note)]
          /\ \A t \in Side \ {s} : Tell(inbox, round, x)[t] = Append(inbox[t], x)
      <4>2. /\ Tell(inbox, round, x) \in [Side -> Seq(Note)]
            /\ \A t \in Side : Tell(inbox, round, x)[t] = IF round.socket[t] # 0 /\ round.socket[t] = socket'[t]
                                                        THEN Append(inbox[t], x) ELSE inbox[t]
        <5>1. inbox \in [Side -> Seq(Note)] /\ round \in Round /\ x \in Note BY <1>1, <3>1, <3>3
        <5> QED BY <5>1, Told
      <4> QED BY <1>1, <3>1, <4>2 DEF Inv, Typed
    <3>6. \A t \in Side \ {s} : Agrees(Append(inbox[t], x), outbox[t], end[t].epoch, None)
      BY <1>1, <3>3, StopAppended DEF Agrees, Live
    <3> HIDE DEF c
    <3> QED BY <1>1, <3>4, <3>5, <3>6 DEF Station
  <2> QED BY <2>1, <2>2
<1> HIDE DEF lost, c
<1>5. /\ st \in Station /\ st.round = None /\ st.inbox[s] = lost
      /\ \A t \in Side \ {s} : st.inbox[t] = c.inbox[t]
  BY <1>3, <1>4 DEF Station
<1> HIDE DEF st
<1>6. Slots(None) BY PeerAssumption, <1>1 DEF Slots, Holds
<1>7. Published(st) BY <1>1, <1>3, <1>4, <1>5, <1>6 DEF Published
<1> QED BY <1>1, <1>2, <1>7, Installed

-----------------------------------------------------------------------------
\* The invariant holds at the start.
LEMMA InitInv == Init => Inv
<1> SUFFICES ASSUME Init PROVE Inv OBVIOUS
<1> USE PeerAssumption
<1>1. Idle \in End /\ Idle.epoch = 0 /\ Idle.channel = "none" BY DEF Idle, End
<1>2. Typed BY <1>1 DEF Init, Typed
<1>3. Attached BY <1>1 DEF Init, Attached
<1>4. RelaySlots BY DEF Init, RelaySlots, Holds
<1> QED BY <1>2, <1>3, <1>4, <1>1, Emptied DEF Inv, Init, Live

\* Every step preserves it.
LEMMA StepInv == Inv /\ [Next]_vars => Inv'
<1> SUFFICES ASSUME Inv, [Next]_vars PROVE Inv' OBVIOUS
<1> USE PeerAssumption
<1>1. CASE SweepRound BY <1>1, SweepKeeps
<1>2. CASE Elsewhere BY <1>2, ElsewhereKeeps
<1>3. CASE Lease BY <1>3, LeaseKeeps
<1>4. ASSUME NEW s \in Side, Handle(s) \/ Receive(s) \/ Open(s) \/ Message(s) \/ Break(s) \/ Retry(s)
      PROVE  Inv'
  BY <1>4, HandleKeeps, ReceiveKeeps, OpenKeeps, MessageKeeps, BreakKeeps, RetryKeeps
<1>5. ASSUME NEW s \in Dropping, Detach(s) \/ Attach(s)
      PROVE  Inv'
  BY <1>5, DetachKeeps, AttachKeeps
<1>6. CASE UNCHANGED vars
  BY <1>6 DEF vars, Inv, Typed, Attached, RelaySlots, Agrees, Separate, Ends, Live, Waiting,
              NoTurn, LastTurn, Turns, Holds
<1> QED BY <1>1, <1>2, <1>3, <1>4, <1>5, <1>6 DEF Next

\* In every reachable state the invariant holds: the coordinator and both
\* browsers, with what is on its way between them, agree on the round.
THEOREM InvHolds == Spec => []Inv
<1>1. Init => Inv BY InitInv
<1>2. Inv /\ [Next]_vars => Inv' BY StepInv
<1> QED BY <1>1, <1>2, PTL DEF Spec

\* Pairs that fail, retry and leave never make the relay hand out more slots than
\* it is configured for, and a failed round holds none (peer.ts:37-51).
THEOREM RelayWithinBounds == Spec => []RelaySlots
<1>1. Inv => RelaySlots BY DEF Inv
<1> QED BY <1>1, InvHolds, PTL

\* The invariant is stronger than the agreement at rest.
LEMMA Converging == Inv => ViewsConverge
<1> SUFFICES ASSUME Inv, NEW s \in Side
             PROVE  /\ end[s].epoch # 0 /\ ~(Live(round) /\ round.epoch = end[s].epoch)
                         => \E i \in DOMAIN inbox[s] : inbox[s][i].type = "stop"
                    /\ socket[s] # 0 /\ Live(round) /\ round.epoch # end[s].epoch
                         => \/ Waiting(inbox[s], "prepare", round.epoch)
                            \/ Waiting(outbox[s], "failed", round.epoch)
  BY DEF ViewsConverge
<1>1. Separate(inbox[s], end[s].epoch) /\ Ends(inbox[s], outbox[s], end[s].epoch, round)
  BY DEF Inv, Agrees
<1>2. CASE Live(round) BY <1>1, <1>2 DEF Separate, Ends, Waiting
<1>3. CASE ~Live(round) BY <1>1, <1>3 DEF Ends
<1> QED BY <1>2, <1>3

\* When nothing is on its way any more, each browser has a connection for the
\* round the coordinator has, and none if there is none (peer.ts:21,
\* 31-58 and the client's peer.ts:28-33, over a socket that delivers in order).
THEOREM ViewsDoConverge == Spec => []ViewsConverge
BY InvHolds, Converging, PTL


=============================================================================
