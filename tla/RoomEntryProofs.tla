--------------------------- MODULE RoomEntryProofs ---------------------------
(***************************************************************************)
(* For any number of tabs, rooms and derivations, however sockets break,   *)
(* replies come late and the coordinator restarts:                         *)
(*   - rooms and the sessions in them agree;                               *)
(*   - a derivation admits only who knows the password of the room by then;*)
(*   - an attempt that was withdrawn holds no seat, as long as the session *)
(*     has not used up its tombstones;                                     *)
(*   - a tab with nothing under way shows the room it is in.               *)
(* The first two follow from Inv.  The third needs two more facts of every *)
(* tab: no intent is both a creation's and a join's (Kind), and what was   *)
(* withdrawn is remembered, with nothing seated for it (Memory).  The      *)
(* fourth needs one more: what a tab has under way explains each           *)
(* difference between what it shows and where it is (Sight).               *)
(***************************************************************************)
EXTENDS RoomEntry, FiniteSetTheorems, SequenceTheorems, TLAPS

IsSeq(s) == \E S : s \in Seq(S)

\* Membership, in a state the coordinator's handlers work on.
Fields == {"token", "socket", "room", "quiet", "cancelled"}
Shape(st) ==
  /\ {"session", "rooms", "down"} \subseteq DOMAIN st
  /\ DOMAIN st.session = Tab /\ DOMAIN st.down = Tab
  /\ \A t \in Tab : Fields \subseteq DOMAIN st.session[t]
  /\ st.rooms \in Seq(Room \cup {None})
  /\ \A t \in Tab : st.session[t].room \in 0..Len(st.rooms)
Member(st) ==
  /\ \A t \in Tab : \A r \in DOMAIN st.rooms :
       st.session[t].room = r <=> st.rooms[r] # None /\ st.rooms[r].seat[t] # 0
  /\ \A r \in DOMAIN st.rooms :
       st.rooms[r] # None => st.rooms[r].seat[st.rooms[r].host] = st.rooms[r].intent
                             /\ st.rooms[r].intent # 0
Agrees(st) == Shape(st) /\ Member(st)

\* What the tabs send: an attempt has an intent, and a join names a room.
Attempts == {"join", "create"}
Sound(c) ==
  /\ c.type \in {"hello", "join", "create", "leave", "cancelCreate", "close", "remove", "access"}
  /\ c.type = "hello" <=> c.n = 1
  /\ c.password \in Nat
  /\ c.type \in Attempts => c.intent \in Nat \ {0}
  /\ c.type = "join" => c.room # 0

\* A tab without a session, or with one the coordinator has forgotten, is in no
\* room, asks for none and has nothing derived for it.
Known(t) == tab[t].token # 0 /\ tab[t].token = session[t].token
Greets(m) == m.type = "result" /\ m.n = 1
Greetings(t) ==
  /\ \A i \in DOMAIN up[t] : up[t][i].type = "hello"
       => i = 1 /\ \A j \in DOMAIN down[t] : ~Greets(down[t][j])
  /\ \A i, j \in DOMAIN down[t] : Greets(down[t][i]) /\ Greets(down[t][j]) => i = j
  /\ \A j \in DOMAIN down[t] : Greets(down[t][j])
       => IF down[t][j].code = "ok" THEN session[t].token # 0 ELSE ~Known(t)
Bound(t) ==
  /\ session[t].room # 0 \/ tab[t].connected => Known(t)
  /\ \A i \in DOMAIN up[t] : up[t][i].type \in Attempts => Known(t)
  /\ \A i \in DOMAIN work : work[i].tab = t /\ work[i].command.type \in Attempts => Known(t)

Screen == {"token", "socket", "sockets", "connected", "room", "joining", "lobby", "waiting",
           "busy", "asked", "lost", "blind"}
Sides ==
  /\ restarts \in Nat
  /\ DOMAIN tab = Tab /\ DOMAIN up = Tab
  /\ \A t \in Tab :
       /\ Screen \subseteq DOMAIN tab[t]
       /\ tab[t].asked \in Nat /\ tab[t].lobby \in Nat
       /\ IsSeq(up[t]) /\ IsSeq(down[t])
       /\ \A i \in DOMAIN up[t] : Sound(up[t][i])
  /\ IsSeq(work)
  /\ \A i \in DOMAIN work : work[i].tab \in Tab /\ Sound(work[i].command)
                            /\ work[i].command.type \in {"join", "access"}

Inv ==
  /\ Agrees(Now)
  /\ Sides
  /\ \A t \in Tab : Bound(t) /\ Greetings(t)

-----------------------------------------------------------------------------
(* Sequences, and what a handler may do to the mail of a tab.              *)

\* What is absent is not a room.
LEMMA NoneIsNoRoom == None \notin Room
BY NoneAssumption

\* The length and the positions of a channel's content.
LEMMA SeqShape ==
  ASSUME NEW s, IsSeq(s)
  PROVE  Len(s) \in Nat /\ DOMAIN s = 1..Len(s) /\ (s = <<>> <=> Len(s) = 0)
<1>1. PICK S : s \in Seq(S) BY DEF IsSeq
<1>. QED BY <1>1, LenProperties, EmptySeq

\* An empty channel.
LEMMA NothingIsSeq == IsSeq(<<>>) /\ DOMAIN <<>> = {}
BY EmptySeq DEF IsSeq

\* One message more at the end of a channel.
LEMMA AppendIsSeq ==
  ASSUME NEW s, NEW m, IsSeq(s)
  PROVE  /\ IsSeq(Append(s, m)) /\ Len(Append(s, m)) = Len(s) + 1
         /\ DOMAIN Append(s, m) = 1..(Len(s) + 1) /\ DOMAIN s = 1..Len(s) /\ Len(s) \in Nat
         /\ \A i \in 1..Len(s) : Append(s, m)[i] = s[i]
         /\ Append(s, m)[Len(s) + 1] = m
<1>1. PICK S : s \in Seq(S) BY DEF IsSeq
<1>2. s \in Seq(S \cup {m}) /\ m \in S \cup {m} BY <1>1, SeqMonotonic
<1>3. /\ Append(s, m) \in Seq(S \cup {m}) /\ Len(Append(s, m)) = Len(s) + 1
      /\ \A i \in 1..Len(s) : Append(s, m)[i] = s[i]
      /\ Append(s, m)[Len(s) + 1] = m
  BY <1>2, AppendProperties
<1>4. IsSeq(Append(s, m)) BY <1>3 DEF IsSeq
<1>. QED BY <1>3, <1>4, SeqShape

\* A channel without its first message.
LEMMA TailIsSeq ==
  ASSUME NEW s, IsSeq(s), s # <<>>
  PROVE  /\ IsSeq(Tail(s)) /\ DOMAIN s = 1..Len(s) /\ Len(s) \in Nat \ {0}
         /\ DOMAIN Tail(s) = 1..(Len(s) - 1)
         /\ \A i \in 1..(Len(s) - 1) : Tail(s)[i] = s[i + 1]
         /\ \A i \in 1..(Len(s) - 1) : i + 1 \in 1..Len(s)
         /\ Head(s) = s[1] /\ 1 \in DOMAIN s
<1>1. PICK S : s \in Seq(S) BY DEF IsSeq
<1>2. Tail(s) \in Seq(S) /\ Len(Tail(s)) = Len(s) - 1 /\ \A i \in 1..Len(Tail(s)) : Tail(s)[i] = s[i + 1]
  BY <1>1, HeadTailProperties
<1>3. IsSeq(Tail(s)) BY <1>2 DEF IsSeq
<1>4. Len(s) \in Nat \ {0} /\ DOMAIN s = 1..Len(s) BY <1>1, EmptySeq, LenProperties
<1>5. DOMAIN Tail(s) = 1..(Len(s) - 1) BY <1>2, LenProperties
<1>. QED BY <1>2, <1>3, <1>4, <1>5

\* Several messages more at the end of a channel.
LEMMA ConcatIsSeq ==
  ASSUME NEW s, NEW u, IsSeq(s), IsSeq(u)
  PROVE  /\ IsSeq(s \o u)
         /\ \A j \in DOMAIN (s \o u) :
              \/ j \in DOMAIN s /\ (s \o u)[j] = s[j]
              \/ j \notin DOMAIN s /\ \E i \in DOMAIN u : (s \o u)[j] = u[i]
<1>1. PICK S : s \in Seq(S) BY DEF IsSeq
<1>2. PICK T : u \in Seq(T) BY DEF IsSeq
<1>3. s \in Seq(S \cup T) /\ u \in Seq(S \cup T) BY <1>1, <1>2, SeqMonotonic
<1>4. /\ s \o u \in Seq(S \cup T) /\ Len(s \o u) = Len(s) + Len(u)
      /\ \A i \in 1..(Len(s) + Len(u)) : (s \o u)[i] = IF i <= Len(s) THEN s[i] ELSE u[i - Len(s)]
  BY <1>3, ConcatProperties
<1>5. IsSeq(s \o u) BY <1>4 DEF IsSeq
<1>7. DOMAIN (s \o u) = 1..(Len(s) + Len(u)) BY <1>4, <1>5, SeqShape
<1>8. ASSUME NEW j \in 1..(Len(s) + Len(u))
      PROVE  \/ j \in DOMAIN s /\ (s \o u)[j] = s[j]
             \/ j \notin DOMAIN s /\ \E i \in DOMAIN u : (s \o u)[j] = u[i]
  BY <1>4, SeqShape
<1>. QED BY <1>5, <1>7, <1>8

\* What leaves out one element of a sequence.
LEMMA WithoutIsSeq ==
  ASSUME NEW s, IsSeq(s), NEW i \in DOMAIN s
  PROVE  LET u == SubSeq(s, 1, i - 1) \o SubSeq(s, i + 1, Len(s))
         IN  IsSeq(u) /\ \A j \in DOMAIN u : \E n \in DOMAIN s : u[j] = s[n]
<1>1. PICK S : s \in Seq(S) BY DEF IsSeq
<1>2. Len(s) \in Nat /\ DOMAIN s = 1..Len(s) /\ \A n \in 1..Len(s) : s[n] \in S
  BY <1>1, LenProperties, ElementOfSeq
<1>. DEFINE a == SubSeq(s, 1, i - 1)
            b == SubSeq(s, i + 1, Len(s))
<1>3. /\ i - 1 \in Int /\ i + 1 \in Int /\ Len(s) \in Int /\ 1 \in Int
      /\ \A n \in 1..(i - 1) : n \in 1..Len(s) /\ s[n] \in S
      /\ \A n \in (i + 1)..Len(s) : n \in 1..Len(s) /\ s[n] \in S
  BY <1>2
<1>4. a \in Seq(S) /\ Len(a) = i - 1 /\ \A n \in 1..(i - 1) : a[n] = s[n]
  BY <1>3, SubSeqProperties, <1>2
<1>5. /\ b \in Seq(S) /\ Len(b) = Len(s) - i
      /\ \A n \in 1..(Len(s) - i) : b[n] = s[n + i] /\ n + i \in 1..Len(s)
  BY <1>3, SubSeqProperties, <1>2
<1>6. IsSeq(a) /\ IsSeq(b) /\ DOMAIN a = 1..(i - 1) /\ DOMAIN b = 1..(Len(s) - i)
  BY <1>4, <1>5, LenProperties DEF IsSeq
<1>. HIDE DEF a, b
<1>7. /\ \A n \in DOMAIN a : n \in DOMAIN s /\ a[n] = s[n]
      /\ \A n \in DOMAIN b : n + i \in DOMAIN s /\ b[n] = s[n + i]
  BY <1>2, <1>3, <1>4, <1>5, <1>6
<1>8. \A j \in DOMAIN (a \o b) : \E n \in DOMAIN s : (a \o b)[j] = s[n] BY <1>6, <1>7, ConcatIsSeq
<1>9. IsSeq(a \o b) BY <1>6, ConcatIsSeq
<1>. QED BY <1>8, <1>9 DEF a, b

\* A tab is told more, but is greeted only by the reply to its hello.
Longer(s, u) ==
  /\ IsSeq(s) => IsSeq(u)
  /\ IsSeq(s) => \A i \in DOMAIN u : ~Greets(u[i]) \/ (i \in DOMAIN s /\ u[i] = s[i])

\* What a handler leaves of the sessions and the mail; only "who" enters a room.
Follows(st, k, who) ==
  \A t \in Tab : /\ k.session[t].token = st.session[t].token
                 /\ Longer(st.down[t], k.down[t])
                 /\ k.session[t].room # 0 /\ t \notin who => st.session[t].room # 0

\* A channel to which nothing was added.
LEMMA LongerAgain == \A s : Longer(s, s)
BY DEF Longer

\* A channel to which something was added twice.
LEMMA LongerTwice ==
  ASSUME NEW s, NEW u, NEW v, Longer(s, u), Longer(u, v)
  PROVE  Longer(s, v)
BY DEF Longer

\* A channel to which one message was added that greets nobody.
LEMMA LongerByOne ==
  ASSUME NEW s, NEW m, ~Greets(m)
  PROVE  Longer(s, Append(s, m))
<1>. SUFFICES ASSUME IsSeq(s)
              PROVE  Longer(s, Append(s, m))
  BY DEF Longer
<1>1. /\ IsSeq(Append(s, m)) /\ DOMAIN s = 1..Len(s) /\ Len(s) \in Nat
      /\ DOMAIN Append(s, m) = 1..(Len(s) + 1)
      /\ \A i \in 1..Len(s) : Append(s, m)[i] = s[i]
      /\ Append(s, m)[Len(s) + 1] = m
  BY AppendIsSeq
<1>. QED BY <1>1 DEF Longer

\* The news that a membership ended is not a greeting.
LEMMA EndedIsNoGreeting == \A reason : ~Greets(Ended(reason))
BY DEF Greets, Ended

\* Two changes of the coordinator one after the other.
LEMMA FollowsTwice ==
  ASSUME NEW st, NEW k, NEW n, NEW v, NEW w, Follows(st, k, v), Follows(k, n, w)
  PROVE  Follows(st, n, v \cup w)
<1>. SUFFICES ASSUME NEW t \in Tab
              PROVE  /\ n.session[t].token = st.session[t].token
                     /\ Longer(st.down[t], n.down[t])
                     /\ n.session[t].room # 0 /\ t \notin v \cup w => st.session[t].room # 0
  BY DEF Follows
<1>. QED BY LongerTwice DEF Follows

-----------------------------------------------------------------------------
(* The coordinator's handlers.                                             *)

RoomsShape(k) ==
  /\ {"session", "rooms", "down"} \subseteq DOMAIN k
  /\ DOMAIN k.session = Tab /\ DOMAIN k.down = Tab
  /\ \A t \in Tab : Fields \subseteq DOMAIN k.session[t]
  /\ k.rooms \in Seq(Room \cup {None})

\* The numbers of the rooms that were ever opened.
LEMMA RoomsDomain ==
  ASSUME NEW q \in Seq(Room \cup {None})
  PROVE  DOMAIN q = 1..Len(q) /\ Len(q) \in Nat /\ \A r \in 1..Len(q) : q[r] \in Room \cup {None}
BY LenProperties, ElementOfSeq

\* What leaves every seat and every host alone.
LEMMA SeatsKept ==
  ASSUME NEW st, NEW k, Agrees(st), RoomsShape(k), Len(k.rooms) = Len(st.rooms),
         \A t \in Tab : k.session[t].room = st.session[t].room,
         \A r \in DOMAIN st.rooms : k.rooms[r] # None <=> st.rooms[r] # None,
         \A r \in DOMAIN st.rooms : k.rooms[r] # None =>
           /\ k.rooms[r].seat = st.rooms[r].seat
           /\ k.rooms[r].host = st.rooms[r].host
           /\ k.rooms[r].intent = st.rooms[r].intent
  PROVE  Agrees(k)
<1>1. DOMAIN k.rooms = DOMAIN st.rooms BY RoomsDomain DEF Agrees, Shape, RoomsShape
<1>2. Shape(k) BY DEF Agrees, Shape, RoomsShape
<1>3. Member(k) BY <1>1 DEF Agrees, Member
<1>. QED BY <1>2, <1>3 DEF Agrees

\* Who sits where: the room a session points to has the seat.
LEMMA Seating ==
  ASSUME NEW st, Agrees(st), NEW t \in Tab
  PROVE  /\ DOMAIN st.rooms = 1..Len(st.rooms) /\ Len(st.rooms) \in Nat
         /\ st.session[t].room # 0 =>
              LET r == st.session[t].room
              IN  r \in DOMAIN st.rooms /\ st.rooms[r] \in Room /\ st.rooms[r].seat[t] # 0
         /\ \A r \in DOMAIN st.rooms : st.rooms[r] # None
              => st.rooms[r] \in Room /\ (st.rooms[r].seat[t] # 0 <=> st.session[t].room = r)
BY RoomsDomain DEF Agrees, Shape, Member

\* Close: everybody in the room is out of it, and the room is gone.
LEMMA CloseOK ==
  ASSUME NEW st, Agrees(st), NEW r \in DOMAIN st.rooms, st.rooms[r] # None, NEW reason
  PROVE  Agrees(Close(st, r, reason)) /\ Follows(st, Close(st, r, reason), {})
<1>. DEFINE k == Close(st, r, reason)
            gone == Seated(st.rooms[r])
<1>1. /\ DOMAIN st.rooms = 1..Len(st.rooms) /\ Len(st.rooms) \in Nat
      /\ st.rooms \in Seq(Room \cup {None})
  BY RoomsDomain DEF Agrees, Shape
<1>2. /\ {"session", "rooms", "down"} \subseteq DOMAIN k
      /\ k.session = [t \in Tab |-> IF t \in gone THEN [st.session[t] EXCEPT !.room = 0]
                                    ELSE st.session[t]]
      /\ k.rooms = [st.rooms EXCEPT ![r] = None]
      /\ k.down = [t \in Tab |-> IF t \in gone /\ Hears(st, t)
                                 THEN Append(st.down[t], Ended(reason)) ELSE st.down[t]]
  BY DEF Close
<1>. HIDE DEF k
<1>3. /\ k.rooms \in Seq(Room \cup {None}) /\ Len(k.rooms) = Len(st.rooms)
      /\ DOMAIN k.rooms = DOMAIN st.rooms
      /\ k.rooms[r] = None /\ \A q \in DOMAIN st.rooms : q # r => k.rooms[q] = st.rooms[q]
  BY <1>1, <1>2, ExceptSeq, RoomsDomain
<1>4. \A t \in Tab : t \in gone <=> st.session[t].room = r BY Seating DEF Seated
<1>5. \A t \in Tab : /\ Fields \subseteq DOMAIN k.session[t]
                     /\ k.session[t].token = st.session[t].token
                     /\ k.session[t].room = IF st.session[t].room = r THEN 0 ELSE st.session[t].room
  BY <1>2, <1>4 DEF Agrees, Shape, Fields
<1>6. DOMAIN k.session = Tab /\ DOMAIN k.down = Tab BY <1>2
<1>7. Shape(k) BY <1>2, <1>3, <1>5, <1>6, <1>1 DEF Agrees, Shape
<1>8. Member(k)
  <2>1. ASSUME NEW t \in Tab, NEW q \in DOMAIN st.rooms
        PROVE  k.session[t].room = q <=> k.rooms[q] # None /\ k.rooms[q].seat[t] # 0
    BY <1>1, <1>3, <1>5 DEF Agrees, Member
  <2>2. ASSUME NEW q \in DOMAIN st.rooms, k.rooms[q] # None
        PROVE  k.rooms[q].seat[k.rooms[q].host] = k.rooms[q].intent /\ k.rooms[q].intent # 0
    BY <2>2, <1>3 DEF Agrees, Member
  <2>. QED BY <2>1, <2>2, <1>3 DEF Member
<1>9. \A t \in Tab : Longer(st.down[t], k.down[t])
  BY <1>2, LongerAgain, LongerByOne, EndedIsNoGreeting
<1>. QED BY <1>5, <1>7, <1>8, <1>9 DEF Agrees, Follows, k

\* Release: a guest is out of its room, and everybody else stays.
LEMMA ReleaseOK ==
  ASSUME NEW st, Agrees(st), NEW t \in Tab, NEW reason, st.session[t].room # 0,
         st.rooms[st.session[t].room].host # t
  PROVE  Agrees(Release(st, t, reason)) /\ Follows(st, Release(st, t, reason), {})
<1>. DEFINE r == st.session[t].room
            room == st.rooms[r]
            k == Release(st, t, reason)
            left == [room EXCEPT !.seat = [room.seat EXCEPT ![t] = 0],
                                 !.away = [room.away EXCEPT ![t] = FALSE]]
            mail == IF Hears(st, t) THEN Append(st.down[t], Ended(reason)) ELSE st.down[t]
<1>1. /\ r \in DOMAIN st.rooms /\ room \in Room
      /\ DOMAIN st.rooms = 1..Len(st.rooms) /\ Len(st.rooms) \in Nat
      /\ st.rooms \in Seq(Room \cup {None})
  BY Seating DEF Agrees, Shape
<1>2. DOMAIN k = DOMAIN st BY DEF Release
<1>3. k.session = [st.session EXCEPT ![t] = [st.session[t] EXCEPT !.room = 0]]
  BY DEF Release, Agrees, Shape
<1>4. k.down = [st.down EXCEPT ![t] = mail] BY DEF Release, Agrees, Shape
<1>5. k.rooms = [st.rooms EXCEPT ![r] = left] BY <1>1 DEF Release, Agrees, Shape, Room
<1>. HIDE DEF k, mail
<1>6. left \in Room /\ left.seat = [room.seat EXCEPT ![t] = 0] /\ left.host = room.host
      /\ left.intent = room.intent
  BY <1>1 DEF Room
<1>. HIDE DEF left
<1>7. left # None BY <1>6, NoneIsNoRoom
<1>8. /\ k.rooms \in Seq(Room \cup {None}) /\ Len(k.rooms) = Len(st.rooms)
      /\ DOMAIN k.rooms = DOMAIN st.rooms
      /\ k.rooms[r] = left /\ \A q \in DOMAIN st.rooms : q # r => k.rooms[q] = st.rooms[q]
  BY <1>1, <1>5, <1>6, ExceptSeq, RoomsDomain
<1>9. /\ DOMAIN k.session = Tab /\ DOMAIN k.down = Tab
      /\ k.session[t].room = 0 /\ k.session[t].token = st.session[t].token
      /\ Fields \subseteq DOMAIN k.session[t]
      /\ \A u \in Tab \ {t} : k.session[u] = st.session[u]
  BY <1>3, <1>4 DEF Agrees, Shape, Fields
<1>10. Shape(k)
  <2>. HIDE DEF r
  <2>2. ASSUME NEW u \in Tab
        PROVE  Fields \subseteq DOMAIN k.session[u] /\ k.session[u].room \in 0..Len(k.rooms)
    BY <1>1, <1>8, <1>9 DEF Agrees, Shape
  <2>. QED BY <1>2, <1>8, <1>9, <2>2 DEF Shape, Agrees
<1>11. Member(k)
  <2>1. ASSUME NEW u \in Tab, NEW q \in DOMAIN st.rooms
        PROVE  k.session[u].room = q <=> k.rooms[q] # None /\ k.rooms[q].seat[u] # 0
    <3>1. q # 0 BY <1>1
    <3>2. CASE q # r BY <3>2, <1>8, <3>1, <1>9 DEF Agrees, Member
    <3>3. CASE q = r /\ u = t BY <1>1, <1>6, <3>1, <3>3, <1>8, <1>9 DEF Room
    <3>4. CASE q = r /\ u # t
      <4>1. left.seat[u] = room.seat[u] BY <3>4, <1>1, <1>6 DEF Room
      <4>. QED BY <3>4, <4>1, <1>1, <1>7, <1>8, <1>9, NoneIsNoRoom DEF Agrees, Member
    <3>. QED BY <3>2, <3>3, <3>4
  <2>2. ASSUME NEW q \in DOMAIN st.rooms, k.rooms[q] # None
        PROVE  k.rooms[q].seat[k.rooms[q].host] = k.rooms[q].intent /\ k.rooms[q].intent # 0
    <3>1. CASE q # r BY <3>1, <2>2, <1>8 DEF Agrees, Member
    <3>2. CASE q = r
      <4>1. room.seat[room.host] = room.intent /\ room.intent # 0 /\ room.host # t
        BY <1>1, NoneIsNoRoom DEF Agrees, Member
      <4>2. left.seat[room.host] = room.seat[room.host] BY <4>1, <1>1, <1>6 DEF Room
      <4>. QED BY <3>2, <4>1, <4>2, <1>6, <1>8
    <3>. QED BY <3>1, <3>2
  <2>. QED BY <2>1, <2>2, <1>8 DEF Member
<1>12. \A u \in Tab : Longer(st.down[u], k.down[u])
  BY LongerAgain, LongerByOne, EndedIsNoGreeting, <1>4 DEF mail, Agrees, Shape
<1>. QED BY <1>10, <1>11, <1>12, <1>9 DEF Agrees, Follows, k

\* A departure frees the seat and the session alike, and lets nobody in.
LEMMA DepartOK ==
  ASSUME NEW st, Agrees(st), NEW t \in Tab, NEW reason, st.session[t].room # 0
  PROVE  Agrees(Depart(st, t, reason)) /\ Follows(st, Depart(st, t, reason), {})
<1>. DEFINE r == st.session[t].room
<1>1. r \in DOMAIN st.rooms /\ st.rooms[r] # None BY Seating, NoneIsNoRoom
<1>2. CASE st.rooms[r].host = t BY <1>1, <1>2, CloseOK DEF Depart
<1>3. CASE st.rooms[r].host # t BY <1>3, ReleaseOK DEF Depart
<1>. QED BY <1>2, <1>3

\* A room that changes, but for its seats, its host and its intent.
LEMMA RoomChangeOK ==
  ASSUME NEW st, Agrees(st), NEW r \in DOMAIN st.rooms, st.rooms[r] # None,
         NEW x \in Room, x.seat = st.rooms[r].seat, x.host = st.rooms[r].host,
         x.intent = st.rooms[r].intent,
         NEW k, {"session", "rooms", "down"} \subseteq DOMAIN k, k.session = st.session,
         k.down = st.down, k.rooms = [st.rooms EXCEPT ![r] = x]
  PROVE  Agrees(k) /\ Follows(st, k, {})
<1>1. /\ k.rooms \in Seq(Room \cup {None}) /\ Len(k.rooms) = Len(st.rooms)
      /\ k.rooms[r] = x /\ \A q \in DOMAIN st.rooms : q # r => k.rooms[q] = st.rooms[q]
  BY ExceptSeq, RoomsDomain DEF Agrees, Shape
<1>2. RoomsShape(k) BY <1>1 DEF Agrees, Shape, RoomsShape
<1>4. \A q \in DOMAIN st.rooms : k.rooms[q] # None =>
           /\ k.rooms[q].seat = st.rooms[q].seat
           /\ k.rooms[q].host = st.rooms[q].host
           /\ k.rooms[q].intent = st.rooms[q].intent
  BY <1>1
<1>5. Agrees(k) BY <1>1, <1>2, NoneIsNoRoom, <1>4, SeatsKept
<1>. QED BY <1>5, LongerAgain DEF Follows

\* A cancelled attempt changes no membership.
LEMMA CancelOK ==
  ASSUME NEW st, Agrees(st), NEW t \in Tab, NEW intent
  PROVE  /\ Agrees(Cancel(st, t, intent)) /\ Follows(st, Cancel(st, t, intent), {})
         /\ Cancel(st, t, intent).rooms = st.rooms
         /\ Cancel(st, t, intent).session[t].room = st.session[t].room
<1>. DEFINE k == Cancel(st, t, intent)
<1>1. PICK c : k = [st EXCEPT !.session[t].cancelled = c] BY DEF Cancel
<1>. HIDE DEF k
<1>2. DOMAIN k = DOMAIN st /\ k.rooms = st.rooms /\ k.down = st.down
      /\ k.session = [st.session EXCEPT ![t] = [st.session[t] EXCEPT !.cancelled = c]]
  BY <1>1 DEF Agrees, Shape
<1>3. /\ DOMAIN k.session = Tab
      /\ \A u \in Tab : /\ Fields \subseteq DOMAIN k.session[u]
                        /\ k.session[u].room = st.session[u].room
                        /\ k.session[u].token = st.session[u].token
  BY <1>2 DEF Agrees, Shape, Fields
<1>4. RoomsShape(k) BY <1>2, <1>3 DEF Agrees, Shape, RoomsShape
<1>5. Agrees(k) BY <1>2, <1>3, <1>4, SeatsKept
<1>6. Follows(st, k, {}) BY <1>2, <1>3, LongerAgain DEF Follows
<1>. QED BY <1>2, <1>3, <1>5, <1>6 DEF k

\* A command that changes nothing lets nobody in.
LEMMA Unchanged ==
  ASSUME NEW st, Agrees(st), NEW who
  PROVE  Follows(st, st, who)
BY LongerAgain DEF Follows

\* A reservation lets the sender in only with the password, and not when it was removed.
LEMMA ReserveOK ==
  ASSUME NEW st, Agrees(st), NEW t \in Tab, NEW c, Sound(c), c.type = "join"
  PROVE  /\ Agrees(Reserve(st, t, c).st) /\ Follows(st, Reserve(st, t, c).st, {t})
         /\ \/ Reserve(st, t, c).st = st
            \/ /\ c.room \in DOMAIN st.rooms /\ st.rooms[c.room] # None
               /\ t \notin st.rooms[c.room].kicked /\ c.password = st.rooms[c.room].lock
<1>. DEFINE r == c.room
            room == st.rooms[r]
            o == Reserve(st, t, c)
            taken == [room EXCEPT !.seat = [room.seat EXCEPT ![t] = c.intent]]
            k == [st EXCEPT !.rooms[r].seat[t] = c.intent,
                            !.session[t].room = r, !.session[t].quiet = FALSE]
            enters == /\ Alive(st, r) /\ t \notin room.kicked /\ c.password = room.lock
                      /\ st.session[t].room = 0
<1>1. o.st = st \/ (enters /\ o.st = k) BY DEF Reserve, Refused, Done, Proven
<1>. HIDE DEF o
<1>2. CASE o.st = st BY <1>2, Unchanged DEF o
<1>3. CASE enters /\ o.st = k
  <2>1. /\ r \in DOMAIN st.rooms /\ room # None /\ room \in Room
        /\ DOMAIN st.rooms = 1..Len(st.rooms) /\ Len(st.rooms) \in Nat
        /\ st.rooms \in Seq(Room \cup {None}) /\ st.session[t].room = 0
    BY <1>3, Seating DEF Alive, Agrees, Shape
  <2>2. DOMAIN k = DOMAIN st /\ k.down = st.down BY DEF Agrees, Shape
  <2>3. k.session = [st.session EXCEPT ![t] = [st.session[t] EXCEPT !.room = r, !.quiet = FALSE]]
    BY DEF Agrees, Shape, Fields
  <2>4. k.rooms = [st.rooms EXCEPT ![r] = taken] BY <2>1 DEF Agrees, Shape, Room
  <2>. HIDE DEF k
  <2>5. c.intent \in Nat \ {0} BY DEF Sound, Attempts
  <2>6. taken \in Room /\ taken.seat = [room.seat EXCEPT ![t] = c.intent] /\ taken.host = room.host
        /\ taken.intent = room.intent
    BY <2>1, <2>5 DEF Room
  <2>. HIDE DEF taken
  <2>7. /\ k.rooms \in Seq(Room \cup {None}) /\ Len(k.rooms) = Len(st.rooms)
        /\ DOMAIN k.rooms = DOMAIN st.rooms
        /\ k.rooms[r] = taken /\ \A q \in DOMAIN st.rooms : q # r => k.rooms[q] = st.rooms[q]
    BY <2>1, <2>4, <2>6, ExceptSeq, RoomsDomain
  <2>8. /\ DOMAIN k.session = Tab
        /\ k.session[t].room = r /\ k.session[t].token = st.session[t].token
        /\ Fields \subseteq DOMAIN k.session[t]
        /\ \A u \in Tab \ {t} : k.session[u] = st.session[u]
    BY <2>3 DEF Agrees, Shape, Fields
  <2>9. Shape(k) BY <2>1, <2>2, <2>7, <2>8 DEF Agrees, Shape
  <2>10. taken # None BY <2>6, NoneIsNoRoom
  <2>11. Member(k)
    <3>1. ASSUME NEW u \in Tab, NEW q \in DOMAIN st.rooms
          PROVE  k.session[u].room = q <=> k.rooms[q] # None /\ k.rooms[q].seat[u] # 0
      <4>1. CASE u = t /\ q = r BY <2>1, <2>6, <4>1, <2>5, <2>7, <2>8, <2>10 DEF Room
      <4>2. CASE u = t /\ q # r BY <2>1, <4>2, <2>7, <2>8 DEF Agrees, Member
      <4>3. CASE u # t /\ q = r
        <5>1. taken.seat[u] = room.seat[u] BY <4>3, <2>1, <2>6 DEF Room
        <5>. QED BY <4>3, <5>1, <2>1, <2>7, <2>8, <2>10 DEF Agrees, Member
      <4>4. CASE u # t /\ q # r BY <4>4, <2>7, <2>8 DEF Agrees, Member
      <4>. QED BY <4>1, <4>2, <4>3, <4>4
    <3>2. ASSUME NEW q \in DOMAIN st.rooms, k.rooms[q] # None
          PROVE  k.rooms[q].seat[k.rooms[q].host] = k.rooms[q].intent /\ k.rooms[q].intent # 0
      <4>1. CASE q # r BY <4>1, <3>2, <2>7 DEF Agrees, Member
      <4>2. CASE q = r
        <5>1. room.seat[room.host] = room.intent /\ room.intent # 0 /\ room.host \in Tab
          BY <2>1 DEF Agrees, Member, Room
        <5>2. room.host # t BY <5>1, <2>1, Seating
        <5>. QED BY <4>2, <5>1, <5>2, <2>1, <2>6, <2>7 DEF Room
      <4>. QED BY <4>1, <4>2
    <3>. QED BY <3>1, <3>2, <2>7 DEF Member
  <2>12. Follows(st, k, {t}) BY <2>2, <2>8, LongerAgain DEF Follows
  <2>. QED BY <1>3, <2>1, <2>9, <2>11, <2>12 DEF Agrees, o
<1>. QED BY <1>1, <1>2, <1>3

\* Creating a lobby lets the sender in as its host.
LEMMA CreateLobbyOK ==
  ASSUME NEW st, Agrees(st), NEW t \in Tab, NEW c, Sound(c), c.type = "create"
  PROVE  Agrees(CreateLobby(st, t, c).st) /\ Follows(st, CreateLobby(st, t, c).st, {t})
<1>. DEFINE o == CreateLobby(st, t, c)
            n == Len(st.rooms) + 1
            new == Opened(t, c)
            k == [st EXCEPT !.rooms = Append(st.rooms, new),
                            !.session[t].room = n, !.session[t].quiet = FALSE]
<1>1. o.st = st \/ (st.session[t].room = 0 /\ o.st = k) BY DEF CreateLobby, Refused, Done
<1>. HIDE DEF o
<1>2. CASE o.st = st BY <1>2, Unchanged DEF o
<1>3. CASE st.session[t].room = 0 /\ o.st = k
  <2>1. /\ DOMAIN st.rooms = 1..Len(st.rooms) /\ Len(st.rooms) \in Nat
        /\ st.rooms \in Seq(Room \cup {None})
    BY RoomsDomain DEF Agrees, Shape
  <2>2. DOMAIN k = DOMAIN st /\ k.down = st.down /\ k.rooms = Append(st.rooms, new)
    BY DEF Agrees, Shape
  <2>3. k.session = [st.session EXCEPT ![t] = [st.session[t] EXCEPT !.room = n, !.quiet = FALSE]]
    BY DEF Agrees, Shape, Fields
  <2>. HIDE DEF k
  <2>4. c.intent \in Nat \ {0} BY DEF Sound, Attempts
  <2>5. /\ new \in Room /\ new.host = t /\ new.intent = c.intent
        /\ \A u \in Tab : new.seat[u] = IF u = t THEN c.intent ELSE 0
    BY <2>4 DEF Opened, Room
  <2>. HIDE DEF new
  <2>6. new # None BY <2>5, NoneIsNoRoom
  <2>7. /\ k.rooms \in Seq(Room \cup {None}) /\ Len(k.rooms) = n
        /\ \A q \in 1..Len(st.rooms) : k.rooms[q] = st.rooms[q]
        /\ k.rooms[n] = new
    BY <2>1, <2>2, <2>5, AppendProperties
  <2>8. /\ DOMAIN k.rooms = 1..n /\ n \notin 1..Len(st.rooms) /\ n \in Nat \ {0}
        /\ \A q \in 1..n : q \in 1..Len(st.rooms) \/ q = n
    BY <2>1, <2>7, RoomsDomain
  <2>9. /\ DOMAIN k.session = Tab
        /\ k.session[t].room = n /\ k.session[t].token = st.session[t].token
        /\ Fields \subseteq DOMAIN k.session[t]
        /\ \A u \in Tab \ {t} : k.session[u] = st.session[u]
    BY <2>3 DEF Agrees, Shape, Fields
  <2>10. \A u \in Tab : st.session[u].room \in 0..Len(st.rooms) BY DEF Agrees, Shape
  <2>11. Shape(k) BY <2>1, <2>9, <2>10, <2>2, <2>7 DEF Agrees, Shape
  <2>12. Member(k)
    <3>1. ASSUME NEW u \in Tab, NEW q \in 1..n
          PROVE  k.session[u].room = q <=> k.rooms[q] # None /\ k.rooms[q].seat[u] # 0
      <4>1. CASE q = n /\ u = t BY <4>1, <2>4, <2>5, <2>6, <2>7, <2>9
      <4>2. CASE q = n /\ u # t BY <2>1, <2>10, <4>2, <2>5, <2>7, <2>9
      <4>3. CASE q # n BY <4>3, <2>7, <2>8, <1>3, <2>1, <2>9 DEF Agrees, Member
      <4>. QED BY <4>1, <4>2, <4>3
    <3>2. ASSUME NEW q \in 1..n, k.rooms[q] # None
          PROVE  k.rooms[q].seat[k.rooms[q].host] = k.rooms[q].intent /\ k.rooms[q].intent # 0
      BY <2>4, <2>5, <2>7, <3>2, <2>1, <2>8 DEF Agrees, Member
    <3>. QED BY <3>1, <3>2, <2>8 DEF Member
  <2>13. Follows(st, k, {t}) BY <2>2, <2>9, LongerAgain DEF Follows
  <2>. QED BY <1>3, <2>11, <2>12, <2>13 DEF Agrees, o
<1>. QED BY <1>1, <1>2, <1>3

\* Leaving, and withdrawing a creation, let nobody in.
LEMMA LeaveOK ==
  ASSUME NEW st, Agrees(st), NEW t \in Tab, NEW c
  PROVE  /\ Agrees(Leave(st, t, c).st) /\ Follows(st, Leave(st, t, c).st, {})
         /\ Agrees(CancelCreate(st, t, c).st) /\ Follows(st, CancelCreate(st, t, c).st, {})
<1>. DEFINE k == Cancel(st, t, c.intent)
            r == st.session[t].room
<1>1. Agrees(k) /\ Follows(st, k, {}) /\ k.rooms = st.rooms /\ k.session[t].room = r BY CancelOK
<1>. HIDE DEF k
<1>3. \/ CancelCreate(st, t, c).st = k
      \/ r # 0 /\ CancelCreate(st, t, c).st = Close(k, r, "creation_cancelled")
  BY DEF CancelCreate, Done, k
<1>4. {} \cup {} = {} OBVIOUS
<1>5. r # 0 => /\ Agrees(Depart(k, t, "left"))
               /\ Follows(st, Depart(k, t, "left"), {})
  BY <1>1, <1>4, DepartOK, FollowsTwice
<1>6. r # 0 => /\ Agrees(Close(k, r, "creation_cancelled"))
               /\ Follows(st, Close(k, r, "creation_cancelled"), {})
  <2>. SUFFICES ASSUME r # 0
                PROVE  /\ Agrees(Close(k, r, "creation_cancelled"))
                       /\ Follows(st, Close(k, r, "creation_cancelled"), {})
    OBVIOUS
  <2>1. r \in DOMAIN k.rooms /\ k.rooms[r] # None BY <1>1, Seating, NoneIsNoRoom
  <2>. QED BY <2>1, <1>1, <1>4, CloseOK, FollowsTwice
<1>. QED BY <1>1, <1>3, <1>5, <1>6 DEF Leave, Done, k

\* Closing a room lets nobody in.
LEMMA CloseRoomOK ==
  ASSUME NEW st, Agrees(st), NEW t \in Tab, NEW c
  PROVE  Agrees(CloseRoom(st, t, c).st) /\ Follows(st, CloseRoom(st, t, c).st, {})
BY Seating, NoneIsNoRoom, CloseOK, Unchanged DEF Hosted, CloseRoom, Done, Refused

\* Removing a guest lets nobody in.
LEMMA RemoveOK ==
  ASSUME NEW st, Agrees(st), NEW t \in Tab, NEW c
  PROVE  Agrees(Remove(st, t, c).st) /\ Follows(st, Remove(st, t, c).st, {})
<1>. DEFINE r == c.room
            who == {u \in Tab \ {t} : Hosted(st, t, r) /\ st.rooms[r].seat[u] = c.intent}
            u == CHOOSE v \in who : TRUE
            k == [st EXCEPT !.rooms[r].kicked = st.rooms[r].kicked \cup {u}]
<1>1. CASE c.intent = 0 \/ who = {} BY <1>1, Unchanged DEF Remove, Refused
<1>2. CASE ~(c.intent = 0 \/ who = {})
  <2>1. u \in who BY <1>2
  <2>2. Remove(st, t, c).st = Release(k, u, "removed") BY <1>2 DEF Remove, Done
  <2>3. /\ u \in Tab /\ u # t /\ Hosted(st, t, r) /\ st.rooms[r].seat[u] = c.intent BY <2>1
  <2>. HIDE DEF u
  <2>4. r \in DOMAIN st.rooms /\ st.rooms[r] # None /\ st.rooms[r] \in Room /\ st.rooms[r].host = t
    BY <2>3, Seating, NoneIsNoRoom DEF Hosted
  <2>5. st.session[u].room = r /\ r # 0 BY <1>2, <2>3, <2>4, Seating DEF Hosted
  <2>. DEFINE x == [st.rooms[r] EXCEPT !.kicked = st.rooms[r].kicked \cup {u}]
  <2>6. /\ x \in Room /\ x.seat = st.rooms[r].seat /\ x.host = st.rooms[r].host
        /\ x.intent = st.rooms[r].intent
    BY <2>3, <2>4 DEF Room
  <2>7. /\ DOMAIN k = DOMAIN st /\ k.session = st.session /\ k.down = st.down
        /\ k.rooms = [st.rooms EXCEPT ![r] = x]
    BY <2>4 DEF Agrees, Shape
  <2>. HIDE DEF k, x
  <2>8. Agrees(k) /\ Follows(st, k, {}) BY <2>7, <2>4, <2>6, RoomChangeOK DEF Agrees, Shape
  <2>9. k.rooms[r] = x BY <2>4, <2>7
  <2>10. Agrees(Release(k, u, "removed")) /\ Follows(k, Release(k, u, "removed"), {})
    BY <2>3, <2>4, <2>5, <2>6, <2>7, <2>8, <2>9, ReleaseOK
  <2>11. {} \cup {} = {} OBVIOUS
  <2>. QED BY <2>2, <2>8, <2>10, <2>11, FollowsTwice
<1>. QED BY <1>1, <1>2

\* Changing a room's password lets nobody in.
LEMMA SetAccessOK ==
  ASSUME NEW st, Agrees(st), NEW t \in Tab, NEW c, Sound(c)
  PROVE  Agrees(SetAccess(st, t, c).st) /\ Follows(st, SetAccess(st, t, c).st, {})
<1>. DEFINE r == c.room
            x == [st.rooms[r] EXCEPT !.access = st.rooms[r].access + 1, !.lock = c.password]
            k == [st EXCEPT !.rooms[r].access = st.rooms[r].access + 1, !.rooms[r].lock = c.password]
<1>1. SetAccess(st, t, c).st = st \/ (Hosted(st, t, r) /\ SetAccess(st, t, c).st = k)
  BY DEF SetAccess, Refused, Done
<1>2. CASE Hosted(st, t, r)
  <2>1. r \in DOMAIN st.rooms /\ st.rooms[r] # None /\ st.rooms[r] \in Room
    BY <1>2, Seating, NoneIsNoRoom DEF Hosted
  <2>2. c.password \in Nat /\ st.rooms[r].access + 1 \in Nat BY <2>1 DEF Room, Sound
  <2>4. /\ x \in Room /\ x.seat = st.rooms[r].seat /\ x.host = st.rooms[r].host
        /\ x.intent = st.rooms[r].intent
    BY <2>2, <2>1 DEF Room
  <2>5. /\ DOMAIN k = DOMAIN st /\ k.session = st.session /\ k.down = st.down
        /\ k.rooms = [st.rooms EXCEPT ![r] = x]
    BY <2>1 DEF Agrees, Shape, Room
  <2>. HIDE DEF k, x
  <2>6. {"session", "rooms", "down"} \subseteq DOMAIN k BY <2>5 DEF Agrees, Shape
  <2>7. Agrees(k) /\ Follows(st, k, {}) BY <2>1, <2>4, <2>5, <2>6, RoomChangeOK
  <2>. QED BY <1>1, <2>7, Unchanged
<1>. QED BY <1>1, <1>2, Unchanged

\* Whatever a tab asks for, rooms and sessions agree afterwards.
Entrants(t, c) == IF c.type \in Attempts THEN {t} ELSE {}

\* Every command keeps rooms and sessions in agreement.
LEMMA ApplyOK ==
  ASSUME NEW st, Agrees(st), NEW t \in Tab, NEW c, Sound(c), c.type # "hello"
  PROVE  Agrees(Apply(st, t, c).st) /\ Follows(st, Apply(st, t, c).st, Entrants(t, c))
<1>1. CASE c.type = "join" BY <1>1, ReserveOK DEF Apply, Entrants, Attempts
<1>2. CASE c.type = "create" BY <1>2, CreateLobbyOK DEF Apply, Entrants, Attempts
<1>3. CASE c.type = "leave" BY <1>3, LeaveOK DEF Apply, Entrants, Attempts
<1>4. CASE c.type = "cancelCreate" BY <1>4, LeaveOK DEF Apply, Entrants, Attempts
<1>5. CASE c.type = "close" BY <1>5, CloseRoomOK DEF Apply, Entrants, Attempts
<1>6. CASE c.type = "remove" BY <1>6, RemoveOK DEF Apply, Entrants, Attempts
<1>7. CASE c.type = "access" BY <1>7, SetAccessOK DEF Apply, Entrants, Attempts
<1>. QED BY <1>1, <1>2, <1>3, <1>4, <1>5, <1>6, <1>7 DEF Sound

\* A reply changes nothing but the mail.
LEMMA AnswerOK ==
  ASSUME NEW t \in Tab, NEW socket, NEW c, NEW o, Agrees(o.st)
  PROVE  LET k == Answer(t, socket, c, o)
         IN  /\ Agrees(k) /\ k.session = o.st.session /\ k.rooms = o.st.rooms
             /\ \A u \in Tab \ {t} : k.down[u] = o.st.down[u]
             /\ \/ k.down[t] = o.st.down[t]
                \/ \E m : k.down[t] = Append(o.st.down[t], m) /\ m.n = c.n /\ m.code = o.code
             /\ c.n # 1 => Follows(o.st, k, {})
<1>. DEFINE st == o.st
            k == Answer(t, socket, c, o)
            r == st.session[t].room
            reply == [type |-> "result", n |-> c.n, code |-> o.code, room |-> r,
                intent |-> IF r = 0 THEN 0 ELSE st.rooms[r].seat[t],
                host |-> r # 0 /\ st.rooms[r].host = t]
<1>1. k = st \/ k = [st EXCEPT !.down[t] = Append(st.down[t], reply)] BY DEF Answer
<1>2. reply.n = c.n /\ reply.code = o.code OBVIOUS
<1>. HIDE DEF k, reply
<1>3. /\ DOMAIN k = DOMAIN st /\ k.session = st.session /\ k.rooms = st.rooms
      /\ DOMAIN k.down = Tab
      /\ \A u \in Tab \ {t} : k.down[u] = st.down[u]
      /\ k.down[t] = st.down[t] \/ k.down[t] = Append(st.down[t], reply)
  BY <1>1 DEF Agrees, Shape
<1>4. Agrees(k) BY <1>3 DEF Agrees, Shape, Member
<1>5. ASSUME c.n # 1
      PROVE  Follows(st, k, {})
  BY <1>2, <1>5, <1>3, LongerAgain, LongerByOne DEF Greets, Follows
<1>. QED BY <1>2, <1>3, <1>4, <1>5 DEF k

-----------------------------------------------------------------------------
(* The steps of the coordinator.                                           *)

\* The initial state has the invariant.
LEMMA InitInv == Init => Inv
<1>. SUFFICES ASSUME Init PROVE Inv OBVIOUS
<1>. USE DEF Init
<1>2. /\ \A t \in Tab : session[t] = Nobody /\ up[t] = <<>> /\ down[t] = <<>> /\ tab[t] = Offline
      /\ DOMAIN session = Tab /\ DOMAIN up = Tab /\ DOMAIN down = Tab /\ DOMAIN tab = Tab
  OBVIOUS
<1>3. Agrees(Now) BY NothingIsSeq, EmptySeq, <1>2 DEF Shape, Nobody, Fields, Member, Agrees, Now
<1>4. Sides BY <1>2, NothingIsSeq DEF Screen, Offline, Sides
<1>5. ASSUME NEW t \in Tab PROVE Bound(t) /\ Greetings(t)
  BY <1>2, NothingIsSeq DEF Bound, Greetings, Nobody, Offline
<1>. QED BY <1>3, <1>4, <1>5 DEF Inv

\* A derivation that is taken on is for a tab the coordinator knows.
Derivable(w) ==
  /\ w.tab \in Tab /\ Sound(w.command) /\ w.command.type \in {"join", "access"}
  /\ w.command.type \in Attempts => Known(w.tab)

\* The coordinator takes what is at the head of a tab's mail.
LEMMA TailMail ==
  ASSUME Inv, NEW t \in Tab, up[t] # <<>>, up' = [up EXCEPT ![t] = Tail(up[t])]
  PROVE  /\ DOMAIN up' = Tab
         /\ \A u \in Tab :
              /\ IsSeq(up'[u])
              /\ \A i \in DOMAIN up'[u] :
                   \E j \in DOMAIN up[u] : up'[u][i] = up[u][j] /\ (i = j \/ j # 1)
         /\ \A i \in DOMAIN up'[t] : \E j \in DOMAIN up[t] : up'[t][i] = up[t][j] /\ j # 1
<1>1. up'[t] = Tail(up[t]) /\ DOMAIN up' = Tab /\ \A u \in Tab \ {t} : up'[u] = up[u]
  BY DEF Inv, Sides
<1>2. /\ IsSeq(Tail(up[t]))
      /\ \A i \in DOMAIN Tail(up[t]) :
           \E j \in DOMAIN up[t] : Tail(up[t])[i] = up[t][j] /\ j # 1
  BY TailIsSeq DEF Inv, Sides
<1>3. ASSUME NEW u \in Tab
      PROVE  /\ IsSeq(up'[u])
             /\ \A i \in DOMAIN up'[u] :
                  \E j \in DOMAIN up[u] : up'[u][i] = up[u][j] /\ (i = j \/ j # 1)
  <2>1. CASE u = t
    <3>1. up'[u] = Tail(up[u]) /\ IsSeq(Tail(up[u]))
          /\ \A i \in DOMAIN Tail(up[u]) :
               \E j \in DOMAIN up[u] : Tail(up[u])[i] = up[u][j] /\ j # 1
      BY <1>1, <1>2, <2>1, Zenon
    <3>. QED BY <3>1, Zenon
  <2>2. CASE u # t BY <1>1, <2>2 DEF Inv, Sides
  <2>. QED BY <2>1, <2>2
<1>. QED BY <1>1, <1>2, <1>3, Zenon

\* A step of the coordinator that greets nobody.
LEMMA Installed ==
  ASSUME Inv, NEW k, Agrees(k), Install(k), NEW who, Follows(Now, k, who),
         \A t \in who : t \in Tab => Known(t),
         UNCHANGED <<tab, restarts>>,
         up' = up \/ \E t \in Tab : up[t] # <<>> /\ up' = [up EXCEPT ![t] = Tail(up[t])],
         IsSeq(work'),
         \A i \in DOMAIN work' : (\E j \in DOMAIN work : work'[i] = work[j]) \/ Derivable(work'[i])
  PROVE  Inv'
<1>1. /\ session' = k.session /\ rooms' = k.rooms /\ down' = k.down
      /\ Now' = [session |-> k.session, rooms |-> k.rooms, down |-> k.down]
      /\ Now = [session |-> session, rooms |-> rooms, down |-> down]
  BY DEF Install, Now
<1>2. Agrees(Now)' BY <1>1 DEF Agrees, Shape, Member
<1>3. /\ DOMAIN up' = Tab
      /\ \A t \in Tab :
           /\ IsSeq(up'[t])
           /\ \A i \in DOMAIN up'[t] : \E j \in DOMAIN up[t] : up'[t][i] = up[t][j] /\ (i = j \/ j # 1)
  <2>1. CASE up' = up BY <2>1 DEF Inv, Sides
  <2>2. CASE \E t \in Tab : up[t] # <<>> /\ up' = [up EXCEPT ![t] = Tail(up[t])]
    <3>1. PICK t \in Tab : up[t] # <<>> /\ up' = [up EXCEPT ![t] = Tail(up[t])] BY <2>2
    <3>. QED BY <3>1, TailMail
  <2>. QED BY <2>1, <2>2
<1>4. Sides' BY <1>1, <1>3 DEF Inv, Sides, Follows, Longer, Derivable
<1>5. \A t \in Tab : Known(t)' <=> Known(t) BY <1>1 DEF Known, Follows
<1>6. ASSUME NEW t \in Tab PROVE Bound(t)' BY <1>1, <1>5, <1>3 DEF Follows, Inv, Bound, Derivable
<1>7. ASSUME NEW t \in Tab PROVE Greetings(t)'
  BY <1>1, <1>3, <1>5 DEF Follows, Longer, Inv, Sides, Greetings, Greets
<1>. QED BY <1>2, <1>4, <1>6, <1>7 DEF Inv

\* The command at the head of a tab's mail.
LEMMA HeadOf ==
  ASSUME Inv, NEW t \in Tab, up[t] # <<>>
  PROVE  /\ Sound(Head(up[t])) /\ 1 \in DOMAIN up[t] /\ Head(up[t]) = up[t][1]
         /\ Head(up[t]).type # "hello" => Head(up[t]).n # 1
         /\ Head(up[t]).type \in Attempts => Known(t)
BY TailIsSeq DEF Inv, Sides, Sound, Bound

\* The list of password derivations under way.
LEMMA KeptWork == Inv => IsSeq(work)
BY DEF Inv, Sides

\* A handler and its reply.
LEMMA AnsweredOK ==
  ASSUME Inv, NEW t \in Tab, NEW socket, NEW c, Sound(c), c.type # "hello",
         c.type \in Attempts => Known(t), NEW o,
         o = Apply(Now, t, c) \/ o.st = Now
  PROVE  LET k == Answer(t, socket, c, o)
         IN  /\ Agrees(k) /\ Follows(Now, k, Entrants(t, c)) /\ k.session = o.st.session
             /\ \A u \in Entrants(t, c) : u \in Tab => Known(u)
<1>. DEFINE k == Answer(t, socket, c, o)
<1>1. Agrees(Now) BY DEF Inv
<1>2. Agrees(o.st) /\ Follows(Now, o.st, Entrants(t, c)) BY <1>1, ApplyOK, Unchanged
<1>3. c.n # 1 BY DEF Sound
<1>4. Agrees(k) /\ Follows(o.st, k, {}) /\ k.session = o.st.session BY <1>2, <1>3, AnswerOK
<1>. HIDE DEF k
<1>5. Entrants(t, c) \cup {} = Entrants(t, c) OBVIOUS
<1>6. Follows(Now, k, Entrants(t, c)) BY <1>2, <1>4, <1>5, FollowsTwice
<1>. QED BY <1>4, <1>6 DEF k, Entrants

\* A command that is handled at once preserves the invariant.
LEMMA HandleOK ==
  ASSUME Inv, NEW t \in Tab, Handle(t)
  PROVE  Inv'
<1>. DEFINE c == Head(up[t])
            o == IF session[t].socket # tab[t].socket THEN Refused(Now, "authenticate_first")
                 ELSE IF Misplaced(c) THEN Refused(Now, "invalid_password") ELSE Apply(Now, t, c)
            k == Answer(t, tab[t].socket, c, o)
<1>1. /\ up[t] # <<>> /\ c.type # "hello" /\ Install(k)
      /\ up' = [up EXCEPT ![t] = Tail(up[t])] /\ UNCHANGED <<work, tab, restarts>>
  BY DEF Handle, Ready
<1>2. Sound(c) /\ (c.type \in Attempts => Known(t)) BY <1>1, HeadOf
<1>3. o = Apply(Now, t, c) \/ o.st = Now BY DEF Refused
<1>. HIDE DEF c, o
<1>4. /\ Agrees(k) /\ Follows(Now, k, Entrants(t, c))
      /\ \A u \in Entrants(t, c) : u \in Tab => Known(u)
  BY <1>1, <1>2, <1>3, AnsweredOK
<1>. HIDE DEF k
<1>. QED BY <1>1, <1>4, Installed, KeptWork

\* A command that waits for a password derivation preserves the invariant.
LEMMA DeferOK ==
  ASSUME Inv, NEW t \in Tab, Defer(t)
  PROVE  Inv'
<1>. DEFINE c == Head(up[t])
            o == Refused(Now, "rate_limited")
            k == Answer(t, session[t].socket, c, o)
            right == c.type # "join" \/ c.password = rooms[c.room].lock
            w == [tab |-> t, token |-> session[t].token, socket |-> session[t].socket,
                  command |-> c, right |-> right]
<1>1. /\ up[t] # <<>> /\ c.type # "hello" /\ Derives(t, c)
      /\ up' = [up EXCEPT ![t] = Tail(up[t])] /\ UNCHANGED <<tab, restarts>>
      /\ \/ Install(k) /\ UNCHANGED work
         \/ work' = Append(work, w) /\ UNCHANGED <<session, rooms, down>>
  BY DEF Defer, Ready
<1>2. Sound(c) /\ (c.type \in Attempts => Known(t)) /\ c.type \in {"join", "access"}
  BY <1>1, HeadOf DEF Derives
<1>3. o.st = Now BY DEF Refused
<1>4. w.tab = t /\ w.command = c OBVIOUS
<1>. HIDE DEF c, o, w
<1>5. CASE Install(k) /\ UNCHANGED work
  <2>1. /\ Agrees(k) /\ Follows(Now, k, Entrants(t, c))
        /\ \A u \in Entrants(t, c) : u \in Tab => Known(u)
    BY <1>1, <1>2, <1>3, AnsweredOK
  <2>. HIDE DEF k
  <2>. QED BY <1>1, <1>5, <2>1, Installed, KeptWork
<1>6. CASE work' = Append(work, w) /\ UNCHANGED <<session, rooms, down>>
  <2>. DEFINE n == Now
              who == {}
  <2>1. Install(n) /\ Agrees(n) /\ Follows(Now, n, who) BY <1>6, Unchanged DEF Install, Now, Inv
  <2>2. Derivable(w) BY <1>2, <1>4 DEF Derivable
  <2>3. /\ IsSeq(work')
        /\ \A i \in DOMAIN work' : (\E j \in DOMAIN work : work'[i] = work[j]) \/ Derivable(work'[i])
    BY <1>6, KeptWork, AppendIsSeq, <2>2
  <2>4. \A u \in who : u \in Tab => Known(u) OBVIOUS
  <2>. HIDE DEF n, who
  <2>. QED BY <1>1, <2>1, <2>3, <2>4, Installed
<1>. QED BY <1>1, <1>5, <1>6

\* What the end of a derivation does to the rooms.
Outcome(w) ==
  IF ~w.right THEN Refused(Now, "bad_password")
  ELSE IF session[w.tab].token # w.token THEN Refused(Now, "session_expired")
  ELSE IF session[w.tab].socket # w.socket THEN Refused(Now, "session_replaced")
  ELSE Apply(Now, w.tab, w.command)

\* What a finished derivation leaves behind, applied or refused.
LEMMA DerivedOutcome ==
  ASSUME Inv, NEW i, Derived(i)
  PROVE  LET w == work[i] k == Answer(w.tab, w.socket, w.command, Outcome(w))
         IN  /\ i \in DOMAIN work /\ Install(k) /\ Derivable(w)
             /\ Outcome(w) = Apply(Now, w.tab, w.command) \/ Outcome(w).st = Now
             /\ Agrees(k) /\ Follows(Now, k, Entrants(w.tab, w.command))
             /\ k.session = Outcome(w).st.session
             /\ \A u \in Entrants(w.tab, w.command) : u \in Tab => Known(u)
<1>. DEFINE w == work[i]
<1>1. i \in DOMAIN work /\ Install(Answer(w.tab, w.socket, w.command, Outcome(w)))
  BY DEF Derived, Outcome
<1>2. Outcome(w) = Apply(Now, w.tab, w.command) \/ Outcome(w).st = Now BY DEF Outcome, Refused
<1>3. Derivable(w) /\ w.command.type # "hello" BY <1>1 DEF Inv, Sides, Bound, Derivable
<1>. HIDE DEF w
<1>. QED BY <1>1, <1>2, <1>3, AnsweredOK DEF w, Derivable

\* A finished derivation preserves the invariant.
LEMMA DerivedOK ==
  ASSUME Inv, NEW i, Derived(i)
  PROVE  Inv'
<1>. DEFINE w == work[i]
            k == Answer(w.tab, w.socket, w.command, Outcome(w))
            who == Entrants(w.tab, w.command)
<1>1. /\ i \in DOMAIN work /\ Install(k) /\ Agrees(k) /\ Follows(Now, k, who)
      /\ \A u \in who : u \in Tab => Known(u)
  BY DerivedOutcome
<1>. HIDE DEF k, who
<1>2. /\ work' = SubSeq(work, 1, i - 1) \o SubSeq(work, i + 1, Len(work))
      /\ UNCHANGED <<up, tab, restarts>>
  BY DEF Derived
<1>. QED BY <1>1, <1>2, KeptWork, WithoutIsSeq, Installed

\* A step that leaves the mail to the coordinator and its derivations alone.
LEMMA QuietStep ==
  ASSUME Inv, NEW k, Agrees(k), Install(k), Follows(Now, k, {}),
         UNCHANGED <<work, up, tab, restarts>>
  PROVE  Inv'
<1>. DEFINE who == {}
<1>. HIDE DEF who
<1>2. IsSeq(work') /\ \A i \in DOMAIN work' : \E j \in DOMAIN work : work'[i] = work[j] BY KeptWork
<1>. QED BY <1>2, Installed

\* The coordinator's state as one record.
LEMMA NowFields ==
  /\ Now.session = session /\ Now.rooms = rooms /\ Now.down = down
  /\ DOMAIN Now = {"session", "rooms", "down"}
BY DEF Now

\* A session that is touched, but for its room.
LEMMA TouchedOK ==
  ASSUME NEW st, Agrees(st), NEW t \in Tab, NEW s, Fields \subseteq DOMAIN s,
         s.room = st.session[t].room,
         NEW k, {"session", "rooms", "down"} \subseteq DOMAIN k, k.down = st.down,
         k.rooms = st.rooms, k.session = [st.session EXCEPT ![t] = s]
  PROVE  Agrees(k) /\ (s.token = st.session[t].token => Follows(st, k, {}))
BY SeatsKept, LongerAgain DEF Agrees, Shape, RoomsShape, Follows

\* A deadline is set or lifted.
LEMMA AwayOK ==
  ASSUME NEW st, Agrees(st), NEW t \in Tab, NEW r \in DOMAIN st.rooms, st.rooms[r] # None,
         NEW b \in BOOLEAN,
         NEW k, {"session", "rooms", "down"} \subseteq DOMAIN k, k.session = st.session,
         k.down = st.down, k.rooms = [st.rooms EXCEPT ![r].away[t] = b]
  PROVE  Agrees(k) /\ Follows(st, k, {})
<1>. DEFINE x == [st.rooms[r] EXCEPT !.away = [st.rooms[r].away EXCEPT ![t] = b]]
<1>1. st.rooms[r] \in Room BY RoomsDomain DEF Agrees, Shape
<1>3. k.rooms = [st.rooms EXCEPT ![r] = x] BY <1>1 DEF Room
<1>. HIDE DEF x
<1>. QED BY <1>1, <1>3, RoomChangeOK DEF Room

\* A step that only touches a session's socket or timers preserves the invariant.
LEMMA TouchStep ==
  ASSUME Inv, NEW t \in Tab, NEW s, session' = [session EXCEPT ![t] = s],
         Fields \subseteq DOMAIN s, s.room = session[t].room, s.token = session[t].token,
         UNCHANGED <<rooms, work, up, down, tab, restarts>>
  PROVE  Inv'
<1>. DEFINE k == [session |-> [session EXCEPT ![t] = s], rooms |-> rooms, down |-> down]
<1>1. Install(k) /\ Agrees(Now) BY DEF Install, Inv
<1>2. /\ {"session", "rooms", "down"} \subseteq DOMAIN k /\ k.down = Now.down
      /\ k.rooms = Now.rooms /\ k.session = [Now.session EXCEPT ![t] = s]
  BY NowFields
<1>. HIDE DEF k
<1>3. Agrees(k) /\ Follows(Now, k, {}) BY <1>1, <1>2, NowFields, TouchedOK
<1>. QED BY <1>1, <1>3, QuietStep

\* The fields every session has.
LEMMA SessionFields ==
  ASSUME Inv, NEW t \in Tab
  PROVE  Fields \subseteq DOMAIN session[t] /\ DOMAIN session = Tab
BY NowFields DEF Inv, Agrees, Shape

\* A closed socket preserves the invariant.
LEMMA DetachOK ==
  ASSUME Inv, NEW t \in Tab, Detach(t)
  PROVE  Inv'
<1>. DEFINE s == [session[t] EXCEPT !.socket = 0]
<1>1. session' = [session EXCEPT ![t] = s] /\ UNCHANGED <<rooms, work, up, down, tab, restarts>>
  BY SessionFields DEF Detach
<1>2. Fields \subseteq DOMAIN s /\ s.room = session[t].room /\ s.token = session[t].token
  BY SessionFields DEF Fields
<1>. HIDE DEF s
<1>. QED BY <1>1, <1>2, TouchStep

\* A socket whose heartbeats stopped preserves the invariant.
LEMMA LapseOK ==
  ASSUME Inv, NEW t \in Tab, Lapse(t)
  PROVE  Inv'
<1>. DEFINE s == [session[t] EXCEPT !.quiet = TRUE]
<1>1. session' = [session EXCEPT ![t] = s] /\ UNCHANGED <<rooms, work, up, down, tab, restarts>>
  BY SessionFields DEF Lapse
<1>2. Fields \subseteq DOMAIN s /\ s.room = session[t].room /\ s.token = session[t].token
  BY SessionFields DEF Fields
<1>. HIDE DEF s
<1>. QED BY <1>1, <1>2, TouchStep

\* The session is touched and its member's deadline is set, lifted or left.
LEMMA AwayStep ==
  ASSUME Inv, NEW t \in Tab, NEW s, session' = [session EXCEPT ![t] = s],
         Fields \subseteq DOMAIN s, s.room = session[t].room, s.token = session[t].token,
         NEW b \in BOOLEAN, session[t].room # 0,
         rooms' = [rooms EXCEPT ![session[t].room].away[t] = b],
         UNCHANGED <<work, up, down, tab, restarts>>
  PROVE  Inv'
<1>. DEFINE r == session[t].room
            n == [session |-> [session EXCEPT ![t] = s], rooms |-> rooms, down |-> down]
            k == [session |-> [session EXCEPT ![t] = s],
                  rooms |-> [rooms EXCEPT ![r].away[t] = b], down |-> down]
<1>1. Install(k) /\ Agrees(Now) BY DEF Install, Inv
<1>2. /\ {"session", "rooms", "down"} \subseteq DOMAIN n /\ n.down = Now.down
      /\ n.rooms = Now.rooms /\ n.session = [Now.session EXCEPT ![t] = s]
  BY NowFields
<1>3. /\ {"session", "rooms", "down"} \subseteq DOMAIN k /\ k.down = n.down
      /\ k.rooms = [n.rooms EXCEPT ![r].away[t] = b] /\ k.session = n.session
  OBVIOUS
<1>4. r \in DOMAIN rooms /\ rooms[r] # None BY <1>1, Seating, NowFields, NoneIsNoRoom
<1>. HIDE DEF k, n
<1>5. Agrees(n) /\ Follows(Now, n, {}) BY <1>1, <1>2, NowFields, TouchedOK
<1>6. n.rooms = rooms BY <1>2, NowFields
<1>7. Agrees(k) /\ Follows(n, k, {}) BY <1>3, <1>4, <1>5, <1>6, AwayOK
<1>8. {} \cup {} = {} OBVIOUS
<1>9. Follows(Now, k, {}) BY <1>5, <1>7, <1>8, FollowsTwice
<1>. QED BY <1>1, <1>7, <1>9, QuietStep

\* A heartbeat preserves the invariant.
LEMMA HeartbeatOK ==
  ASSUME Inv, NEW t \in Tab, Heartbeat(t)
  PROVE  Inv'
<1>. DEFINE s == [session[t] EXCEPT !.quiet = FALSE]
            r == session[t].room
<1>1. session' = [session EXCEPT ![t] = s] /\ UNCHANGED <<work, up, down, tab, restarts>>
      /\ \/ UNCHANGED rooms
         \/ r # 0 /\ rooms' = [rooms EXCEPT ![r].away[t] = FALSE]
  BY SessionFields DEF Heartbeat
<1>2. Fields \subseteq DOMAIN s /\ s.room = session[t].room /\ s.token = session[t].token
  BY SessionFields DEF Fields
<1>. HIDE DEF s
<1>3. FALSE \in BOOLEAN OBVIOUS
<1>4. CASE UNCHANGED rooms BY <1>1, <1>2, <1>4, TouchStep
<1>5. CASE r # 0 /\ rooms' = [rooms EXCEPT ![r].away[t] = FALSE] BY <1>1, <1>2, <1>3, <1>5, AwayStep
<1>. QED BY <1>1, <1>4, <1>5

\* The deadline a silent member gets preserves the invariant.
LEMMA MissOK ==
  ASSUME Inv, NEW t \in Tab, Miss(t)
  PROVE  Inv'
<1>. DEFINE r == session[t].room
            k == [session |-> session, rooms |-> [rooms EXCEPT ![r].away[t] = TRUE], down |-> down]
<1>1. r # 0 /\ Install(k) /\ UNCHANGED <<work, up, tab, restarts>> /\ Agrees(Now)
  BY DEF Miss, Install, Inv
<1>2. r \in DOMAIN Now.rooms /\ Now.rooms[r] # None BY <1>1, Seating, NowFields, NoneIsNoRoom
<1>3. /\ {"session", "rooms", "down"} \subseteq DOMAIN k /\ k.down = Now.down
      /\ k.session = Now.session /\ k.rooms = [Now.rooms EXCEPT ![r].away[t] = TRUE]
      /\ TRUE \in BOOLEAN
  BY NowFields
<1>. HIDE DEF k, r
<1>4. Agrees(k) /\ Follows(Now, k, {}) BY <1>1, <1>2, <1>3, AwayOK
<1>. QED BY <1>1, <1>4, QuietStep

\* A membership that expires preserves the invariant.
LEMMA ExpireOK ==
  ASSUME Inv, NEW t \in Tab, Expire(t)
  PROVE  Inv'
<1>. DEFINE k == Depart(Now, t, "expired")
<1>1. session[t].room # 0 /\ Install(k) /\ UNCHANGED <<work, up, tab, restarts>> BY DEF Expire
<1>2. Agrees(k) /\ Follows(Now, k, {}) BY <1>1, NowFields, DepartOK DEF Inv
<1>. HIDE DEF k
<1>. QED BY <1>1, <1>2, QuietStep

\* A room the operator closes preserves the invariant.
LEMMA OperatorOK ==
  ASSUME Inv, Operator
  PROVE  Inv'
<1>1. PICK r \in DOMAIN rooms : rooms[r] # None /\ Install(Close(Now, r, "operator_removed"))
  BY DEF Operator
<1>. DEFINE k == Close(Now, r, "operator_removed")
<1>2. Install(k) /\ UNCHANGED <<work, up, tab, restarts>> BY <1>1 DEF Operator
<1>3. Agrees(k) /\ Follows(Now, k, {}) BY <1>1, NowFields, CloseOK DEF Inv
<1>. HIDE DEF k
<1>. QED BY <1>2, <1>3, QuietStep

\* What the coordinator makes of a hello.
Greeting(t) ==
  LET known == session[t].token = tab[t].token
      next == IF tab[t].token = 0
              THEN [Nobody EXCEPT !.token = restarts + 1, !.socket = tab[t].socket]
              ELSE [session[t] EXCEPT !.socket = tab[t].socket, !.quiet = FALSE]
      r == next.room
      st == [Now EXCEPT !.session[t] = next,
                        !.rooms = IF r = 0 THEN Now.rooms
                                  ELSE [Now.rooms EXCEPT ![r].away[t] = FALSE]]
  IN IF known \/ tab[t].token = 0 THEN Done(st) ELSE Refused(Now, "session_expired")

\* What a greeting of a new or a returning session leaves behind.
LEMMA GreetingOK ==
  ASSUME Inv, NEW t \in Tab
  PROVE  LET o == Greeting(t)
         IN  /\ Agrees(o.st) /\ o.st.down = down
             /\ \A u \in Tab \ {t} : o.st.session[u] = session[u]
             /\ o.st.session[t].room # 0 => session[t].room # 0
             /\ tab[t].token # 0 => o.st.session[t].token = session[t].token
             /\ IF o.code = "ok" THEN o.st.session[t].token # 0 ELSE ~Known(t)
<1>. DEFINE o == Greeting(t)
            next == IF tab[t].token = 0
                    THEN [Nobody EXCEPT !.token = restarts + 1, !.socket = tab[t].socket]
                    ELSE [session[t] EXCEPT !.socket = tab[t].socket, !.quiet = FALSE]
            r == next.room
            n == [Now EXCEPT !.session[t] = next, !.rooms = Now.rooms]
            k == [Now EXCEPT !.session[t] = next, !.rooms = [Now.rooms EXCEPT ![r].away[t] = FALSE]]
<1>1. /\ Agrees(Now) /\ restarts \in Nat /\ Fields \subseteq DOMAIN session[t] /\ DOMAIN session = Tab
      /\ session[t].room # 0 => Known(t)
  BY SessionFields DEF Inv, Sides, Bound
<1>2. /\ {"session", "rooms", "down"} \subseteq DOMAIN n /\ n.session = [Now.session EXCEPT ![t] = next]
      /\ n.rooms = Now.rooms /\ n.down = Now.down
      /\ {"session", "rooms", "down"} \subseteq DOMAIN k /\ k.session = n.session
      /\ k.rooms = [n.rooms EXCEPT ![r].away[t] = FALSE] /\ k.down = n.down
  BY NowFields
<1>3. /\ Fields \subseteq DOMAIN next /\ next.room = session[t].room
      /\ tab[t].token # 0 => next.token = session[t].token
      /\ tab[t].token = 0 => next.token = restarts + 1
  BY <1>1 DEF Known, Nobody, Fields
<1>4. \/ o.code = "session_expired" /\ o.st = Now /\ ~Known(t)
      \/ /\ o.code = "ok" /\ (tab[t].token = 0 \/ session[t].token = tab[t].token)
         /\ o.st = n \/ (r # 0 /\ o.st = k)
  <2>1. o = IF session[t].token = tab[t].token \/ tab[t].token = 0
            THEN Done([Now EXCEPT !.session[t] = next,
                        !.rooms = IF r = 0 THEN Now.rooms
                                  ELSE [Now.rooms EXCEPT ![r].away[t] = FALSE]])
            ELSE Refused(Now, "session_expired")
    BY DEF Greeting
  <2>. HIDE DEF o, next
  <2>. QED BY <2>1 DEF Done, Refused, Known
<1>. HIDE DEF o, next, n, k
<1>5. Agrees(n) BY <1>1, <1>2, <1>3, NowFields, TouchedOK
<1>6. n.session[t] = next /\ \A u \in Tab \ {t} : n.session[u] = session[u] BY <1>1, <1>2, NowFields
<1>7. r # 0 => Agrees(k)
  <2>. SUFFICES ASSUME r # 0 PROVE Agrees(k) OBVIOUS
  <2>1. r \in DOMAIN n.rooms /\ n.rooms[r] # None BY <1>5, <1>6, Seating, NoneIsNoRoom
  <2>2. FALSE \in BOOLEAN OBVIOUS
  <2>. HIDE DEF r
  <2>. QED BY <1>2, <1>5, <2>1, <2>2, AwayOK
<1>8. CASE o.code = "session_expired" /\ o.st = Now /\ ~Known(t) BY <1>1, <1>8, NowFields DEF o
<1>9. CASE /\ o.code = "ok" /\ (tab[t].token = 0 \/ session[t].token = tab[t].token)
           /\ o.st = n \/ (r # 0 /\ o.st = k)
  BY <1>2, <1>5, <1>7, <1>9, NowFields, <1>1, <1>3, <1>6 DEF o
<1>. QED BY <1>4, <1>8, <1>9

\* A handled greeting preserves the invariant.
LEMMA AttachOK ==
  ASSUME Inv, NEW t \in Tab, Attach(t)
  PROVE  Inv'
<1>. DEFINE c == Head(up[t])
            o == Greeting(t)
            k == Answer(t, tab[t].socket, c, o)
<1>1. /\ up[t] # <<>> /\ c.type = "hello" /\ Install(k)
      /\ up' = [up EXCEPT ![t] = Tail(up[t])] /\ UNCHANGED <<work, tab, restarts>>
  BY DEF Attach, Greeting
<1>2. Sound(c) /\ 1 \in DOMAIN up[t] /\ c = up[t][1] BY <1>1, HeadOf
<1>3. c.n = 1 /\ \A j \in DOMAIN down[t] : ~Greets(down[t][j])
  BY <1>1, <1>2 DEF Sound, Inv, Greetings
<1>. HIDE DEF c, o
<1>4. /\ Agrees(o.st) /\ o.st.down = down
      /\ \A u \in Tab \ {t} : o.st.session[u] = session[u]
      /\ o.st.session[t].room # 0 => session[t].room # 0
      /\ tab[t].token # 0 => o.st.session[t].token = session[t].token
      /\ IF o.code = "ok" THEN o.st.session[t].token # 0 ELSE ~Known(t)
  BY GreetingOK DEF o
<1>5. /\ Agrees(k) /\ k.session = o.st.session
      /\ \A u \in Tab \ {t} : k.down[u] = down[u]
      /\ \/ k.down[t] = down[t]
         \/ \E m : k.down[t] = Append(down[t], m) /\ m.n = c.n /\ m.code = o.code
  BY <1>4, AnswerOK
<1>. HIDE DEF k
<1>6. /\ session' = k.session /\ rooms' = k.rooms /\ down' = k.down
      /\ Now' = [session |-> k.session, rooms |-> k.rooms, down |-> k.down]
  BY <1>1 DEF Install, Now
<1>7. Agrees(Now)' BY <1>5, <1>6 DEF Agrees, Shape, Member
<1>8. /\ DOMAIN up' = Tab
      /\ \A u \in Tab :
           /\ IsSeq(up'[u])
           /\ \A i \in DOMAIN up'[u] :
                \E j \in DOMAIN up[u] : up'[u][i] = up[u][j] /\ (i = j \/ j # 1)
      /\ \A i \in DOMAIN up'[t] : \E j \in DOMAIN up[t] : up'[t][i] = up[t][j] /\ j # 1
  BY <1>1, TailMail
<1>9. /\ IsSeq(down'[t])
      /\ \A i, j \in DOMAIN down'[t] : Greets(down'[t][i]) /\ Greets(down'[t][j]) => i = j
      /\ \A j \in DOMAIN down'[t] : Greets(down'[t][j]) => down'[t][j].code = o.code
  <2>1. CASE k.down[t] = down[t] BY <2>1, <1>3, <1>6 DEF Inv, Sides
  <2>2. CASE \E m : k.down[t] = Append(down[t], m) /\ m.n = c.n /\ m.code = o.code
    <3>1. PICK m : k.down[t] = Append(down[t], m) /\ m.n = c.n /\ m.code = o.code BY <2>2
    <3>2. /\ IsSeq(down'[t]) /\ DOMAIN down'[t] = 1..(Len(down[t]) + 1) /\ Len(down[t]) \in Nat
          /\ DOMAIN down[t] = 1..Len(down[t]) /\ down'[t][Len(down[t]) + 1] = m
          /\ \A i \in 1..Len(down[t]) : down'[t][i] = down[t][i]
      <4>1. IsSeq(down[t]) /\ down'[t] = Append(down[t], m) BY <3>1, <1>6 DEF Inv, Sides
      <4>. DEFINE s == down[t]
                  v == Append(s, m)
      <4>2. /\ IsSeq(v) /\ DOMAIN v = 1..(Len(s) + 1) /\ Len(s) \in Nat
            /\ DOMAIN s = 1..Len(s) /\ v[Len(s) + 1] = m
            /\ \A i \in 1..Len(s) : v[i] = s[i]
        BY <4>1, AppendIsSeq
      <4>. QED BY <4>1, <4>2, Zenon
    <3>4. \A i \in DOMAIN down'[t] : Greets(down'[t][i]) => i = Len(down[t]) + 1 BY <3>2, <1>3
    <3>. QED BY <3>1, <3>2, <3>4
  <2>. QED BY <2>1, <2>2, <1>5
<1>10. \A u \in Tab : Known(u)' <=> Known(u) BY <1>1, <1>4, <1>5, <1>6 DEF Known
<1>11. Sides' BY <1>5, <1>6, <1>9, <1>8, <1>1 DEF Inv, Sides
<1>12. ASSUME NEW u \in Tab PROVE Bound(u)' BY <1>1, <1>4, <1>5, <1>6, <1>10, <1>8 DEF Inv, Bound
<1>13. ASSUME NEW u \in Tab PROVE Greetings(u)'
  BY <1>8, <1>4, <1>5, <1>6, <1>9, <1>10 DEF Inv, Greetings, Greets
<1>. QED BY <1>7, <1>11, <1>12, <1>13 DEF Inv

\* A restart of the coordinator forgets rooms and sessions alike.
LEMMA RestartOK ==
  ASSUME Inv, Restart
  PROVE  Inv'
<1>1. /\ session' = [t \in Tab |-> Nobody] /\ rooms' = [r \in DOMAIN rooms |-> None]
      /\ work' = <<>> /\ up' = [t \in Tab |-> <<>>] /\ down' = [t \in Tab |-> <<>>]
      /\ tab' = [t \in Tab |-> Dropped(tab[t])] /\ restarts' = restarts + 1
  BY DEF Restart
<1>2. /\ \A t \in Tab : session'[t] = Nobody /\ up'[t] = <<>> /\ down'[t] = <<>>
                        /\ tab'[t] = Dropped(tab[t])
      /\ DOMAIN session' = Tab /\ DOMAIN up' = Tab /\ DOMAIN down' = Tab /\ DOMAIN tab' = Tab
  BY <1>1
<1>3. rooms' \in Seq(Room \cup {None}) /\ Len(rooms') \in Nat /\ \A r \in DOMAIN rooms' : rooms'[r] = None /\ r # 0
  BY RoomsDomain, NowFields, <1>1, SeqDef, LenProperties DEF Inv, Agrees, Shape
<1>5. Agrees(Now)' BY <1>2, <1>3 DEF Shape, Nobody, Fields, Member, Agrees, Now
<1>6. Sides'
  <2>1. restarts' \in Nat BY <1>1 DEF Inv, Sides
  <2>. QED BY <1>1, <1>2, <2>1, NothingIsSeq DEF Sides, Inv, Screen, Dropped
<1>7. ASSUME NEW t \in Tab PROVE Bound(t)' /\ Greetings(t)'
  BY <1>2, <1>1, NothingIsSeq DEF Inv, Sides, Screen, Dropped, Bound, Greetings, Nobody, Greets
<1>. QED BY <1>5, <1>6, <1>7 DEF Inv

-----------------------------------------------------------------------------
(* The steps of a tab.                                                     *)

\* A step changes what a table has for one tab.
Only(f, g, t, x) ==
  /\ DOMAIN f = Tab /\ DOMAIN g = Tab /\ g[t] = x
  /\ \A u \in Tab \ {t} : g[u] = f[u]

\* A function changed at one argument.
LEMMA OnlyThis ==
  ASSUME NEW f, DOMAIN f = Tab, NEW t \in Tab
  PROVE  Only(f, f, t, f[t]) /\ \A x : Only(f, [f EXCEPT ![t] = x], t, x)
BY DEF Only

ScreenOK(c) == Screen \subseteq DOMAIN c /\ c.asked \in Nat /\ c.lobby \in Nat

\* A tab acts: its screen, what it sends and what it has received.
LEMMA TabStep ==
  ASSUME Inv, NEW t \in Tab, NEW c, NEW u, NEW d, UNCHANGED <<session, rooms, work, restarts>>,
         Only(tab, tab', t, c), Only(up, up', t, u), Only(down, down', t, d),
         ScreenOK(c), IsSeq(u), IsSeq(d), \A i \in DOMAIN u : Sound(u[i]),
         Bound(t)', Greetings(t)'
  PROVE  Inv'
<1>2. Agrees(Now)' BY NowFields DEF Inv, Agrees, Shape, Member, Now, Only
<1>3. /\ tab'[t] = c /\ up'[t] = u /\ down'[t] = d
      /\ \A v \in Tab \ {t} : tab'[v] = tab[v] /\ up'[v] = up[v] /\ down'[v] = down[v]
      /\ DOMAIN tab' = Tab /\ DOMAIN up' = Tab
  BY DEF Only
<1>4. Sides'
  <2>1. ASSUME NEW v \in Tab
        PROVE  /\ ScreenOK(tab'[v]) /\ IsSeq(up'[v]) /\ IsSeq(down'[v])
               /\ \A i \in DOMAIN up'[v] : Sound(up'[v][i])
    <3>1. CASE v = t BY <1>3, <3>1, Zenon
    <3>2. CASE v # t BY <1>3, <3>2 DEF Inv, Sides, ScreenOK
    <3>. QED BY <3>1, <3>2
  <2>. QED BY <1>3, <2>1 DEF Inv, Sides, ScreenOK
<1>5. ASSUME NEW v \in Tab \ {t} PROVE Bound(v)' /\ Greetings(v)'
  BY <1>3 DEF Inv, Bound, Greetings, Known, Greets
<1>. QED BY <1>2, <1>4, <1>5 DEF Inv

\* What a tab may add to its mail: no hello, and no attempt without a session.
Adds(t, u) ==
  /\ IsSeq(u)
  /\ \A i \in DOMAIN u :
       \/ i \in DOMAIN up[t] /\ u[i] = up[t][i]
       \/ Sound(u[i]) /\ u[i].type # "hello" /\ (u[i].type \in Attempts => Known(t))
\* What a tab has received: all of it, none of it, or what follows the first.
Loses(s, d) ==
  /\ IsSeq(d)
  /\ d = s \/ \A i \in DOMAIN d : i + 1 \in DOMAIN s /\ i # i + 1 /\ d[i] = s[i + 1]

\* A step of one tab's client that sends only what it may preserves the invariant.
LEMMA TabActs ==
  ASSUME Inv, NEW t \in Tab, NEW c, NEW u, NEW d, UNCHANGED <<session, rooms, work, restarts>>,
         Only(tab, tab', t, c), Only(up, up', t, u), Only(down, down', t, d),
         ScreenOK(c), c.token = tab[t].token, c.connected => tab[t].connected,
         Adds(t, u), Loses(down[t], d)
  PROVE  Inv'
<1>1. tab'[t] = c /\ up'[t] = u /\ down'[t] = d BY DEF Only
<1>2. /\ IsSeq(d)
      /\ \A i \in DOMAIN d : \E j \in DOMAIN down[t] : d[i] = down[t][j]
      /\ \A i, j \in DOMAIN d : Greets(d[i]) /\ Greets(d[j]) => i = j
  BY SeqShape DEF Loses, Inv, Greetings
<1>3. Known(t)' <=> Known(t) BY <1>1 DEF Known
<1>4. \A i \in DOMAIN u : Sound(u[i]) BY DEF Adds, Inv, Sides
<1>5. Bound(t)' BY <1>1, <1>3 DEF Inv, Bound, Adds
<1>6. Greetings(t)' BY <1>1, <1>2, <1>3 DEF Inv, Greetings, Adds, Greets
<1>7. IsSeq(u) /\ IsSeq(d) BY <1>2 DEF Adds
<1>. QED BY <1>4, <1>5, <1>6, <1>7, TabStep

\* A channel from which nothing is read.
LEMMA LosesNothing == Inv => \A t \in Tab : Loses(down[t], down[t])
BY DEF Inv, Sides, Loses

\* A channel that is emptied.
LEMMA LosesAll == \A s : Loses(s, <<>>)
BY NothingIsSeq DEF Loses

\* A channel whose first message is read.
LEMMA LosesFirst ==
  ASSUME NEW s, IsSeq(s), s # <<>>
  PROVE  Loses(s, Tail(s))
BY TailIsSeq DEF Loses

\* A channel to which the client adds nothing.
LEMMA AddsNothing == Inv => \A t \in Tab : Adds(t, up[t])
BY DEF Inv, Sides, Adds

\* A channel that is emptied holds only what may be sent.
LEMMA AddsAll == \A t : Adds(t, <<>>)
BY NothingIsSeq DEF Adds

\* A command a tab may send.
Sendable(t, m) == Sound(m) /\ m.type # "hello" /\ (m.type \in Attempts => Known(t))

\* A channel to which the client adds what it may send.
LEMMA AddsMore ==
  ASSUME Inv, NEW t \in Tab, NEW m, IsSeq(m), \A i \in DOMAIN m : Sendable(t, m[i])
  PROVE  Adds(t, up[t] \o m)
<1>1. IsSeq(up[t]) BY DEF Inv, Sides
<1>. DEFINE s == up[t]
            u == s \o m
<1>2. /\ IsSeq(u)
      /\ \A j \in DOMAIN u : \/ j \in DOMAIN s /\ u[j] = s[j]
                             \/ j \notin DOMAIN s /\ \E i \in DOMAIN m : u[j] = m[i]
  BY <1>1, ConcatIsSeq
<1>. HIDE DEF u
<1>3. Adds(t, u) BY <1>2 DEF Adds, Sendable
<1>. QED BY <1>3 DEF u

\* A single message.
LEMMA OneIsSeq == \A m : IsSeq(<<m>>) /\ DOMAIN <<m>> = {1} /\ <<m>>[1] = m
<1>. TAKE m
<1>1. <<m>> \in Seq({m}) OBVIOUS
<1>2. IsSeq(<<m>>) /\ Len(<<m>>) = 1 BY <1>1 DEF IsSeq
<1>3. 1..1 = {1} /\ <<m>>[1] = m OBVIOUS
<1>. QED BY <1>2, <1>3, SeqShape

\* Sending: nothing goes out without a socket.
LEMMA SendOK ==
  ASSUME Inv, NEW t \in Tab, NEW m, IsSeq(m), \A i \in DOMAIN m : Sendable(t, m[i]), Send(t, m)
  PROVE  \E u : Only(up, up', t, u) /\ Adds(t, u)
<1>. DEFINE u == IF tab[t].socket = 0 THEN up[t] ELSE up[t] \o m
<1>1. Only(up, up', t, u) BY OnlyThis DEF Send, Inv, Sides
<1>2. Adds(t, u) BY AddsNothing, AddsMore
<1>. HIDE DEF u
<1>. QED BY <1>1, <1>2

\* The shape of a tab and its channels.
LEMMA TabScreen ==
  ASSUME Inv, NEW t \in Tab
  PROVE  ScreenOK(tab[t]) /\ DOMAIN tab = Tab /\ DOMAIN up = Tab /\ DOMAIN down = Tab
BY NowFields DEF Inv, Sides, ScreenOK, Agrees, Shape

\* A tab acts and receives nothing; what it sends may be sent.
LEMMA TabSends ==
  ASSUME Inv, NEW t \in Tab, NEW c, UNCHANGED <<session, rooms, work, down, restarts>>,
         Only(tab, tab', t, c),
         ScreenOK(c), c.token = tab[t].token, c.connected => tab[t].connected,
         up' = up \/ \E m : IsSeq(m) /\ (\A i \in DOMAIN m : Sendable(t, m[i])) /\ Send(t, m)
  PROVE  Inv'
<1>1. PICK u : Only(up, up', t, u) /\ Adds(t, u)
  <2>1. CASE up' = up
    <3>. DEFINE n == up[t]
    <3>1. Only(up, up', t, n) /\ Adds(t, n) BY <2>1, TabScreen, OnlyThis, AddsNothing
    <3>. QED BY <3>1
  <2>2. CASE \E m : IsSeq(m) /\ (\A i \in DOMAIN m : Sendable(t, m[i])) /\ Send(t, m)
    BY <2>2, SendOK
  <2>. QED BY <2>1, <2>2
<1>. DEFINE d == down[t]
<1>2. Only(down, down', t, d) /\ Loses(down[t], d) BY TabScreen, OnlyThis, LosesNothing
<1>. HIDE DEF d
<1>. QED BY <1>1, <1>2, TabActs

\* A tab that opens its socket preserves the invariant.
LEMMA ConnectOK ==
  ASSUME Inv, NEW t \in Tab, Connect(t)
  PROVE  Inv'
<1>. DEFINE n == tab[t].sockets + 1
            c == [tab[t] EXCEPT !.socket = n, !.sockets = n, !.waiting = {}]
            m == Command("hello", 1, 0, 0, 0)
            u == <<m>>
            d == <<>>
<1>1. /\ tab' = [tab EXCEPT ![t] = c] /\ up' = [up EXCEPT ![t] = u] /\ down' = [down EXCEPT ![t] = d]
      /\ UNCHANGED <<session, rooms, work, restarts>>
  BY TabScreen DEF Connect
<1>0. Only(tab, tab', t, c) /\ Only(up, up', t, u) /\ Only(down, down', t, d)
  BY <1>1, TabScreen, OnlyThis
<1>2. ScreenOK(c) /\ c.token = tab[t].token /\ c.connected = tab[t].connected
  BY TabScreen DEF ScreenOK, Screen
<1>3. m.type = "hello" /\ Sound(m) BY DEF Command, Sound, Attempts
<1>. HIDE DEF c, m
<1>4. IsSeq(u) /\ IsSeq(d) /\ DOMAIN u = {1} /\ u[1] = m /\ DOMAIN d = {} BY OneIsSeq, NothingIsSeq
<1>. HIDE DEF u, d
<1>5. tab'[t] = c /\ up'[t] = u /\ down'[t] = d BY <1>0 DEF Only
<1>6. Known(t)' <=> Known(t) BY <1>1, <1>2, <1>5 DEF Known
<1>7. Bound(t)' BY <1>3, <1>4, <1>5, <1>1, <1>6, <1>2 DEF Attempts, Inv, Bound
<1>8. Greetings(t)' BY <1>4, <1>5 DEF Greetings
<1>9. \A i \in DOMAIN u : Sound(u[i]) BY <1>3, <1>4
<1>. QED BY <1>0, <1>1, <1>2, <1>4, <1>7, <1>8, <1>9, TabStep

\* A tab that lost its socket keeps its credentials.
LEMMA DroppedScreen ==
  ASSUME NEW c, ScreenOK(c)
  PROVE  ScreenOK(Dropped(c)) /\ Dropped(c).token = c.token /\ Dropped(c).connected = FALSE
BY DEF ScreenOK, Screen, Dropped

\* A socket that breaks preserves the invariant.
LEMMA BreakOK ==
  ASSUME Inv, NEW t \in Tab, Break(t)
  PROVE  Inv'
<1>. DEFINE c == Dropped(tab[t])
            u == <<>>
            d == <<>>
<1>1. /\ tab' = [tab EXCEPT ![t] = c] /\ up' = [up EXCEPT ![t] = u] /\ down' = [down EXCEPT ![t] = d]
      /\ UNCHANGED <<session, rooms, work, restarts>>
  BY DEF Break
<1>2. ScreenOK(c) /\ c.token = tab[t].token /\ ~c.connected BY TabScreen, DroppedScreen
<1>3. Adds(t, u) /\ Loses(down[t], d) BY AddsAll, LosesAll
<1>. HIDE DEF c, u, d
<1>. QED BY <1>1, TabScreen, OnlyThis, <1>2, <1>3, TabActs

\* A request gets a number that is neither a hello's nor none.
LEMMA AskOK ==
  ASSUME Inv, NEW t \in Tab, NEW type \in {"join", "create", "leave", "close"}, NEW intent, NEW r,
         NEW password \in Nat, Ask(t, type, intent, r, password),
         type \in Attempts => intent \in Nat \ {0} /\ Known(t), type = "join" => r # 0
  PROVE  Inv'
<1>. DEFINE n == tab[t].asked + 2
            m == Command(type, n, intent, r, password)
            c == [tab[t] EXCEPT !.asked = tab[t].asked + 1,
                     !.busy = tab[t].busy \/ type \in {"join", "create"},
                     !.joining = IF type = "join" THEN intent ELSE tab[t].joining,
                     !.lobby = IF type = "create" THEN intent ELSE tab[t].lobby,
                     !.waiting = Superseded(tab[t], type)
                       \cup {[n |-> n, type |-> type, intent |-> intent, stale |-> FALSE]}]
<1>1. ScreenOK(tab[t]) /\ n \in Nat /\ n # 1 /\ tab[t].asked + 1 \in Nat BY TabScreen DEF ScreenOK
<1>2. /\ tab' = [tab EXCEPT ![t] = c] /\ Send(t, <<m>>)
      /\ UNCHANGED <<session, rooms, work, down, restarts>>
  BY TabScreen DEF Ask, ScreenOK, Screen
<1>3. Screen \subseteq DOMAIN c /\ c.token = tab[t].token /\ c.connected = tab[t].connected
      /\ c.asked = tab[t].asked + 1 /\ c.lobby = IF type = "create" THEN intent ELSE tab[t].lobby
  BY <1>1 DEF ScreenOK, Screen
<1>. HIDE DEF c
<1>4. ScreenOK(c) BY <1>1, <1>3 DEF ScreenOK, Attempts
<1>5. Sendable(t, m) BY <1>1 DEF Sendable, Sound, Command, Attempts
<1>. HIDE DEF m
<1>6. IsSeq(<<m>>) /\ \A i \in DOMAIN <<m>> : Sendable(t, <<m>>[i]) BY <1>5, OneIsSeq, Zenon
<1>7. Only(tab, tab', t, c) BY <1>2, TabScreen, OnlyThis
<1>. QED BY <1>2, <1>3, <1>4, <1>6, <1>7, TabSends

\* A connected tab is known to the coordinator.
LEMMA IdleIsKnown == Inv => \A t \in Tab : tab[t].connected => Known(t)
BY DEF Inv, Bound

\* A request to create a room preserves the invariant.
LEMMA CreateOK ==
  ASSUME Inv, NEW t \in Tab, Create(t)
  PROVE  Inv'
<1>. DEFINE intent == IF tab[t].lobby # 0 THEN tab[t].lobby ELSE tab[t].asked + 2
<1>1. Ask(t, "create", intent, 0, 0) /\ Known(t) BY IdleIsKnown DEF Create, Idle
<1>2. intent \in Nat \ {0} BY TabScreen DEF ScreenOK
<1>. HIDE DEF intent
<1>. QED BY <1>1, <1>2, AskOK

\* A request to join preserves the invariant.
LEMMA JoinOK ==
  ASSUME Inv, NEW t \in Tab, Join(t)
  PROVE  Inv'
<1>1. PICK r \in DOMAIN rooms : \E password \in 0..(MaxAccess + 1) :
         Ask(t, "join", tab[t].asked + 2, r, password)
  BY DEF Join
<1>2. PICK password \in 0..(MaxAccess + 1) : Ask(t, "join", tab[t].asked + 2, r, password) BY <1>1
<1>3. password \in Nat OBVIOUS
<1>4. r # 0 BY RoomsDomain, NowFields DEF Inv, Agrees, Shape
<1>5. Known(t) /\ tab[t].asked + 2 \in Nat \ {0} BY IdleIsKnown, TabScreen DEF Join, Idle, ScreenOK
<1>. QED BY <1>2, <1>3, <1>4, <1>5, AskOK

\* A request to leave preserves the invariant.
LEMMA QuitOK ==
  ASSUME Inv, NEW t \in Tab, Quit(t)
  PROVE  Inv'
BY AskOK DEF Quit, Attempts

\* A command of a host to its room preserves the invariant.
LEMMA ManageOK ==
  ASSUME Inv, NEW t \in Tab, Manage(t)
  PROVE  Inv'
<1>. DEFINE r == tab[t].room.id
<1>1. UNCHANGED <<session, rooms, work, down, tab, restarts>> BY DEF Manage
<1>2. \E m : Sendable(t, m) /\ Send(t, <<m>>)
  <2>1. Alive(Now, r) BY DEF Manage
  <2>2. rooms[r] \in Room BY <2>1, RoomsDomain, NowFields DEF Alive, Inv, Agrees, Shape
  <2>3. CASE \E u \in Tab \ {t} :
             rooms[r].seat[u] # 0 /\ Send(t, <<Command("remove", 0, rooms[r].seat[u], r, 0)>>)
    <3>1. PICK u \in Tab \ {t} : Send(t, <<Command("remove", 0, rooms[r].seat[u], r, 0)>>) BY <2>3
    <3>2. Sendable(t, Command("remove", 0, rooms[r].seat[u], r, 0))
      BY DEF Sendable, Sound, Command, Attempts
    <3>. QED BY <3>1, <3>2
  <2>4. CASE \E password \in {0, rooms[r].access + 2} :
                Send(t, <<Command("access", 0, rooms[r].access, r, password)>>)
    <3>1. PICK password \in {0, rooms[r].access + 2} :
                Send(t, <<Command("access", 0, rooms[r].access, r, password)>>)
      BY <2>4
    <3>2. password \in Nat BY <2>2 DEF Room
    <3>3. Sendable(t, Command("access", 0, rooms[r].access, r, password))
      BY <3>2 DEF Sendable, Sound, Command, Attempts
    <3>. QED BY <3>1, <3>3
  <2>. QED BY <2>3, <2>4 DEF Manage
<1>3. PICK m : Sendable(t, m) /\ Send(t, <<m>>) BY <1>2
<1>4. IsSeq(<<m>>) /\ \A i \in DOMAIN <<m>> : Sendable(t, <<m>>[i]) BY <1>3, OneIsSeq, Zenon
<1>. DEFINE c == tab[t]
<1>5. Only(tab, tab', t, c) BY <1>1, TabScreen, OnlyThis
<1>6. ScreenOK(c) /\ c.token = tab[t].token /\ (c.connected => tab[t].connected) BY TabScreen
<1>. HIDE DEF c
<1>. QED BY <1>1, <1>3, <1>4, <1>5, <1>6, TabSends

\* A withdrawn attempt preserves the invariant.
LEMMA WithdrawAttemptOK ==
  ASSUME Inv, NEW t \in Tab, WithdrawAttempt(t)
  PROVE  Inv'
<1>. DEFINE c == [tab[t] EXCEPT !.joining = 0, !.lobby = 0, !.busy = FALSE,
                    !.waiting = {[w EXCEPT !.stale = w.stale \/ w.type \in {"join", "create"}]
                                   : w \in tab[t].waiting}]
            a == Command("cancelCreate", 0, tab[t].lobby, 0, 0)
            b == Command("leave", 0, tab[t].joining, 0, 0)
            x == IF tab[t].lobby = 0 THEN <<>> ELSE <<a>>
            y == IF tab[t].joining = 0 THEN <<>> ELSE <<b>>
<1>1. /\ tab' = [tab EXCEPT ![t] = c] /\ Send(t, x \o y)
      /\ UNCHANGED <<session, rooms, work, down, restarts>>
  BY TabScreen DEF WithdrawAttempt, ScreenOK, Screen
<1>2. ScreenOK(c) /\ c.token = tab[t].token /\ c.connected = tab[t].connected
  BY TabScreen DEF ScreenOK, Screen
<1>3. Sendable(t, a) /\ Sendable(t, b) BY DEF Sendable, Sound, Command, Attempts
<1>. HIDE DEF c, a, b
<1>4. IsSeq(x) /\ \A i \in DOMAIN x : Sendable(t, x[i])
  <2>1. IsSeq(<<a>>) /\ \A i \in DOMAIN <<a>> : Sendable(t, <<a>>[i]) BY <1>3, OneIsSeq, Zenon
  <2>. QED BY <2>1, NothingIsSeq
<1>5. IsSeq(y) /\ \A i \in DOMAIN y : Sendable(t, y[i])
  <2>1. IsSeq(<<b>>) /\ \A i \in DOMAIN <<b>> : Sendable(t, <<b>>[i]) BY <1>3, OneIsSeq, Zenon
  <2>. QED BY <2>1, NothingIsSeq
<1>. HIDE DEF x, y
<1>. DEFINE z == x \o y
<1>6. /\ IsSeq(z)
      /\ \A j \in DOMAIN z : \/ j \in DOMAIN x /\ z[j] = x[j]
                             \/ j \notin DOMAIN x /\ \E i \in DOMAIN y : z[j] = y[i]
  BY <1>4, <1>5, ConcatIsSeq
<1>7. Send(t, z) /\ Only(tab, tab', t, c) BY <1>1, TabScreen, OnlyThis
<1>. HIDE DEF z
<1>8. IsSeq(z) /\ \A i \in DOMAIN z : Sendable(t, z[i]) BY <1>4, <1>5, <1>6
<1>. QED BY <1>1, <1>2, <1>7, <1>8, TabSends

\* A tab that shows a failure keeps its credentials.
LEMMA FailScreen ==
  ASSUME NEW c, ScreenOK(c), NEW w
  PROVE  /\ ScreenOK(Fail(c, w)) /\ Fail(c, w).token = c.token
         /\ Fail(c, w).connected = c.connected
BY DEF ScreenOK, Screen, Fail

\* A request that times out preserves the invariant.
LEMMA TimeoutOK ==
  ASSUME Inv, NEW t \in Tab, Timeout(t)
  PROVE  Inv'
<1>1. PICK w \in tab[t].waiting : tab' = [tab EXCEPT ![t] = GivenUp(tab[t], w)] BY DEF Timeout
<1>2. UNCHANGED <<session, rooms, work, up, down, restarts>> BY DEF Timeout
<1>. DEFINE f == Fail(tab[t], w)
            c == GivenUp(tab[t], w)
<1>3. ScreenOK(f) /\ f.token = tab[t].token /\ f.connected = tab[t].connected
  BY TabScreen, FailScreen
<1>4. c = [f EXCEPT !.waiting = f.waiting \ {w},
             !.lost = IF w.type \in Entering THEN f.lost \cup {w} ELSE f.lost]
  BY DEF GivenUp
<1>. HIDE DEF f
<1>5. ScreenOK(c) /\ c.token = tab[t].token /\ c.connected = tab[t].connected
  BY <1>3, <1>4 DEF ScreenOK, Screen
<1>6. Only(tab, tab', t, c) BY <1>1, TabScreen, OnlyThis
<1>. HIDE DEF c
<1>. QED BY <1>2, <1>5, <1>6, TabSends

\* A tab that shows another room keeps its credentials.
LEMMA SetRoomScreen ==
  ASSUME NEW c, ScreenOK(c), NEW shown
  PROVE  /\ ScreenOK(SetRoom(c, shown)) /\ SetRoom(c, shown).token = c.token
         /\ SetRoom(c, shown).connected = c.connected
BY DEF ScreenOK, Screen, SetRoom

\* A tab that is told an event keeps its credentials.
LEMMA ToldScreen ==
  ASSUME NEW c, ScreenOK(c), NEW event
  PROVE  ScreenOK(Told(c, event)) /\ Told(c, event).token = c.token
         /\ Told(c, event).connected = c.connected
<1>. DEFINE s == SetRoom(c, Nowhere)
<1>1. ScreenOK(s) /\ s.token = c.token /\ s.connected = c.connected BY SetRoomScreen
<1>2. Told(c, event) \in {c, [c EXCEPT !.blind = c.blind \/ c.room.id # 0],
                          [s EXCEPT !.busy = FALSE]}
  BY DEF Told
<1>. HIDE DEF s
<1>. QED BY <1>1, <1>2 DEF ScreenOK, Screen

\* The head of what a tab receives.
LEMMA Received ==
  ASSUME Inv, NEW t \in Tab, down[t] # <<>>, down' = [down EXCEPT ![t] = Tail(down[t])]
  PROVE  /\ Only(down, down', t, Tail(down[t])) /\ Loses(down[t], Tail(down[t]))
         /\ 1 \in DOMAIN down[t] /\ Head(down[t]) = down[t][1]
         /\ \A i \in DOMAIN Tail(down[t]) :
              i + 1 \in DOMAIN down[t] /\ i + 1 # 1 /\ Tail(down[t])[i] = down[t][i + 1]
<1>. DEFINE s == down[t]
            v == Tail(s)
<1>1. IsSeq(s) BY DEF Inv, Sides
<1>2. /\ IsSeq(v) /\ DOMAIN s = 1..Len(s) /\ Len(s) \in Nat \ {0}
      /\ DOMAIN v = 1..(Len(s) - 1)
      /\ \A i \in 1..(Len(s) - 1) : v[i] = s[i + 1]
      /\ \A i \in 1..(Len(s) - 1) : i + 1 \in 1..Len(s)
      /\ Head(s) = s[1] /\ 1 \in DOMAIN s
  BY <1>1, TailIsSeq
<1>3. Only(down, down', t, v) BY TabScreen, OnlyThis
<1>4. Loses(s, v) BY <1>1, LosesFirst
<1>. HIDE DEF v
<1>5. \A i \in 1..(Len(s) - 1) : i + 1 # 1 BY <1>2
<1>. QED BY <1>2, <1>3, <1>4, <1>5 DEF v

\* The tab reads something that is not the reply to its hello.
LEMMA ReadsOK ==
  ASSUME Inv, NEW t \in Tab, NEW c, UNCHANGED <<session, rooms, work, restarts>>,
         down[t] # <<>>, down' = [down EXCEPT ![t] = Tail(down[t])],
         tab' = [tab EXCEPT ![t] = c] \/ (tab' = tab /\ c = tab[t]),
         ScreenOK(c), c.token = tab[t].token, c.connected => tab[t].connected,
         up' = up \/ \E m : Sendable(t, m) /\ Send(t, <<m>>)
  PROVE  Inv'
<1>1. PICK u : Only(up, up', t, u) /\ Adds(t, u)
  <2>1. CASE up' = up
    <3>. DEFINE n == up[t]
    <3>1. Only(up, up', t, n) /\ Adds(t, n) BY <2>1, TabScreen, OnlyThis, AddsNothing
    <3>. QED BY <3>1
  <2>2. CASE \E m : Sendable(t, m) /\ Send(t, <<m>>)
    <3>1. PICK m : Sendable(t, m) /\ Send(t, <<m>>) BY <2>2
    <3>2. IsSeq(<<m>>) /\ \A i \in DOMAIN <<m>> : Sendable(t, <<m>>[i]) BY <3>1, OneIsSeq, Zenon
    <3>. QED BY <3>1, <3>2, SendOK
  <2>. QED BY <2>1, <2>2
<1>. DEFINE d == Tail(down[t])
<1>2. Only(down, down', t, d) /\ Loses(down[t], d) BY Received
<1>3. Only(tab, tab', t, c) BY TabScreen, OnlyThis
<1>. HIDE DEF d
<1>. QED BY <1>1, <1>2, <1>3, TabActs

\* An event a tab receives preserves the invariant.
LEMMA NotifiedOK ==
  ASSUME Inv, NEW t \in Tab, NEW m, UNCHANGED <<session, rooms, work, restarts>>,
         down[t] # <<>>, down' = [down EXCEPT ![t] = Tail(down[t])], Notified(t, m)
  PROVE  Inv'
<1>. DEFINE c == Told(tab[t], m)
<1>1. tab' = [tab EXCEPT ![t] = c] /\ up' = up BY DEF Notified
<1>2. ScreenOK(c) /\ c.token = tab[t].token /\ c.connected = tab[t].connected
  BY TabScreen, ToldScreen
<1>. HIDE DEF c
<1>. QED BY <1>1, <1>2, ReadsOK

\* A reply a tab receives preserves the invariant.
LEMMA RepliedOK ==
  ASSUME Inv, NEW t \in Tab, NEW m, UNCHANGED <<session, rooms, work, restarts>>,
         down[t] # <<>>, down' = [down EXCEPT ![t] = Tail(down[t])], Replied(t, m)
  PROVE  Inv'
<1>. DEFINE b(w) == [tab[t] EXCEPT !.waiting = tab[t].waiting \ {w}]
            f(w) == Fail(b(w), w)
            won(w) == w.type \in Entering /\ m.code = "ok"
            undo(w) == IF w.type = "join" THEN "leave" ELSE "cancelCreate"
            s(w) == SetRoom(f(w), Shown(m.room, m.intent, m.host))
            e(w) == [s(w) EXCEPT !.lobby = IF w.type = "create" THEN 0 ELSE s(w).lobby,
                        !.lost = IF w.type = "create" THEN {v \in s(w).lost : Outlives(v, w)}
                                 ELSE s(w).lost]
<1>1. PICK w \in tab[t].waiting :
        IF won(w) /\ w.stale
        THEN /\ tab' = [tab EXCEPT ![t] = f(w)]
             /\ Send(t, <<Command(undo(w), 0, w.intent, 0, 0)>>)
        ELSE /\ UNCHANGED up
             /\ tab' = [tab EXCEPT ![t] = IF won(w) THEN e(w)
                                          ELSE IF m.code = "ok" THEN SetRoom(b(w), Nowhere)
                                          ELSE f(w)]
  BY DEF Replied
<1>. DEFINE x == b(w)
            y == f(w)
            z == s(w)
            v == e(w)
            n == SetRoom(x, Nowhere)
            a == Command(undo(w), 0, w.intent, 0, 0)
<1>2. \/ tab' = [tab EXCEPT ![t] = y] /\ Send(t, <<a>>)
      \/ tab' = [tab EXCEPT ![t] = y] /\ UNCHANGED up
      \/ tab' = [tab EXCEPT ![t] = v] /\ UNCHANGED up
      \/ tab' = [tab EXCEPT ![t] = n] /\ UNCHANGED up
  BY <1>1
<1>3. Sendable(t, a) BY DEF Sendable, Sound, Command, Attempts
<1>4. ScreenOK(x) /\ x.token = tab[t].token /\ x.connected = tab[t].connected
  BY TabScreen DEF ScreenOK, Screen
<1>. HIDE DEF b, x, a
<1>5. ScreenOK(y) /\ y.token = tab[t].token /\ y.connected = tab[t].connected
  BY <1>4, FailScreen DEF x
<1>6. ScreenOK(n) /\ n.token = tab[t].token /\ n.connected = tab[t].connected BY <1>4, SetRoomScreen
<1>. HIDE DEF f, y, n
<1>7. ScreenOK(z) /\ z.token = tab[t].token /\ z.connected = tab[t].connected
  BY <1>5, SetRoomScreen DEF y
<1>. HIDE DEF s
<1>8. ScreenOK(v) /\ v.token = tab[t].token /\ v.connected = tab[t].connected
  BY <1>7 DEF ScreenOK, Screen
<1>. HIDE DEF e, v
<1>9. CASE tab' = [tab EXCEPT ![t] = y] /\ Send(t, <<a>>) BY <1>3, <1>5, <1>9, ReadsOK
<1>10. CASE tab' = [tab EXCEPT ![t] = y] /\ UNCHANGED up BY <1>5, <1>10, ReadsOK
<1>11. CASE tab' = [tab EXCEPT ![t] = v] /\ UNCHANGED up BY <1>8, <1>11, ReadsOK
<1>12. CASE tab' = [tab EXCEPT ![t] = n] /\ UNCHANGED up BY <1>6, <1>12, ReadsOK
<1>. QED BY <1>2, <1>9, <1>10, <1>11, <1>12

\* A greeting a tab receives preserves the invariant.
LEMMA GreetedOK ==
  ASSUME Inv, NEW t \in Tab, UNCHANGED <<session, rooms, work, restarts>>,
         down[t] # <<>>, down' = [down EXCEPT ![t] = Tail(down[t])],
         Greets(Head(down[t])), Greeted(t, Head(down[t]))
  PROVE  Inv'
<1>. DEFINE m == Head(down[t])
            s == SetRoom(tab[t], Shown(m.room, m.intent, m.host))
            x == [s EXCEPT !.connected = TRUE, !.token = session[t].token, !.lost = {}]
            n == SetRoom(Dropped(tab[t]), Nowhere)
            y == [n EXCEPT !.token = 0]
            c == IF m.code = "ok" THEN x ELSE y
            d == Tail(down[t])
            u == IF m.code = "ok" THEN up[t] ELSE <<>>
<1>1. /\ tab' = [tab EXCEPT ![t] = c]
      /\ (u = up[t] /\ up' = up) \/ (u = <<>> /\ up' = [up EXCEPT ![t] = <<>>])
  BY DEF Greeted, Forgotten
<1>2. Only(tab, tab', t, c) /\ Only(up, up', t, u)
  <2>. HIDE DEF u, c
  <2>. QED BY <1>1, TabScreen, OnlyThis
<1>3. /\ Only(down, down', t, d) /\ Loses(down[t], d)
      /\ 1 \in DOMAIN down[t] /\ m = down[t][1]
      /\ \A i \in DOMAIN d : i + 1 \in DOMAIN down[t] /\ i + 1 # 1 /\ d[i] = down[t][i + 1]
  BY Received
<1>4. ScreenOK(x) /\ x.token = session[t].token
  <2>1. ScreenOK(s) BY TabScreen, SetRoomScreen
  <2>. HIDE DEF s
  <2>. QED BY <2>1 DEF ScreenOK, Screen
<1>5. ScreenOK(y) /\ y.token = 0 /\ ~y.connected
  <2>. DEFINE g == Dropped(tab[t])
              e == SetRoom(g, Nowhere)
  <2>1. ScreenOK(g) /\ g.connected = FALSE BY TabScreen, DroppedScreen
  <2>. HIDE DEF g
  <2>2. ScreenOK(e) /\ e.connected = g.connected BY <2>1, SetRoomScreen
  <2>. HIDE DEF e
  <2>3. y = [e EXCEPT !.token = 0] BY DEF e, g
  <2>. QED BY <2>1, <2>2, <2>3 DEF ScreenOK, Screen
<1>. HIDE DEF x, y, d
<1>6. /\ \A i \in DOMAIN u : u[i].type # "hello" /\ Sound(u[i])
      /\ \A i \in DOMAIN d : ~Greets(d[i])
      /\ IF m.code = "ok" THEN session[t].token # 0 ELSE ~Known(t)
      /\ IsSeq(u) /\ IsSeq(d)
  BY <1>3, NothingIsSeq DEF Inv, Greetings, Sides, Loses
<1>. HIDE DEF m
<1>7. tab'[t] = c /\ up'[t] = u /\ down'[t] = d BY <1>2, <1>3 DEF Only
<1>8. Bound(t)' BY <1>4, <1>6, <1>7, <1>5, NothingIsSeq DEF Known, Bound, Inv
<1>9. Greetings(t)' BY <1>6, <1>7 DEF Greetings, Greets
<1>10. ScreenOK(c) BY <1>4, <1>5
<1>11. \A i \in DOMAIN u : Sound(u[i]) BY <1>6
<1>. HIDE DEF c, u
<1>. QED BY <1>2, <1>3, <1>6, <1>8, <1>9, <1>10, <1>11, TabStep

\* Every message a tab receives preserves the invariant.
LEMMA ReceiveOK ==
  ASSUME Inv, NEW t \in Tab, Receive(t)
  PROVE  Inv'
<1>. DEFINE m == Head(down[t])
<1>1. /\ UNCHANGED <<session, rooms, work, restarts>>
      /\ down[t] # <<>> /\ down' = [down EXCEPT ![t] = Tail(down[t])]
  BY DEF Receive
<1>2. CASE m.type = "ended" /\ Notified(t, m) BY <1>1, <1>2, NotifiedOK
<1>3. CASE m.type = "result" /\ m.n = 1 /\ Greeted(t, m) BY <1>1, <1>3, GreetedOK DEF Greets
<1>4. CASE m.type = "result" /\ Replied(t, m) BY <1>1, <1>4, RepliedOK
<1>5. CASE UNCHANGED <<tab, up>>
  <2>. DEFINE c == tab[t]
  <2>. HIDE DEF c
  <2>. QED BY <1>1, <1>5, TabScreen, ReadsOK
<1>. QED BY <1>2, <1>3, <1>4, <1>5 DEF Receive

-----------------------------------------------------------------------------
(* The invariant, and what follows from it.                                *)

\* A stuttering step preserves the invariant.
LEMMA StutterOK ==
  ASSUME Inv, UNCHANGED vars
  PROVE  Inv'
BY DEF vars, Now, Inv, Sides, Agrees, Shape, Member, Bound, Greetings, Known, Greets

\* Every step preserves the invariant.
LEMMA NextInv == Inv /\ [Next]_vars => Inv'
<1>. SUFFICES ASSUME Inv, [Next]_vars PROVE Inv' OBVIOUS
<1>1. CASE \E t \in Tab :
       \/ Connect(t) \/ Break(t) \/ Create(t) \/ Join(t) \/ Quit(t) \/ Manage(t)
       \/ WithdrawAttempt(t) \/ Timeout(t) \/ Receive(t)
       \/ Attach(t) \/ Detach(t) \/ Handle(t) \/ Defer(t)
       \/ Lapse(t) \/ Heartbeat(t) \/ Miss(t) \/ Expire(t)
  <2>1. PICK t \in Tab :
       \/ Connect(t) \/ Break(t) \/ Create(t) \/ Join(t) \/ Quit(t) \/ Manage(t)
       \/ WithdrawAttempt(t) \/ Timeout(t) \/ Receive(t)
       \/ Attach(t) \/ Detach(t) \/ Handle(t) \/ Defer(t)
       \/ Lapse(t) \/ Heartbeat(t) \/ Miss(t) \/ Expire(t)
    BY <1>1
  <2>. QED BY <2>1, ConnectOK, BreakOK, CreateOK, JoinOK, QuitOK, ManageOK, WithdrawAttemptOK,
              TimeoutOK, ReceiveOK, AttachOK, DetachOK, HandleOK, DeferOK, LapseOK, HeartbeatOK,
              MissOK, ExpireOK
<1>2. CASE \E i \in 1..Active : Derived(i) BY <1>2, DerivedOK
<1>3. CASE Operator BY <1>3, OperatorOK
<1>4. CASE Restart BY <1>4, RestartOK
<1>5. CASE UNCHANGED vars BY <1>5, StutterOK
<1>. QED BY <1>1, <1>2, <1>3, <1>4, <1>5 DEF Next

\* The invariant holds in every reachable state.
LEMMA Invariant == Spec => []Inv
<1>. QED BY InitInv, NextInv, PTL DEF Spec

\* However rooms are entered, left, closed and lost, a session points to a room
\* exactly when the room has a seat for it, and a room has its host.
THEOREM RoomsAndSessionsAgree == Spec => []MembershipAgrees
<1>1. Inv => MembershipAgrees BY NowFields DEF Inv, Agrees, Member, MembershipAgrees
<1>. QED BY <1>1, Invariant, PTL

\* A derivation lets in only who knew the password the room has when it ends,
\* and nobody who was removed while it ran.
Admission ==
  \A i \in DOMAIN work :
       LET w == work[i] r == w.command.room IN
       (Derived(i) /\ w.command.type = "join" /\ session'[w.tab].room = r
          /\ session[w.tab].room = 0)
       => w.command.password = rooms[r].lock /\ w.tab \notin rooms[r].kicked

\* In a state of the invariant every step admits only those who know the password.
LEMMA AdmissionOK == Inv => Admission
<1>. SUFFICES ASSUME Inv, NEW i \in DOMAIN work, Derived(i), work[i].command.type = "join",
                     session'[work[i].tab].room = work[i].command.room,
                     session[work[i].tab].room = 0
              PROVE  /\ work[i].command.password = rooms[work[i].command.room].lock
                     /\ work[i].tab \notin rooms[work[i].command.room].kicked
  BY DEF Admission
<1>. DEFINE w == work[i]
            o == Outcome(w)
            k == Answer(w.tab, w.socket, w.command, o)
<1>1. /\ Install(k) /\ Derivable(w) /\ k.session = o.st.session
      /\ o = Apply(Now, w.tab, w.command) \/ o.st = Now
  BY DerivedOutcome
<1>. HIDE DEF k, o
<1>2. session' = o.st.session BY <1>1 DEF Install
<1>3. w.tab \in Tab /\ Sound(w.command) /\ w.command.room # 0 BY <1>1 DEF Derivable, Sound
<1>4. o.st # Now BY <1>2, <1>3, NowFields
<1>5. o = Reserve(Now, w.tab, w.command) BY <1>1, <1>4 DEF Apply
<1>. QED BY <1>3, <1>4, <1>5, NowFields, ReserveOK DEF Inv

\* A password that was derived while the room changed admits its sender only when
\* it still is the room's password and the sender was not removed meanwhile.
THEOREM PasswordStillKnown == Spec => AdmittedByPassword
<1>1. Inv /\ [Next]_vars => [Admission]_vars BY AdmissionOK
<1>. QED BY <1>1, Invariant, PTL DEF Spec, AdmittedByPassword, Admission

-----------------------------------------------------------------------------
(* Where a tab is, and what the handlers change of it.                     *)

\* The room the coordinator has a tab in, as the tab would show it.
Where(st, t) ==
  LET r == st.session[t].room
  IN  IF r = 0 THEN Nowhere ELSE Shown(r, st.rooms[r].seat[t], st.rooms[r].host = t)

Stays(st, k, t) == Where(k, t) = Where(st, t) /\ k.down[t] = st.down[t]
Goes(st, k, t) ==
  /\ Where(k, t) = Nowhere
  /\ \E reason : k.down[t] = IF Hears(st, t) THEN Append(st.down[t], Ended(reason)) ELSE st.down[t]
Comes(st, k, t, c) ==
  /\ k.down[t] = st.down[t]
  /\ Where(st, t).id = 0 /\ Where(k, t).id # 0 /\ ~Cancelled(st, t, c.intent)
  /\ Where(k, t).intent = c.intent /\ (Where(k, t).host <=> c.type = "create")

\* The tabs keep their sockets; those in "here" are where they were or out.
Calm(st, k, here) ==
  /\ \A t \in Tab : k.session[t].socket = st.session[t].socket
  /\ \A t \in here : Stays(st, k, t) \/ Goes(st, k, t)
Recalls(st, k, here) == \A t \in here : k.session[t].cancelled = st.session[t].cancelled

\* A tab is nowhere exactly when its session points to no room.
LEMMA WhereIs ==
  ASSUME NEW st, Agrees(st), NEW t \in Tab
  PROVE  /\ Where(st, t).id = st.session[t].room
         /\ st.session[t].room # 0 =>
              /\ Where(st, t).intent = st.rooms[st.session[t].room].seat[t]
              /\ Where(st, t).intent # 0
              /\ Where(st, t).host <=> st.rooms[st.session[t].room].host = t
         /\ Where(st, t) = Shown(Where(st, t).id, Where(st, t).intent, Where(st, t).host)
         /\ st.session[t].room = 0 => Where(st, t) = Nowhere
<1>. DEFINE r == st.session[t].room
            h == st.rooms[r].host = t
            w == Shown(r, st.rooms[r].seat[t], h)
<1>1. Where(st, t) = IF r = 0 THEN Nowhere ELSE w BY DEF Where
<1>3. r # 0 => st.rooms[r].seat[t] # 0 BY Seating
<1>4. w.id = r /\ w.intent = st.rooms[r].seat[t] /\ w.host = h BY DEF Shown
<1>5. w = Shown(w.id, w.intent, w.host) BY DEF Shown
<1>. HIDE DEF w
<1>6. CASE r = 0 BY <1>1, <1>6 DEF Nowhere, Shown
<1>7. CASE r # 0
  <2>. HIDE DEF h, r
  <2>1. Where(st, t) = w BY <1>1, <1>7
  <2>2. Where(st, t).host <=> h BY <1>4, <2>1, Zenon
  <2>. QED BY <1>3, <1>4, <1>5, <1>7, <2>1, <2>2, Zenon DEF h, r
<1>. QED BY <1>6, <1>7

\* A handler that changes nothing.
LEMMA CalmAgain == \A st, here : here \subseteq Tab => Calm(st, st, here) /\ Recalls(st, st, here)
BY DEF Calm, Stays, Recalls

\* What touches neither the sockets nor the rooms of the sessions, nor seats or hosts.
LEMMA CalmStill ==
  ASSUME NEW st, NEW k, k.down = st.down,
         \A t \in Tab : k.session[t].socket = st.session[t].socket
                        /\ k.session[t].room = st.session[t].room,
         \A t \in Tab : st.session[t].room # 0 =>
            LET r == st.session[t].room
            IN  k.rooms[r].seat[t] = st.rooms[r].seat[t] /\ k.rooms[r].host = st.rooms[r].host
  PROVE  Calm(st, k, Tab) /\ \A t \in Tab : Stays(st, k, t)
BY DEF Where, Shown, Calm, Stays

\* A handler after one that moves nobody.
LEMMA CalmTwice ==
  ASSUME NEW st, NEW k, NEW n, NEW here \in SUBSET Tab, Calm(st, k, Tab),
         \A t \in Tab : Stays(st, k, t), Calm(k, n, here)
  PROVE  Calm(st, n, here)
<1>1. \A t \in Tab : Hears(k, t) <=> Hears(st, t) BY DEF Calm, Hears
<1>2. ASSUME NEW t \in here PROVE Stays(st, n, t) \/ Goes(st, n, t) BY <1>1 DEF Stays, Goes, Calm
<1>. QED BY <1>2 DEF Calm

\* Close puts everybody in the room out of it, and nobody else.
LEMMA CloseMoves ==
  ASSUME NEW st, Agrees(st), NEW r \in DOMAIN st.rooms, st.rooms[r] # None, NEW reason
  PROVE  LET k == Close(st, r, reason)
         IN  /\ Calm(st, k, Tab) /\ Recalls(st, k, Tab)
             /\ \A t \in Tab : st.session[t].room = r => Where(k, t) = Nowhere
<1>. DEFINE k == Close(st, r, reason)
            gone == Seated(st.rooms[r])
<1>1. /\ k.session = [t \in Tab |-> IF t \in gone THEN [st.session[t] EXCEPT !.room = 0]
                                    ELSE st.session[t]]
      /\ k.rooms = [st.rooms EXCEPT ![r] = None]
      /\ k.down = [t \in Tab |-> IF t \in gone /\ Hears(st, t)
                                 THEN Append(st.down[t], Ended(reason)) ELSE st.down[t]]
  BY DEF Close
<1>. HIDE DEF k
<1>2. \A t \in Tab : t \in gone <=> st.session[t].room = r BY Seating DEF Seated
<1>. HIDE DEF gone
<1>3. \A t \in Tab : /\ k.session[t].socket = st.session[t].socket
                     /\ k.session[t].cancelled = st.session[t].cancelled
                     /\ k.session[t].room = IF t \in gone THEN 0 ELSE st.session[t].room
  BY <1>1 DEF Agrees, Shape, Fields
<1>4. ASSUME NEW t \in Tab, t \in gone PROVE Goes(st, k, t) /\ Where(k, t) = Nowhere
  BY <1>3, <1>4, <1>1 DEF Where, Goes
<1>5. ASSUME NEW t \in Tab, t \notin gone PROVE Stays(st, k, t)
  BY <1>1, <1>3, <1>5, <1>2, Seating DEF Agrees, Shape, Where, Stays
<1>6. Calm(st, k, Tab) /\ Recalls(st, k, Tab) BY <1>3, <1>4, <1>5 DEF Calm, Recalls
<1>. QED BY <1>2, <1>4, <1>6 DEF k

\* Release puts the guest out of its room, and nobody else.
LEMMA ReleaseMoves ==
  ASSUME NEW st, Agrees(st), NEW t \in Tab, NEW reason, st.session[t].room # 0
  PROVE  LET k == Release(st, t, reason)
         IN  Calm(st, k, Tab) /\ Recalls(st, k, Tab) /\ Where(k, t) = Nowhere
             /\ \A v \in Tab \ {t} : Stays(st, k, v)
<1>. DEFINE r == st.session[t].room
            room == st.rooms[r]
            k == Release(st, t, reason)
            left == [room EXCEPT !.seat = [room.seat EXCEPT ![t] = 0],
                                 !.away = [room.away EXCEPT ![t] = FALSE]]
            mail == IF Hears(st, t) THEN Append(st.down[t], Ended(reason)) ELSE st.down[t]
<1>1. r \in DOMAIN st.rooms /\ room \in Room BY Seating
<1>2. k.session = [st.session EXCEPT ![t] = [st.session[t] EXCEPT !.room = 0]]
  BY DEF Release, Agrees, Shape
<1>3. k.down = [st.down EXCEPT ![t] = mail] BY DEF Release, Agrees, Shape
<1>4. k.rooms = [st.rooms EXCEPT ![r] = left] BY <1>1 DEF Release, Agrees, Shape, Room
<1>. HIDE DEF k, mail
<1>5. left.host = room.host /\ \A v \in Tab \ {t} : left.seat[v] = room.seat[v] BY <1>1 DEF Room
<1>. HIDE DEF left
<1>6. /\ k.session[t].room = 0 /\ k.session[t].socket = st.session[t].socket
      /\ k.session[t].cancelled = st.session[t].cancelled /\ k.down[t] = mail
      /\ \A v \in Tab \ {t} : k.session[v] = st.session[v] /\ k.down[v] = st.down[v]
  BY <1>2, <1>3 DEF Agrees, Shape, Fields
<1>7. Where(k, t) = Nowhere BY <1>6 DEF Where
<1>8. Goes(st, k, t) BY <1>6, <1>7 DEF Goes, mail
<1>9. ASSUME NEW v \in Tab \ {t} PROVE Stays(st, k, v) BY <1>1, <1>4, <1>5, <1>6 DEF Where, Stays
<1>. QED BY <1>6, <1>7, <1>8, <1>9 DEF Calm, Recalls, k

\* A departure puts the tab out of its room.
LEMMA DepartMoves ==
  ASSUME NEW st, Agrees(st), NEW t \in Tab, NEW reason, st.session[t].room # 0
  PROVE  LET k == Depart(st, t, reason)
         IN  Calm(st, k, Tab) /\ Recalls(st, k, Tab) /\ Where(k, t) = Nowhere
<1>. DEFINE r == st.session[t].room
<1>1. r \in DOMAIN st.rooms /\ st.rooms[r] # None BY Seating, NoneIsNoRoom
<1>2. CASE st.rooms[r].host = t BY <1>1, <1>2, CloseMoves DEF Depart
<1>3. CASE st.rooms[r].host # t BY <1>3, ReleaseMoves DEF Depart
<1>. QED BY <1>2, <1>3

\* A cancelled attempt moves nobody.
LEMMA CancelMoves ==
  ASSUME NEW st, Agrees(st), NEW t \in Tab, NEW intent
  PROVE  LET k == Cancel(st, t, intent)
         IN  /\ Calm(st, k, Tab) /\ Recalls(st, k, Tab \ {t})
             /\ \A v \in Tab : Stays(st, k, v)
<1>. DEFINE k == Cancel(st, t, intent)
<1>1. PICK c : k = [st EXCEPT !.session[t].cancelled = c] BY DEF Cancel
<1>. HIDE DEF k
<1>2. k.rooms = st.rooms /\ k.down = st.down
      /\ k.session = [st.session EXCEPT ![t] = [st.session[t] EXCEPT !.cancelled = c]]
  BY <1>1 DEF Agrees, Shape
<1>3. \A v \in Tab : /\ k.session[v].room = st.session[v].room
                     /\ k.session[v].socket = st.session[v].socket
                     /\ v # t => k.session[v] = st.session[v]
  BY <1>2 DEF Agrees, Shape, Fields
<1>4. Calm(st, k, Tab) /\ \A v \in Tab : Stays(st, k, v) BY <1>2, <1>3, CalmStill
<1>. QED BY <1>3, <1>4 DEF Recalls, k

\* What the handling of a command makes of where the sender is.
Settles(st, k, t, c, code) ==
  /\ c.type \in Entering /\ code = "ok" =>
       Where(k, t).id # 0 /\ Where(k, t).intent = c.intent /\ (c.type = "create" => Where(k, t).host)
  /\ c.type \in Entering /\ code # "ok" => Where(k, t) = Where(st, t)
  /\ c.type = "leave" => Where(k, t).id = 0 \/ Where(k, t).intent # c.intent
  /\ c.type = "cancelCreate" => Where(k, t).id = 0 \/ ~Where(k, t).host \/ Where(k, t).intent # c.intent
  /\ c.type = "close" /\ code = "ok" => Where(k, t).id = 0
Moves(st, k, t, c) ==
  /\ Calm(st, k, Tab \ {t})
  /\ Recalls(st, k, IF c.type \in {"leave", "cancelCreate"} THEN Tab \ {t} ELSE Tab)
  /\ IF c.type \in Entering THEN Stays(st, k, t) \/ Comes(st, k, t, c)
     ELSE Stays(st, k, t) \/ Goes(st, k, t)

\* A handler that moves nobody in.
LEMMA CalmMoves ==
  ASSUME NEW st, NEW k, NEW t \in Tab, NEW c, c.type \notin Entering, Calm(st, k, Tab),
         Recalls(st, k, IF c.type \in {"leave", "cancelCreate"} THEN Tab \ {t} ELSE Tab)
  PROVE  Moves(st, k, t, c)
BY DEF Calm, Recalls, Moves

\* A reservation is refused, was made before, or lets the sender in.
LEMMA ReserveMoves ==
  ASSUME NEW st, Agrees(st), NEW t \in Tab, NEW c, Sound(c), c.type = "join"
  PROVE  LET o == Reserve(st, t, c)
         IN  Moves(st, o.st, t, c) /\ Settles(st, o.st, t, c, o.code)
<1>. DEFINE r == c.room
            room == st.rooms[r]
            o == Reserve(st, t, c)
            taken == [room EXCEPT !.seat = [room.seat EXCEPT ![t] = c.intent]]
            k == [st EXCEPT !.rooms[r].seat[t] = c.intent,
                            !.session[t].room = r, !.session[t].quiet = FALSE]
            enters == /\ Alive(st, r) /\ ~Cancelled(st, t, c.intent) /\ st.session[t].room = 0
<1>1. \/ o.st = st /\ o.code # "ok"
      \/ o.st = st /\ o.code = "ok" /\ st.session[t].room # 0 /\ Holds(st, t, r, c.intent)
      \/ enters /\ o.st = k /\ o.code = "ok"
  BY DEF Reserve, Refused, Done
<1>. HIDE DEF o
<1>2. c.type \in Entering /\ c.type # "create" /\ c.type # "leave" /\ c.type # "cancelCreate"
      /\ c.type # "close" /\ c.intent # 0
  BY DEF Entering, Sound, Attempts
<1>3. CASE o.st = st /\ o.code # "ok" BY <1>3, CalmAgain, <1>2 DEF Stays, Moves, Settles, o
<1>4. CASE o.st = st /\ o.code = "ok" /\ st.session[t].room # 0 /\ Holds(st, t, r, c.intent)
  BY <1>4, CalmAgain, WhereIs, <1>2 DEF Stays, Holds, Moves, Settles, o
<1>5. CASE enters /\ o.st = k /\ o.code = "ok"
  <2>1. /\ r \in DOMAIN st.rooms /\ room # None /\ room \in Room /\ r # 0
        /\ st.rooms \in Seq(Room \cup {None}) /\ st.session[t].room = 0
    BY <1>5, Seating DEF Alive, Agrees, Shape, Sound
  <2>2. k.down = st.down BY DEF Agrees, Shape
  <2>3. k.session = [st.session EXCEPT ![t] = [st.session[t] EXCEPT !.room = r, !.quiet = FALSE]]
    BY DEF Agrees, Shape, Fields
  <2>4. k.rooms = [st.rooms EXCEPT ![r] = taken] BY <2>1 DEF Agrees, Shape, Room
  <2>. HIDE DEF k
  <2>5. taken.host = room.host /\ taken.seat[t] = c.intent
        /\ \A v \in Tab \ {t} : taken.seat[v] = room.seat[v]
    BY <2>1 DEF Room
  <2>. HIDE DEF taken
  <2>6. /\ k.session[t].room = r /\ k.session[t].socket = st.session[t].socket
        /\ k.session[t].cancelled = st.session[t].cancelled
        /\ \A v \in Tab \ {t} : k.session[v] = st.session[v]
    BY <2>3 DEF Agrees, Shape, Fields
  <2>7. \A v \in Tab \ {t} : Stays(st, k, v)
    <3>. SUFFICES ASSUME NEW v \in Tab \ {t} PROVE Where(k, v) = Where(st, v) BY <2>2 DEF Stays
    <3>. QED BY <2>1, <2>4, <2>5, <2>6 DEF Where
  <2>8. room.host # t BY <2>1, Seating DEF Agrees, Member, Room
  <2>9. Where(k, t) = Shown(r, c.intent, FALSE)
    <3>2. Where(k, t) = Shown(r, c.intent, room.host = t) BY <2>1, <2>6, <2>4, <2>5 DEF Where
    <3>3. (room.host = t) = FALSE BY <2>8
    <3>. QED BY <3>2, <3>3, Zenon
  <2>10. Where(st, t).id = 0 BY <2>1, WhereIs
  <2>11. Where(k, t).id = r /\ Where(k, t).intent = c.intent /\ Where(k, t).host = FALSE
    BY <2>9 DEF Shown
  <2>12. Comes(st, k, t, c) BY <1>2, <1>5, <2>1, <2>2, <2>10, <2>11 DEF Comes
  <2>13. Calm(st, k, Tab \ {t}) /\ Recalls(st, k, Tab) BY <2>6, <2>7 DEF Calm, Recalls
  <2>. QED BY <1>2, <1>5, <2>1, <2>11, <2>12, <2>13 DEF Moves, Settles, o
<1>. QED BY <1>1, <1>3, <1>4, <1>5

\* A creation is refused, was made before, or makes the sender a host.
LEMMA CreateLobbyMoves ==
  ASSUME NEW st, Agrees(st), NEW t \in Tab, NEW c, Sound(c), c.type = "create"
  PROVE  LET o == CreateLobby(st, t, c)
         IN  Moves(st, o.st, t, c) /\ Settles(st, o.st, t, c, o.code)
<1>. DEFINE r == st.session[t].room
            o == CreateLobby(st, t, c)
            n == Len(st.rooms) + 1
            new == Opened(t, c)
            k == [st EXCEPT !.rooms = Append(st.rooms, new),
                            !.session[t].room = n, !.session[t].quiet = FALSE]
<1>1. \/ o.st = st /\ o.code # "ok"
      \/ /\ o.st = st /\ o.code = "ok" /\ r # 0
         /\ st.rooms[r].host = t /\ st.rooms[r].intent = c.intent
      \/ r = 0 /\ ~Cancelled(st, t, c.intent) /\ o.st = k /\ o.code = "ok"
  BY DEF CreateLobby, Refused, Done
<1>. HIDE DEF o
<1>2. c.type \in Entering /\ c.type # "leave" /\ c.type # "cancelCreate"
      /\ c.type # "close" /\ c.intent # 0
  BY DEF Entering, Sound, Attempts
<1>3. CASE o.st = st /\ o.code # "ok" BY <1>3, CalmAgain, <1>2 DEF Stays, Moves, Settles, o
<1>4. CASE /\ o.st = st /\ o.code = "ok" /\ r # 0
           /\ st.rooms[r].host = t /\ st.rooms[r].intent = c.intent
  <2>2. r \in DOMAIN st.rooms /\ st.rooms[r] # None BY <1>4, Seating, NoneIsNoRoom
  <2>3. st.rooms[r].seat[t] = c.intent BY <1>4, <2>2 DEF Agrees, Member
  <2>4. Where(st, t).id # 0 /\ Where(st, t).intent = c.intent /\ Where(st, t).host
    BY <1>4, <2>3, WhereIs
  <2>. QED BY <1>2, <1>4, CalmAgain, <2>4 DEF Moves, Settles, o, Stays
<1>5. CASE r = 0 /\ ~Cancelled(st, t, c.intent) /\ o.st = k /\ o.code = "ok"
  <2>1. /\ DOMAIN st.rooms = 1..Len(st.rooms) /\ Len(st.rooms) \in Nat /\ n # 0
        /\ st.rooms \in Seq(Room \cup {None})
    BY RoomsDomain DEF Agrees, Shape
  <2>2. k.down = st.down /\ k.rooms = Append(st.rooms, new) BY DEF Agrees, Shape
  <2>3. k.session = [st.session EXCEPT ![t] = [st.session[t] EXCEPT !.room = n, !.quiet = FALSE]]
    BY DEF Agrees, Shape, Fields
  <2>. HIDE DEF k
  <2>4. /\ new \in Room /\ new.host = t /\ new.seat[t] = c.intent
    BY <1>2 DEF Sound, Attempts, Entering, Opened, Room
  <2>. HIDE DEF new
  <2>5. /\ \A q \in 1..Len(st.rooms) : k.rooms[q] = st.rooms[q]
        /\ k.rooms[n] = new
    BY <2>1, <2>2, <2>4, AppendProperties
  <2>6. /\ k.session[t].room = n /\ k.session[t].socket = st.session[t].socket
        /\ k.session[t].cancelled = st.session[t].cancelled
        /\ \A v \in Tab \ {t} : k.session[v] = st.session[v]
    BY <2>3 DEF Agrees, Shape, Fields
  <2>. HIDE DEF n
  <2>7. \A v \in Tab \ {t} : Stays(st, k, v)
    <3>. SUFFICES ASSUME NEW v \in Tab \ {t} PROVE Where(k, v) = Where(st, v) BY <2>2 DEF Stays
    <3>1. st.session[v].room # 0 => k.rooms[st.session[v].room] = st.rooms[st.session[v].room]
      BY <2>1, <2>5, Seating
    <3>. QED BY <3>1, <2>6 DEF Where
  <2>8. Where(k, t) = Shown(n, c.intent, TRUE)
    <3>1. Where(k, t) = Shown(n, c.intent, t = t) BY <2>1, <2>4, <2>5, <2>6 DEF Where
    <3>. QED BY <3>1, Zenon
  <2>9. Where(st, t).id = 0 BY <1>5, WhereIs
  <2>10. Where(k, t).id = n /\ Where(k, t).intent = c.intent /\ Where(k, t).host = TRUE
    BY <2>8 DEF Shown
  <2>11. Comes(st, k, t, c) BY <1>2, <1>5, <2>1, <2>2, <2>9, <2>10 DEF Comes
  <2>12. Calm(st, k, Tab \ {t}) /\ Recalls(st, k, Tab) BY <2>6, <2>7 DEF Calm, Recalls
  <2>. QED BY <1>2, <1>5, <2>1, <2>10, <2>11, <2>12 DEF Moves, Settles, o
<1>. QED BY <1>1, <1>3, <1>4, <1>5

\* Leaving puts the sender out of the room it entered by that attempt.
LEMMA LeaveMoves ==
  ASSUME NEW st, Agrees(st), NEW t \in Tab, NEW c, c.type = "leave"
  PROVE  LET o == Leave(st, t, c)
         IN  Moves(st, o.st, t, c) /\ Settles(st, o.st, t, c, o.code)
<1>. DEFINE k == Cancel(st, t, c.intent)
            r == st.session[t].room
            o == Leave(st, t, c)
            n == IF r # 0 /\ Holds(st, t, r, c.intent) THEN Depart(k, t, "left") ELSE k
<1>1. /\ Agrees(k) /\ k.rooms = st.rooms /\ k.session[t].room = r
      /\ Calm(st, k, Tab) /\ Recalls(st, k, Tab \ {t}) /\ \A v \in Tab : Stays(st, k, v)
  BY CancelOK, CancelMoves
<1>2. o.st = n BY DEF Leave, Done
<1>. HIDE DEF k, o
<1>3. CASE r # 0 /\ Holds(st, t, r, c.intent)
  <2>1. n = Depart(k, t, "left") BY <1>3
  <2>. HIDE DEF n
  <2>2. Calm(k, n, Tab) /\ Recalls(k, n, Tab) /\ Where(n, t) = Nowhere
    BY <1>1, <1>3, <2>1, DepartMoves
  <2>3. Calm(st, n, Tab) /\ Recalls(st, n, Tab \ {t}) BY <1>1, <2>2, CalmTwice DEF Recalls
  <2>4. Nowhere.id = 0 BY DEF Nowhere, Shown
  <2>5. Moves(st, n, t, c) BY <2>3, CalmMoves DEF Entering
  <2>. QED BY <1>2, <2>2, <2>4, <2>5 DEF Settles, Entering, o
<1>4. CASE ~(r # 0 /\ Holds(st, t, r, c.intent))
  <2>1. n = k BY <1>4
  <2>3. Where(k, t).id = 0 \/ Where(k, t).intent # c.intent BY <1>4, <1>1, WhereIs DEF Holds
  <2>4. Moves(st, k, t, c) BY <1>1, CalmMoves DEF Entering
  <2>. QED BY <1>2, <2>1, <2>3, <2>4 DEF Settles, Entering, o
<1>. QED BY <1>3, <1>4

\* Withdrawing a creation closes the room it made.
LEMMA CancelCreateMoves ==
  ASSUME NEW st, Agrees(st), NEW t \in Tab, NEW c, c.type = "cancelCreate"
  PROVE  LET o == CancelCreate(st, t, c)
         IN  Moves(st, o.st, t, c) /\ Settles(st, o.st, t, c, o.code)
<1>. DEFINE k == Cancel(st, t, c.intent)
            r == st.session[t].room
            o == CancelCreate(st, t, c)
            made == r # 0 /\ st.rooms[r].host = t /\ st.rooms[r].intent = c.intent
            n == IF made THEN Close(k, r, "creation_cancelled") ELSE k
<1>1. /\ Agrees(k) /\ k.rooms = st.rooms /\ k.session[t].room = r
      /\ Calm(st, k, Tab) /\ Recalls(st, k, Tab \ {t}) /\ \A v \in Tab : Stays(st, k, v)
  BY CancelOK, CancelMoves
<1>2. o.st = n BY DEF CancelCreate, Done
<1>. HIDE DEF k, o
<1>3. CASE made
  <2>1. n = Close(k, r, "creation_cancelled") BY <1>3
  <2>2. r \in DOMAIN k.rooms /\ k.rooms[r] # None BY <1>1, <1>3, Seating, NoneIsNoRoom
  <2>. HIDE DEF n
  <2>3. Calm(k, n, Tab) /\ Recalls(k, n, Tab) /\ Where(n, t) = Nowhere
    BY <1>1, <2>1, <2>2, CloseMoves
  <2>4. Calm(st, n, Tab) /\ Recalls(st, n, Tab \ {t}) BY <1>1, <2>3, CalmTwice DEF Recalls
  <2>5. Nowhere.id = 0 BY DEF Nowhere, Shown
  <2>6. Moves(st, n, t, c) BY <2>4, CalmMoves DEF Entering
  <2>. QED BY <1>2, <2>3, <2>5, <2>6 DEF Settles, Entering, o
<1>4. CASE ~made
  <2>1. n = k BY <1>4
  <2>2. /\ Where(k, t).id = r
        /\ r # 0 => /\ Where(k, t).intent = st.rooms[r].seat[t]
                    /\ Where(k, t).host <=> st.rooms[r].host = t
    BY <1>1, WhereIs
  <2>3. Where(k, t).id = 0 \/ ~Where(k, t).host \/ Where(k, t).intent # c.intent
    <3>. SUFFICES ASSUME r # 0, st.rooms[r].host = t PROVE Where(k, t).intent # c.intent BY <2>2
    <3>1. r \in DOMAIN st.rooms /\ st.rooms[r] # None BY Seating, NoneIsNoRoom
    <3>2. st.rooms[r].seat[t] = st.rooms[r].intent BY <3>1 DEF Agrees, Member
    <3>. QED BY <1>4, <2>2, <3>2
  <2>4. Moves(st, k, t, c) BY <1>1, CalmMoves DEF Entering
  <2>. QED BY <1>2, <2>1, <2>3, <2>4 DEF Settles, Entering, o
<1>. QED BY <1>3, <1>4

\* A room that is closed has nobody left, the sender included.
LEMMA CloseRoomMoves ==
  ASSUME NEW st, Agrees(st), NEW t \in Tab, NEW c, c.type = "close"
  PROVE  LET o == CloseRoom(st, t, c)
         IN  Moves(st, o.st, t, c) /\ Settles(st, o.st, t, c, o.code)
<1>. DEFINE o == CloseRoom(st, t, c)
            n == Close(st, c.room, "host_closed")
<1>1. CASE Hosted(st, t, c.room)
  <2>1. c.room \in DOMAIN st.rooms /\ st.rooms[c.room] # None
    BY <1>1, Seating, NoneIsNoRoom DEF Hosted
  <2>2. o.st = n /\ st.session[t].room = c.room BY <1>1 DEF CloseRoom, Done, Hosted
  <2>3. Calm(st, n, Tab) /\ Recalls(st, n, Tab) /\ Where(n, t) = Nowhere BY <2>1, <2>2, CloseMoves
  <2>. HIDE DEF n, o
  <2>4. Nowhere.id = 0 BY DEF Nowhere, Shown
  <2>5. Moves(st, n, t, c) BY <2>3, CalmMoves DEF Entering
  <2>. QED BY <2>2, <2>3, <2>4, <2>5 DEF Settles, Entering, o
<1>2. CASE ~Hosted(st, t, c.room)
  BY <1>2, CalmAgain, CalmMoves DEF CloseRoom, Refused, Entering, Settles
<1>. QED BY <1>1, <1>2

\* A removal moves nobody but the guest.
LEMMA RemoveMoves ==
  ASSUME NEW st, Agrees(st), NEW t \in Tab, NEW c, c.type = "remove"
  PROVE  LET o == Remove(st, t, c)
         IN  Moves(st, o.st, t, c) /\ Settles(st, o.st, t, c, o.code)
<1>. DEFINE r == c.room
            who == {u \in Tab \ {t} : Hosted(st, t, r) /\ st.rooms[r].seat[u] = c.intent}
            u == CHOOSE v \in who : TRUE
            k == [st EXCEPT !.rooms[r].kicked = st.rooms[r].kicked \cup {u}]
            o == Remove(st, t, c)
<1>1. CASE c.intent = 0 \/ who = {}
  BY <1>1, CalmAgain, CalmMoves DEF Remove, Refused, Entering, Settles
<1>2. CASE ~(c.intent = 0 \/ who = {})
  <2>1. u \in who BY <1>2
  <2>2. o.st = Release(k, u, "removed") BY <1>2 DEF Remove, Done
  <2>3. /\ u \in Tab /\ u # t /\ Hosted(st, t, r) /\ st.rooms[r].seat[u] = c.intent BY <2>1
  <2>. HIDE DEF u, o
  <2>4. r \in DOMAIN st.rooms /\ st.rooms[r] # None /\ st.rooms[r] \in Room /\ st.rooms[r].host = t
    BY <2>3, Seating, NoneIsNoRoom DEF Hosted
  <2>5. st.session[u].room = r /\ r # 0 BY <1>2, <2>3, <2>4, Seating DEF Hosted
  <2>. DEFINE x == [st.rooms[r] EXCEPT !.kicked = st.rooms[r].kicked \cup {u}]
  <2>6. /\ x \in Room /\ x.seat = st.rooms[r].seat /\ x.host = st.rooms[r].host
        /\ x.intent = st.rooms[r].intent
    BY <2>3, <2>4 DEF Room
  <2>7. /\ DOMAIN k = DOMAIN st /\ k.session = st.session /\ k.down = st.down
        /\ k.rooms = [st.rooms EXCEPT ![r] = x]
    BY <2>4 DEF Agrees, Shape
  <2>. HIDE DEF k, x
  <2>8. Agrees(k) BY <2>7, <2>4, <2>6, RoomChangeOK DEF Agrees, Shape
  <2>9. Calm(st, k, Tab) /\ \A v \in Tab : Stays(st, k, v)
    <3>2. \A v \in Tab : st.session[v].room # 0 =>
            LET q == st.session[v].room
            IN  k.rooms[q].seat[v] = st.rooms[q].seat[v] /\ k.rooms[q].host = st.rooms[q].host
      BY <2>6, <2>4, <2>7
    <3>. QED BY <2>7, <3>2, CalmStill
  <2>10. Calm(k, Release(k, u, "removed"), Tab) /\ Recalls(k, Release(k, u, "removed"), Tab)
    BY <2>3, <2>5, <2>7, <2>8, ReleaseMoves
  <2>11. Calm(st, o.st, Tab) /\ Recalls(st, o.st, Tab)
    BY <2>2, <2>7, <2>9, <2>10, CalmTwice DEF Recalls
  <2>12. Moves(st, o.st, t, c) BY <2>11, CalmMoves DEF Entering
  <2>. QED BY <2>12 DEF Settles, Entering, o
<1>. QED BY <1>1, <1>2

\* A change of the password moves nobody.
LEMMA SetAccessMoves ==
  ASSUME NEW st, Agrees(st), NEW t \in Tab, NEW c, Sound(c), c.type = "access"
  PROVE  LET o == SetAccess(st, t, c)
         IN  Moves(st, o.st, t, c) /\ Settles(st, o.st, t, c, o.code)
<1>. DEFINE r == c.room
            x == [st.rooms[r] EXCEPT !.access = st.rooms[r].access + 1, !.lock = c.password]
            k == [st EXCEPT !.rooms[r].access = st.rooms[r].access + 1, !.rooms[r].lock = c.password]
            o == SetAccess(st, t, c)
<1>1. o.st = st \/ (Hosted(st, t, r) /\ o.st = k) BY DEF SetAccess, Refused, Done
<1>. HIDE DEF o
<1>2. CASE o.st = st BY CalmAgain, CalmMoves, <1>2 DEF Entering, Settles, o
<1>3. CASE Hosted(st, t, r) /\ o.st = k
  <2>1. r \in DOMAIN st.rooms /\ st.rooms[r] # None /\ st.rooms[r] \in Room
    BY <1>3, Seating, NoneIsNoRoom DEF Hosted
  <2>2. x.seat = st.rooms[r].seat /\ x.host = st.rooms[r].host BY <2>1 DEF Room
  <2>3. /\ k.session = st.session /\ k.down = st.down
        /\ k.rooms = [st.rooms EXCEPT ![r] = x]
    BY <2>1 DEF Agrees, Shape, Room
  <2>. HIDE DEF k, x
  <2>4. \A q : k.rooms[q] = IF q = r THEN x ELSE st.rooms[q] BY <2>1, <2>3
  <2>5. \A v \in Tab : st.session[v].room # 0 =>
            LET q == st.session[v].room
            IN  k.rooms[q].seat[v] = st.rooms[q].seat[v] /\ k.rooms[q].host = st.rooms[q].host
    BY <2>2, <2>4
  <2>6. Calm(st, k, Tab) BY <2>3, <2>5, CalmStill
  <2>7. Moves(st, k, t, c) BY <2>3, <2>6, CalmMoves DEF Entering, Recalls
  <2>. QED BY <1>3, <2>7 DEF Settles, Entering, o
<1>. QED BY <1>1, <1>2, <1>3

\* Whatever a command does, nobody but its sender comes into a room by it.
LEMMA ApplyMoves ==
  ASSUME NEW st, Agrees(st), NEW t \in Tab, NEW c, Sound(c), c.type # "hello"
  PROVE  LET o == Apply(st, t, c)
         IN  Moves(st, o.st, t, c) /\ Settles(st, o.st, t, c, o.code)
<1>1. CASE c.type = "join" BY <1>1, ReserveMoves DEF Apply
<1>2. CASE c.type = "create" BY <1>2, CreateLobbyMoves DEF Apply
<1>3. CASE c.type = "leave" BY <1>3, LeaveMoves DEF Apply
<1>4. CASE c.type = "cancelCreate" BY <1>4, CancelCreateMoves DEF Apply
<1>5. CASE c.type = "close" BY <1>5, CloseRoomMoves DEF Apply
<1>6. CASE c.type = "remove" BY <1>6, RemoveMoves DEF Apply
<1>7. CASE c.type = "access" BY <1>7, SetAccessMoves DEF Apply
<1>. QED BY <1>1, <1>2, <1>3, <1>4, <1>5, <1>6, <1>7 DEF Sound

\* A reply tells the sender where it is.
Reply(c, code, w) ==
  [type |-> "result", n |-> c.n, code |-> code, room |-> w.id, intent |-> w.intent, host |-> w.host]

\* A reply moves nobody, and goes to the sender alone.
LEMMA AnswerMoves ==
  ASSUME NEW t \in Tab, NEW socket, NEW c, NEW o, Agrees(o.st)
  PROVE  LET k == Answer(t, socket, c, o)
         IN  /\ k.session = o.st.session /\ k.rooms = o.st.rooms
             /\ \A v \in Tab : Where(k, v) = Where(o.st, v)
             /\ \A v \in Tab \ {t} : k.down[v] = o.st.down[v]
             /\ k.down[t] = IF c.n = 0 \/ tab[t].socket # socket THEN o.st.down[t]
                            ELSE Append(o.st.down[t], Reply(c, o.code, Where(o.st, t)))
<1>. DEFINE st == o.st
            k == Answer(t, socket, c, o)
            r == st.session[t].room
            h == r # 0 /\ st.rooms[r].host = t
            i == IF r = 0 THEN 0 ELSE st.rooms[r].seat[t]
            m == [type |-> "result", n |-> c.n, code |-> o.code, room |-> r, intent |-> i, host |-> h]
<1>1. k = IF c.n = 0 \/ tab[t].socket # socket THEN st
          ELSE [st EXCEPT !.down[t] = Append(st.down[t], m)]
  BY DEF Answer
<1>2. m = Reply(c, o.code, Where(st, t))
  <2>1. Where(st, t) = Shown(r, i, h)
    <3>1. CASE r = 0
      <4>1. Where(st, t) = Shown(r, 0, FALSE) /\ i = 0 BY <3>1 DEF Where, Nowhere
      <4>2. h = FALSE BY <3>1
      <4>. QED BY <4>1, <4>2, Zenon
    <3>2. CASE r # 0
      <4>1. Where(st, t) = Shown(r, st.rooms[r].seat[t], st.rooms[r].host = t) BY <3>2 DEF Where
      <4>2. h = (st.rooms[r].host = t) /\ i = st.rooms[r].seat[t] BY <3>2
      <4>. QED BY <4>1, <4>2, Zenon
    <3>. QED BY <3>1, <3>2
  <2>. HIDE DEF h, i, r
  <2>2. /\ Shown(r, i, h).id = r
        /\ Shown(r, i, h).intent = i
        /\ Shown(r, i, h).host = h
    BY DEF Shown
  <2>. DEFINE y == Shown(r, i, h)
  <2>3. m = [type |-> "result", n |-> c.n, code |-> o.code, room |-> y.id, intent |-> y.intent,
             host |-> y.host]
    BY <2>2, Zenon
  <2>. HIDE DEF y
  <2>. QED BY <2>1, <2>3, Zenon DEF Reply, y
<1>. HIDE DEF m, k
<1>3. /\ k.session = st.session /\ k.rooms = st.rooms
      /\ \A v \in Tab \ {t} : k.down[v] = st.down[v]
      /\ k.down[t] = IF c.n = 0 \/ tab[t].socket # socket THEN st.down[t]
                     ELSE Append(st.down[t], m)
  BY <1>1 DEF Agrees, Shape
<1>4. \A v \in Tab : Where(k, v) = Where(st, v) BY <1>3 DEF Where
<1>. QED BY <1>2, <1>3, <1>4 DEF k

-----------------------------------------------------------------------------
(* What a step leaves of a tab that does not take it.                      *)

\* The derivations of a tab, some of them over.
Others(t, q, p) ==
  \E f : /\ \A i \in DOMAIN p : p[i].tab = t => f[i] \in DOMAIN q /\ p[i] = q[f[i]]
         /\ \A i, j \in DOMAIN p : p[i].tab = t /\ p[j].tab = t /\ i # j => f[i] # f[j]

Aside(v) ==
  /\ tab'[v] = tab[v] /\ up'[v] = up[v] /\ withdrawn'[v] = withdrawn[v]
  /\ session'[v].socket = session[v].socket /\ session'[v].cancelled = session[v].cancelled
  /\ Stays(Now, Now', v) \/ Goes(Now, Now', v)
  /\ Others(v, work, work')

\* The derivations stay as they are.
LEMMA OthersSame == \A t, q : Others(t, q, q)
<1>. TAKE t, q
<1>. DEFINE f == [i \in DOMAIN q |-> i]
<1>1. /\ \A i \in DOMAIN q : q[i].tab = t => f[i] \in DOMAIN q /\ q[i] = q[f[i]]
      /\ \A i, j \in DOMAIN q : q[i].tab = t /\ q[j].tab = t /\ i # j => f[i] # f[j]
  OBVIOUS
<1>. HIDE DEF f
<1>. QED BY <1>1 DEF Others

\* A derivation of somebody else begins.
LEMMA OthersMore ==
  ASSUME NEW q, IsSeq(q), NEW w, NEW t, w.tab # t
  PROVE  Others(t, q, Append(q, w))
<1>. DEFINE p == Append(q, w)
            f == [i \in DOMAIN p |-> i]
<1>2. \A i \in DOMAIN p : p[i].tab = t => i \in DOMAIN q /\ p[i] = q[i] BY AppendIsSeq
<1>. HIDE DEF p
<1>3. /\ \A i \in DOMAIN p : p[i].tab = t => f[i] \in DOMAIN q /\ p[i] = q[f[i]]
      /\ \A i, j \in DOMAIN p : p[i].tab = t /\ p[j].tab = t /\ i # j => f[i] # f[j]
  BY <1>2
<1>. HIDE DEF f
<1>4. Others(t, q, p) BY <1>3 DEF Others
<1>. QED BY <1>4 DEF p

\* A derivation ends; the others stay in their places, or move up by one.
Shortens(q, i, p) ==
  \E f : /\ \A n \in DOMAIN p : f[n] \in DOMAIN q /\ p[n] = q[f[n]] /\ f[n] # i
         /\ \A n, j \in DOMAIN p : n # j => f[n] # f[j]
\* Without one derivation the others keep a place of their own each.
LEMMA OthersWithout ==
  ASSUME NEW q, IsSeq(q), NEW i \in DOMAIN q
  PROVE  Shortens(q, i, SubSeq(q, 1, i - 1) \o SubSeq(q, i + 1, Len(q)))
<1>1. PICK S : q \in Seq(S) BY DEF IsSeq
<1>2. Len(q) \in Nat /\ DOMAIN q = 1..Len(q) /\ \A n \in 1..Len(q) : q[n] \in S
  BY <1>1, LenProperties, ElementOfSeq
<1>. DEFINE a == SubSeq(q, 1, i - 1)
            b == SubSeq(q, i + 1, Len(q))
            p == a \o b
<1>3. /\ i - 1 \in Int /\ i + 1 \in Int /\ Len(q) \in Int /\ 1 \in Int
      /\ \A n \in 1..(i - 1) : n \in 1..Len(q) /\ q[n] \in S
      /\ \A n \in (i + 1)..Len(q) : n \in 1..Len(q) /\ q[n] \in S
  BY <1>2
<1>4. a \in Seq(S) /\ Len(a) = i - 1 /\ \A n \in 1..(i - 1) : a[n] = q[n]
  BY <1>3, SubSeqProperties, <1>2
<1>5. /\ b \in Seq(S) /\ Len(b) = Len(q) - i
      /\ \A n \in 1..(Len(q) - i) : b[n] = q[n + i] /\ n + i \in 1..Len(q)
  BY <1>3, SubSeqProperties, <1>2
<1>. HIDE DEF a, b
<1>6. /\ Len(p) = Len(q) - 1 /\ DOMAIN p = 1..(Len(q) - 1)
      /\ \A n \in 1..(Len(q) - 1) : p[n] = IF n <= i - 1 THEN a[n] ELSE b[n - (i - 1)]
  <2>1. /\ p \in Seq(S) /\ Len(p) = Len(a) + Len(b)
        /\ \A n \in 1..(Len(a) + Len(b)) : p[n] = IF n <= Len(a) THEN a[n] ELSE b[n - Len(a)]
    BY <1>4, <1>5, ConcatProperties
  <2>2. Len(p) = Len(q) - 1 BY <2>1, <1>4, <1>5, <1>2
  <2>. QED BY <2>1, <2>2, <1>2, <1>4, <1>5, LenProperties
<1>. HIDE DEF p
<1>. DEFINE f == [n \in 1..(Len(q) - 1) |-> IF n <= i - 1 THEN n ELSE n + 1]
<1>7. ASSUME NEW n \in 1..(Len(q) - 1) PROVE f[n] \in DOMAIN q /\ p[n] = q[f[n]] /\ f[n] # i
  <2>1. CASE n <= i - 1 BY <2>1, <1>2, <1>4, <1>6
  <2>2. CASE ~(n <= i - 1)
    <3>1. n - (i - 1) \in 1..(Len(q) - i) /\ (n - (i - 1)) + i = n + 1 BY <2>2, <1>2
    <3>2. p[n] = q[n + 1] BY <2>2, <3>1, <1>5, <1>6
    <3>. QED BY <2>2, <3>2, <1>2
  <2>. QED BY <2>1, <2>2
<1>8. \A n, j \in 1..(Len(q) - 1) : n # j => f[n] # f[j] BY <1>2
<1>. HIDE DEF f
<1>9. Shortens(q, i, p)
  <2>1. /\ \A n \in DOMAIN p : f[n] \in DOMAIN q /\ p[n] = q[f[n]] /\ f[n] # i
        /\ \A n, j \in DOMAIN p : n # j => f[n] # f[j]
    BY <1>6, <1>7, <1>8
  <2>. QED BY <2>1 DEF Shortens
<1>. QED BY <1>9 DEF p, a, b

\* The state after a handler is the one it made.
LEMMA NowAfter ==
  ASSUME NEW k, Install(k)
  PROVE  /\ Now'.session = k.session /\ Now'.rooms = k.rooms /\ Now'.down = k.down
         /\ session' = k.session /\ rooms' = k.rooms /\ down' = k.down
         /\ \A v : Where(Now', v) = Where(k, v)
BY DEF Now, Install, Where

\* A tab that a handler moves out of its room at most.
LEMMA CalmAside ==
  ASSUME NEW k, Install(k), NEW here \in SUBSET Tab, Calm(Now, k, here), Recalls(Now, k, here),
         NEW v \in here, UNCHANGED tab, up'[v] = up[v], withdrawn'[v] = withdrawn[v],
         Others(v, work, work')
  PROVE  Aside(v)
BY NowAfter, NowFields DEF Calm, Recalls, Stays, Goes, Aside
\* What a session remembers of the attempts it cancelled, with one more.
Kept(old, intent) ==
  LET kept == IF Len(old) >= Tombstones THEN Tail(old) ELSE old
      here == \E i \in DOMAIN kept : kept[i] = intent
  IN  IF here THEN kept ELSE Append(kept, intent)
Withdraws == {"leave", "cancelCreate"}

\* A cancelled attempt is remembered.
LEMMA CancelKeeps ==
  ASSUME NEW st, Agrees(st), NEW t \in Tab, NEW intent
  PROVE  Cancel(st, t, intent).session[t].cancelled = Kept(st.session[t].cancelled, intent)
<1>. DEFINE x == Kept(st.session[t].cancelled, intent)
            k == [st EXCEPT !.session[t].cancelled = x]
<1>1. Cancel(st, t, intent) = k BY DEF Cancel, Kept
<1>. HIDE DEF x
<1>2. k.session[t].cancelled = x BY DEF Agrees, Shape, Fields
<1>. QED BY <1>1, <1>2 DEF x

\* Leaving and withdrawing a creation cancel the attempt, in a room or not.
LEMMA WithdrawKeeps ==
  ASSUME NEW st, Agrees(st), NEW t \in Tab, NEW c, c.type \in Withdraws
  PROVE  Apply(st, t, c).st.session[t].cancelled = Kept(st.session[t].cancelled, c.intent)
<1>. DEFINE k == Cancel(st, t, c.intent)
            r == st.session[t].room
<1>1. Agrees(k) /\ k.rooms = st.rooms /\ k.session[t].room = r
  BY CancelOK DEF Cancel, Agrees, Shape, Fields
<1>2. k.session[t].cancelled = Kept(st.session[t].cancelled, c.intent) BY CancelKeeps
<1>. HIDE DEF k
<1>3. CASE c.type = "leave" BY <1>3, <1>1, DepartMoves, <1>2 DEF Apply, Leave, Done, k, Recalls
<1>4. CASE c.type = "cancelCreate"
  <2>. DEFINE made == r # 0 /\ st.rooms[r].host = t /\ st.rooms[r].intent = c.intent
  <2>1. Apply(st, t, c) = CancelCreate(st, t, c) BY <1>4 DEF Apply
  <2>3. r # 0 => Close(k, r, "creation_cancelled").session[t].cancelled = k.session[t].cancelled
    BY <1>1, Seating, NoneIsNoRoom, CloseMoves DEF Recalls
  <2>. QED BY <2>1, <2>3, <1>2 DEF CancelCreate, Done, k
<1>. QED BY <1>3, <1>4 DEF Withdraws

\* A command that moves its sender from s to r, and its mail from d to e.
Moved(x, hears, s, r, d, e) ==
  IF x.type \in Entering
  THEN /\ e = d
       /\ r = s \/ (s.id = 0 /\ r.id # 0 /\ r.intent = x.intent /\ (r.host <=> x.type = "create"))
  ELSE \/ r = s /\ e = d
       \/ r = Nowhere /\ \E reason : e = IF hears THEN Append(d, Ended(reason)) ELSE d
Settle(x, code, r) ==
  /\ x.type \in Entering /\ code = "ok" =>
       r.id # 0 /\ r.intent = x.intent /\ (x.type = "create" => r.host)
  /\ x.type = "leave" => r.id = 0 \/ r.intent # x.intent
  /\ x.type = "cancelCreate" => r.id = 0 \/ ~r.host \/ r.intent # x.intent
  /\ x.type = "close" /\ code = "ok" => r.id = 0

\* The sender of a command after it was applied or refused, and the reply.
Dealt(t, x, applied, code, replies) ==
  LET s == Where(Now, t)
      r == Where(Now', t)
  IN
  /\ \E e : /\ Moved(x, Hears(Now, t), s, r, down[t], e)
            /\ down'[t] = IF replies THEN Append(e, Reply(x, code, r)) ELSE e
            /\ ~applied => e = down[t]
  /\ applied => Settle(x, code, r)
  /\ ~applied => r = s /\ code # "ok"
  /\ s.id = 0 /\ r.id # 0 => code = "ok" /\ ~Cancelled(Now, t, x.intent)
  /\ session'[t].socket = session[t].socket
  /\ session'[t].cancelled = IF applied /\ x.type \in Withdraws
                             THEN Kept(session[t].cancelled, x.intent) ELSE session[t].cancelled

\* A handler and its reply: what the sender and the others find.
LEMMA AnswerDealt ==
  ASSUME Inv, NEW t \in Tab, NEW socket, NEW x, Sound(x), x.type # "hello", NEW o,
         NEW applied \in BOOLEAN,
         IF applied THEN o = Apply(Now, t, x) ELSE o.st = Now /\ o.code # "ok",
         Install(Answer(t, socket, x, o)), UNCHANGED tab
  PROVE  /\ Dealt(t, x, applied, o.code, x.n # 0 /\ tab[t].socket = socket)
         /\ \A v \in Tab \ {t} :
              up'[v] = up[v] /\ withdrawn'[v] = withdrawn[v] /\ Others(v, work, work') => Aside(v)
<1>. DEFINE k == Answer(t, socket, x, o)
            n == o.st
            s == Where(Now, t)
            r == Where(Now', t)
            here == Tab \ {t}
<1>1. Agrees(Now) /\ Now.down = down /\ Now.session = session BY NowFields DEF Inv
<1>2. Agrees(n) BY <1>1, ApplyOK
<1>3. /\ k.session = n.session /\ k.rooms = n.rooms
      /\ \A v \in Tab : Where(k, v) = Where(n, v)
      /\ \A v \in here : k.down[v] = n.down[v]
      /\ k.down[t] = IF x.n = 0 \/ tab[t].socket # socket THEN n.down[t]
                     ELSE Append(n.down[t], Reply(x, o.code, Where(n, t)))
  BY <1>2, AnswerMoves
<1>4. Install(k) OBVIOUS
<1>. HIDE DEF k
<1>5. r = Where(n, t) /\ session' = n.session /\ down'[t] = k.down[t] BY <1>3, <1>4, NowAfter
<1>6. /\ Calm(Now, n, here) /\ Recalls(Now, n, here) /\ n.session[t].socket = session[t].socket
      /\ x.type \notin Withdraws \/ ~applied => n.session[t].cancelled = session[t].cancelled
      /\ Moved(x, Hears(Now, t), s, r, down[t], n.down[t])
      /\ applied => Settle(x, o.code, r)
      /\ s.id = 0 /\ r.id # 0 => o.code = "ok" /\ ~Cancelled(Now, t, x.intent)
      /\ ~applied => n.down[t] = down[t] /\ r = s
  <2>1. CASE applied
    <3>1. Moves(Now, n, t, x) /\ Settles(Now, n, t, x, o.code) BY <2>1, <1>1, ApplyMoves
    <3>2. Calm(Now, n, here) /\ Recalls(Now, n, here) BY <3>1 DEF Moves, Recalls
    <3>3. x.type \notin Withdraws => n.session[t].cancelled = session[t].cancelled
      BY <3>1, <1>1 DEF Moves, Recalls, Withdraws
    <3>4. n.session[t].socket = session[t].socket BY <3>1, <1>1 DEF Moves, Calm
    <3>5. Settle(x, o.code, r) BY <3>1, <1>5 DEF Settles, Settle
    <3>6. x.type \in Entering => Stays(Now, n, t) \/ Comes(Now, n, t, x) BY <3>1 DEF Moves
    <3>7. x.type \notin Entering => Stays(Now, n, t) \/ Goes(Now, n, t) BY <3>1 DEF Moves
    <3>8. Stays(Now, n, t) => r = s /\ n.down[t] = down[t] BY <1>1, <1>5 DEF Stays
    <3>9. Goes(Now, n, t) => /\ r = Nowhere
                             /\ \E reason : n.down[t] = IF Hears(Now, t) THEN Append(down[t], Ended(reason))
                                                        ELSE down[t]
      BY <1>1, <1>5 DEF Goes
    <3>10. Comes(Now, n, t, x) =>
             /\ n.down[t] = down[t] /\ s.id = 0 /\ r.id # 0 /\ ~Cancelled(Now, t, x.intent)
             /\ r.intent = x.intent /\ (r.host <=> x.type = "create")
      BY <1>1, <1>5 DEF Comes
    <3>13. x.type \in Entering /\ o.code # "ok" => r = s BY <3>1, <1>5 DEF Settles
    <3>. HIDE DEF r, s
    <3>11. Moved(x, Hears(Now, t), s, r, down[t], n.down[t])
      BY <3>6, <3>7, <3>8, <3>9, <3>10 DEF Moved
    <3>12. s.id = 0 /\ r.id # 0 => o.code = "ok" /\ ~Cancelled(Now, t, x.intent)
      BY <3>6, <3>7, <3>8, <3>9, <3>10, <3>13 DEF Nowhere, Shown
    <3>. QED BY <2>1, <3>2, <3>3, <3>4, <3>5, <3>11, <3>12
  <2>2. CASE ~applied
    <3>1. n = Now BY <2>2
    <3>2. Calm(Now, n, here) /\ Recalls(Now, n, here) BY <3>1, CalmAgain
    <3>3. r = s /\ n.down[t] = down[t] /\ n.session[t] = session[t] BY <3>1, <1>1, <1>5
    <3>. HIDE DEF r, s
    <3>4. Moved(x, Hears(Now, t), s, r, down[t], n.down[t]) BY <3>3 DEF Moved
    <3>. QED BY <2>2, <3>2, <3>3, <3>4
  <2>. QED BY <2>1, <2>2
<1>8. Dealt(t, x, applied, o.code, x.n # 0 /\ tab[t].socket = socket)
  <2>. DEFINE e == n.down[t]
              replies == x.n # 0 /\ tab[t].socket = socket
  <2>. HIDE DEF r, s, e
  <2>2. \E y : /\ Moved(x, Hears(Now, t), s, r, down[t], y)
               /\ down'[t] = IF replies THEN Append(y, Reply(x, o.code, r)) ELSE y
               /\ ~applied => y = down[t]
    BY <1>3, <1>5, <1>6 DEF e
  <2>. HIDE DEF replies
  <2>. QED BY <2>2, <1>5, <1>6, <1>1, WithdrawKeeps DEF Dealt, r, s, replies
<1>9. ASSUME NEW v \in here, up'[v] = up[v], withdrawn'[v] = withdrawn[v], Others(v, work, work')
      PROVE  Aside(v)
  <2>1. here \in SUBSET Tab OBVIOUS
  <2>. HIDE DEF here
  <2>2. Calm(Now, k, here) /\ Recalls(Now, k, here)
    BY <1>3, <2>1, <1>6 DEF Stays, here, Goes, Calm, Recalls
  <2>. QED BY <1>4, <1>9, <2>1, <2>2, CalmAside
<1>. QED BY <1>8, <1>9

-----------------------------------------------------------------------------
(* The steps, seen from the tab that takes them and from the others.       *)

Recorded == DOMAIN withdrawn = Tab

\* A command that is handled at once.
LEMMA HandleDealt ==
  ASSUME Inv, Recorded, NEW t \in Tab, Handle(t)
  PROVE  LET x == Head(up[t])
             attached == session[t].socket = tab[t].socket
         IN  /\ up[t] # <<>> /\ up' = [up EXCEPT ![t] = Tail(up[t])] /\ UNCHANGED <<tab, work>>
             /\ Sound(x) /\ x.type # "hello" /\ Head(up[t]) = up[t][1] /\ 1 \in DOMAIN up[t]
             /\ withdrawn'[t] = IF attached /\ x.type \in Withdraws
                                THEN withdrawn[t] \cup {x.intent} ELSE withdrawn[t]
             /\ DOMAIN withdrawn' = Tab
             /\ \E applied \in BOOLEAN : \E code :
                  /\ Dealt(t, x, applied, code, x.n # 0)
                  /\ applied => attached
                  /\ attached /\ x.type \in Withdraws => applied
             /\ \A v \in Tab \ {t} : Aside(v)
<1>. DEFINE x == Head(up[t])
            attached == session[t].socket = tab[t].socket
            applied == attached /\ ~Misplaced(x)
            o == IF ~attached THEN Refused(Now, "authenticate_first")
                 ELSE IF Misplaced(x) THEN Refused(Now, "invalid_password") ELSE Apply(Now, t, x)
            socket == tab[t].socket
            k == Answer(t, socket, x, o)
<1>1. /\ up[t] # <<>> /\ x.type # "hello" /\ Install(k)
      /\ up' = [up EXCEPT ![t] = Tail(up[t])] /\ UNCHANGED <<work, tab>>
      /\ IF attached THEN Withdraw(t, x) ELSE UNCHANGED withdrawn
  BY DEF Handle, Ready
<1>2. Sound(x) /\ Head(up[t]) = up[t][1] /\ 1 \in DOMAIN up[t] BY <1>1, HeadOf
<1>3. /\ withdrawn'[t] = IF attached /\ x.type \in Withdraws
                         THEN withdrawn[t] \cup {x.intent} ELSE withdrawn[t]
      /\ DOMAIN withdrawn' = Tab
      /\ \A v \in Tab \ {t} : withdrawn'[v] = withdrawn[v]
  <2>. HIDE DEF attached, x
  <2>. QED BY <1>1 DEF Withdraw, Withdraws, Recorded
<1>4. IF applied THEN o = Apply(Now, t, x) ELSE o.st = Now /\ o.code # "ok" BY DEF Refused
<1>5. applied \in BOOLEAN /\ (attached /\ x.type \in Withdraws => applied) /\ (applied => attached)
  BY DEF Misplaced, Withdraws
<1>. HIDE DEF applied, o, x, attached
<1>7. /\ Dealt(t, x, applied, o.code, x.n # 0 /\ tab[t].socket = socket)
      /\ \A v \in Tab \ {t} :
           up'[v] = up[v] /\ withdrawn'[v] = withdrawn[v] /\ Others(v, work, work') => Aside(v)
  BY <1>1, <1>2, <1>4, <1>5, AnswerDealt
<1>8. Dealt(t, x, applied, o.code, x.n # 0)
  <2>1. (x.n # 0 /\ tab[t].socket = socket) = (x.n # 0) OBVIOUS
  <2>. QED BY <1>7, <2>1, Zenon
<1>9. \E y \in BOOLEAN : \E code :
         /\ Dealt(t, x, y, code, x.n # 0)
         /\ y => attached
         /\ attached /\ x.type \in Withdraws => y
  BY <1>5, <1>8
<1>. QED BY <1>1, <1>2, <1>3, OthersSame, <1>7, <1>9 DEF x, attached, Inv, Sides

\* A command that asks for a derivation: there are too many, or it waits.
LEMMA DeferDealt ==
  ASSUME Inv, Recorded, NEW t \in Tab, Defer(t)
  PROVE  LET x == Head(up[t]) IN
         /\ up[t] # <<>> /\ up' = [up EXCEPT ![t] = Tail(up[t])] /\ UNCHANGED <<tab, withdrawn>>
         /\ Sound(x) /\ x.type \in {"join", "access"}
         /\ Head(up[t]) = up[t][1] /\ 1 \in DOMAIN up[t]
         /\ \/ /\ UNCHANGED work
               /\ \E code : Dealt(t, x, FALSE, code, x.n # 0 /\ tab[t].socket = session[t].socket)
            \/ /\ UNCHANGED <<session, rooms, down>>
               /\ \E w : work' = Append(work, w) /\ w.tab = t /\ w.socket = session[t].socket
                         /\ w.command = x
         /\ \A v \in Tab \ {t} : Aside(v)
<1>. DEFINE x == Head(up[t])
            o == Refused(Now, "rate_limited")
            socket == session[t].socket
            k == Answer(t, socket, x, o)
            right == x.type # "join" \/ x.password = rooms[x.room].lock
            w == [tab |-> t, token |-> session[t].token, socket |-> session[t].socket,
                  command |-> x, right |-> right]
            f == FALSE
<1>1. /\ up[t] # <<>> /\ x.type # "hello" /\ Derives(t, x)
      /\ up' = [up EXCEPT ![t] = Tail(up[t])] /\ UNCHANGED <<tab, withdrawn>>
      /\ \/ Install(k) /\ UNCHANGED work
         \/ work' = Append(work, w) /\ UNCHANGED <<session, rooms, down>>
  BY DEF Defer, Ready
<1>2. Sound(x) /\ Head(up[t]) = up[t][1] /\ 1 \in DOMAIN up[t] /\ x.type \in {"join", "access"}
  BY <1>1, HeadOf DEF Derives
<1>3. f \in BOOLEAN /\ IF f THEN o = Apply(Now, t, x) ELSE o.st = Now /\ o.code # "ok"
  BY DEF Refused
<1>4. w.tab = t /\ w.socket = session[t].socket /\ w.command = x OBVIOUS
<1>5. \A v \in Tab \ {t} : up'[v] = up[v] /\ withdrawn'[v] = withdrawn[v] BY <1>1 DEF Inv, Sides
<1>. HIDE DEF o, x, w, f
<1>6. CASE Install(k) /\ UNCHANGED work
  BY <1>1, <1>2, <1>3, <1>6, AnswerDealt, <1>5, OthersSame DEF f, x
<1>7. CASE work' = Append(work, w) /\ UNCHANGED <<session, rooms, down>>
  <2>1. ASSUME NEW v \in Tab \ {t} PROVE Aside(v)
    BY <1>4, <1>7, KeptWork, OthersMore, <1>1, <1>5 DEF Now, Stays, Aside
  <2>. QED BY <1>1, <1>2, <1>7, <2>1, <1>4 DEF x
<1>. QED BY <1>1, <1>6, <1>7

\* A derivation that ends.
LEMMA DerivedDealt ==
  ASSUME Inv, Recorded, NEW i, Derived(i)
  PROVE  LET t == work[i].tab x == work[i].command IN
         /\ i \in DOMAIN work /\ t \in Tab /\ UNCHANGED <<tab, up, withdrawn>>
         /\ Sound(x) /\ x.type \in {"join", "access"}
         /\ Shortens(work, i, work')
         /\ \E applied \in BOOLEAN : \E code :
              /\ Dealt(t, x, applied, code, x.n # 0 /\ tab[t].socket = work[i].socket)
              /\ applied => session[t].socket = work[i].socket
         /\ \A v \in Tab \ {t} : Aside(v)
<1>. DEFINE w == work[i]
            t == w.tab
            x == w.command
            socket == w.socket
            o == Outcome(w)
            k == Answer(t, socket, x, o)
            applied == /\ w.right /\ session[t].token = w.token /\ session[t].socket = w.socket
<1>1. i \in DOMAIN work /\ Install(k) /\ Derivable(w) BY DerivedOutcome
<1>2. UNCHANGED <<tab, up, withdrawn>>
      /\ work' = SubSeq(work, 1, i - 1) \o SubSeq(work, i + 1, Len(work))
  BY DEF Derived
<1>3. t \in Tab /\ Sound(x) /\ x.type \in {"join", "access"} /\ x.type # "hello"
  BY <1>1 DEF Derivable
<1>4. IF applied THEN o = Apply(Now, t, x) ELSE o.st = Now /\ o.code # "ok"
  <2>1. /\ \A code : Refused(Now, code).st = Now /\ Refused(Now, code).code = code
        /\ "bad_password" # "ok" /\ "session_expired" # "ok" /\ "session_replaced" # "ok"
    BY DEF Refused
  <2>2. o = IF ~w.right THEN Refused(Now, "bad_password")
            ELSE IF session[t].token # w.token THEN Refused(Now, "session_expired")
            ELSE IF session[t].socket # w.socket THEN Refused(Now, "session_replaced")
            ELSE Apply(Now, t, x)
    BY DEF Outcome
  <2>3. CASE applied BY <2>2, <2>3
  <2>4. CASE ~applied
    <3>. HIDE DEF o
    <3>. QED BY <2>1, <2>4, <2>2
  <2>. QED BY <2>3, <2>4
<1>5. applied \in BOOLEAN /\ (applied => session[t].socket = w.socket) OBVIOUS
<1>6. Shortens(work, i, work') BY <1>1, <1>2, KeptWork, OthersWithout
<1>7. \A v : Others(v, work, work') BY <1>6 DEF Others, Shortens
<1>. HIDE DEF applied, o, t, x, socket
<1>8. /\ Dealt(t, x, applied, o.code, x.n # 0 /\ tab[t].socket = socket)
      /\ \A v \in Tab \ {t} :
           up'[v] = up[v] /\ withdrawn'[v] = withdrawn[v] /\ Others(v, work, work') => Aside(v)
  BY <1>1, <1>2, <1>3, <1>4, <1>5, AnswerDealt
<1>9. \A v \in Tab \ {t} : Aside(v) BY <1>2, <1>7, <1>8
<1>10. \E y \in BOOLEAN : \E code :
          /\ Dealt(t, x, y, code, x.n # 0 /\ tab[t].socket = socket)
          /\ y => session[t].socket = socket
  BY <1>5, <1>8 DEF socket
<1>. QED BY <1>1, <1>2, <1>3, <1>6, <1>9, <1>10 DEF t, x, socket

\* Deadlines are no matter of who sits where.
Deadlines(q, p) ==
  p = q \/ \E r \in DOMAIN q : \E x : /\ x.seat = q[r].seat /\ x.host = q[r].host
                                      /\ p = [q EXCEPT ![r] = x]

\* A deadline that is set or lifted.
LEMMA DeadlineSet ==
  ASSUME NEW q, NEW r \in DOMAIN q, q[r] \in Room, NEW u, NEW b
  PROVE  Deadlines(q, [q EXCEPT ![r].away[u] = b])
<1>. DEFINE x == [q[r] EXCEPT !.away = [q[r].away EXCEPT ![u] = b]]
            p == [q EXCEPT ![r].away[u] = b]
<1>1. x.seat = q[r].seat /\ x.host = q[r].host BY DEF Room
<1>2. p = [q EXCEPT ![r] = x] OBVIOUS
<1>. HIDE DEF x, p
<1>3. Deadlines(q, p) BY <1>1, <1>2 DEF Deadlines
<1>. QED BY <1>3 DEF p

\* Whoever's room and mail are left alone stays where it is.
LEMMA StaysPut ==
  ASSUME NEW st, NEW k, NEW v, Deadlines(st.rooms, k.rooms), k.down[v] = st.down[v],
         k.session[v].room = st.session[v].room
  PROVE  Stays(st, k, v)
<1>. DEFINE z == st.session[v].room
<1>1. k.rooms[z].seat[v] = st.rooms[z].seat[v] /\ k.rooms[z].host = st.rooms[z].host
  <2>1. CASE k.rooms = st.rooms BY <2>1
  <2>2. CASE \E r \in DOMAIN st.rooms : \E x :
               /\ x.seat = st.rooms[r].seat /\ x.host = st.rooms[r].host
               /\ k.rooms = [st.rooms EXCEPT ![r] = x]
    BY <2>2
  <2>. QED BY <2>1, <2>2 DEF Deadlines
<1>. QED BY <1>1 DEF Stays, Where

\* A step of the coordinator that touches another session, or none.
LEMMA StillAside ==
  ASSUME Inv, NEW v \in Tab, session'[v].socket = session[v].socket,
         session'[v].room = session[v].room, session'[v].cancelled = session[v].cancelled,
         Deadlines(rooms, rooms'), down'[v] = down[v], tab'[v] = tab[v], up'[v] = up[v],
         withdrawn'[v] = withdrawn[v], UNCHANGED work
  PROVE  Aside(v) /\ Stays(Now, Now', v)
BY NowFields, StaysPut, OthersSame DEF Now, Aside

\* A session whose socket is gone.
LEMMA DetachAside ==
  ASSUME Inv, NEW t \in Tab, Detach(t)
  PROVE  /\ \A v \in Tab \ {t} : Aside(v)
         /\ session'[t].socket = 0 /\ session'[t].cancelled = session[t].cancelled
         /\ Stays(Now, Now', t) /\ UNCHANGED <<tab, up, work, withdrawn>>
BY SessionFields, StillAside, NowFields, StaysPut DEF Detach, Fields, Deadlines, Now

\* Heartbeats and deadlines move nobody.
LEMMA ClockAside ==
  ASSUME Inv, NEW t \in Tab, Lapse(t) \/ Heartbeat(t) \/ Miss(t)
  PROVE  /\ \A v \in Tab : Aside(v) /\ Stays(Now, Now', v)
         /\ UNCHANGED withdrawn
<1>. DEFINE r == session[t].room
<1>1. /\ session' = session \/ \E b : session' = [session EXCEPT ![t] = [session[t] EXCEPT !.quiet = b]]
      /\ UNCHANGED <<work, up, down, tab, withdrawn>>
  BY SessionFields DEF Lapse, Heartbeat, Miss
<1>2. \A v \in Tab : /\ session'[v].socket = session[v].socket /\ session'[v].room = session[v].room
                     /\ session'[v].cancelled = session[v].cancelled
  <2>1. CASE session' = session BY <2>1
  <2>2. CASE \E b : session' = [session EXCEPT ![t] = [session[t] EXCEPT !.quiet = b]]
    <3>1. PICK b : session' = [session EXCEPT ![t] = [session[t] EXCEPT !.quiet = b]] BY <2>2
    <3>3. \A v \in Tab \ {t} : session'[v] = session[v] BY <3>1, SessionFields
    <3>. QED BY <3>1, SessionFields, <3>3 DEF Fields
  <2>. QED BY <1>1, <2>1, <2>2
<1>3. Deadlines(rooms, rooms')
  <2>2. r # 0 => r \in DOMAIN rooms /\ rooms[r] \in Room BY Seating, NowFields DEF Inv
  <2>3. CASE rooms' = rooms BY <2>3 DEF Deadlines
  <2>4. CASE r # 0 /\ \E b : rooms' = [rooms EXCEPT ![r].away[t] = b]
    <3>1. PICK b : rooms' = [rooms EXCEPT ![r].away[t] = b] BY <2>4
    <3>. DEFINE p == [rooms EXCEPT ![r].away[t] = b]
    <3>2. Deadlines(rooms, p) BY <2>2, <2>4, DeadlineSet
    <3>. HIDE DEF p
    <3>. QED BY <3>1, <3>2 DEF p
  <2>. QED BY <2>3, <2>4 DEF Lapse, Heartbeat, Miss
<1>. QED BY <1>1, <1>2, <1>3, StillAside

\* An expiry and an operator move tabs out of rooms only.
LEMMA OutAside ==
  ASSUME Inv, NEW v \in Tab, (\E t \in Tab : Expire(t)) \/ Operator
  PROVE  Aside(v) /\ UNCHANGED withdrawn
<1>1. \E k : Install(k) /\ Calm(Now, k, Tab) /\ Recalls(Now, k, Tab)
  <2>1. CASE \E t \in Tab : Expire(t)
    <3>1. PICK t \in Tab : Expire(t) BY <2>1
    <3>. DEFINE k == Depart(Now, t, "expired")
    <3>2. session[t].room # 0 /\ Install(k) BY <3>1 DEF Expire
    <3>3. Calm(Now, k, Tab) /\ Recalls(Now, k, Tab) BY <3>2, NowFields, DepartMoves DEF Inv
    <3>. QED BY <3>2, <3>3
  <2>2. CASE Operator
    <3>1. PICK r \in DOMAIN rooms : rooms[r] # None /\ Install(Close(Now, r, "operator_removed"))
      BY <2>2 DEF Operator
    <3>. QED BY <3>1, NowFields, CloseMoves DEF Inv
  <2>. QED BY <2>1, <2>2
<1>2. UNCHANGED <<work, up, tab, withdrawn>> BY DEF Expire, Operator
<1>3. PICK k : Install(k) /\ Calm(Now, k, Tab) /\ Recalls(Now, k, Tab) BY <1>1
<1>4. Tab \in SUBSET Tab OBVIOUS
<1>6. Aside(v) BY <1>2, <1>3, <1>4, OthersSame, CalmAside
<1>. QED BY <1>2, <1>6

\* What a tab does by itself leaves the coordinator and the other tabs alone.
LEMMA TabAside ==
  ASSUME Inv, NEW t \in Tab, UNCHANGED <<session, rooms, work, withdrawn>>,
         \A v \in Tab \ {t} : tab'[v] = tab[v] /\ up'[v] = up[v] /\ down'[v] = down[v]
  PROVE  /\ \A v \in Tab \ {t} : Aside(v)
         /\ \A v \in Tab : Where(Now', v) = Where(Now, v)
BY NowFields, StillAside DEF Now, Where, Deadlines

\* A hello: the session, where it is and what the tab is told of it.
LEMMA AttachDealt ==
  ASSUME Inv, Recorded, NEW t \in Tab, Attach(t)
  PROVE  LET x == Head(up[t]) fresh == tab[t].token = 0 IN
         /\ up[t] # <<>> /\ up' = [up EXCEPT ![t] = Tail(up[t])] /\ UNCHANGED <<tab, work>>
         /\ x.type = "hello" /\ x.n = 1 /\ x = up[t][1] /\ 1 \in DOMAIN up[t]
         /\ Where(Now', t) = Where(Now, t)
         /\ \E code :
              /\ down'[t] = Append(down[t], Reply(x, code, Where(Now, t)))
              /\ session'[t].socket = IF code = "ok" THEN tab[t].socket ELSE session[t].socket
         /\ withdrawn'[t] = IF fresh THEN {} ELSE withdrawn[t]
         /\ session'[t].cancelled = IF fresh THEN <<>> ELSE session[t].cancelled
         /\ DOMAIN withdrawn' = Tab
         /\ fresh => Where(Now, t).id = 0
         /\ \A v \in Tab \ {t} : Aside(v)
<1>. DEFINE x == Head(up[t])
            fresh == tab[t].token = 0
            known == session[t].token = tab[t].token
            o == Greeting(t)
            socket == tab[t].socket
            k == Answer(t, socket, x, o)
            next == IF fresh THEN [Nobody EXCEPT !.token = restarts + 1, !.socket = tab[t].socket]
                    ELSE [session[t] EXCEPT !.socket = tab[t].socket, !.quiet = FALSE]
            r == next.room
            st == [Now EXCEPT !.session[t] = next,
                              !.rooms = IF r = 0 THEN Now.rooms
                                        ELSE [Now.rooms EXCEPT ![r].away[t] = FALSE]]
<1>1. /\ up[t] # <<>> /\ x.type = "hello" /\ Install(k)
      /\ up' = [up EXCEPT ![t] = Tail(up[t])] /\ UNCHANGED <<work, tab>>
      /\ withdrawn' = [withdrawn EXCEPT ![t] = IF fresh THEN {} ELSE withdrawn[t]]
  BY DEF Attach, Greeting, Recorded
<1>2. Sound(x) /\ 1 \in DOMAIN up[t] /\ x = up[t][1] /\ x.n = 1 BY <1>1, HeadOf DEF Sound
<1>3. o = IF known \/ fresh THEN Done(st) ELSE Refused(Now, "session_expired") BY DEF Greeting
<1>4. Agrees(o.st) /\ o.st.down = down /\ \A v \in Tab \ {t} : o.st.session[v] = session[v]
  BY GreetingOK
<1>5. fresh => session[t].room = 0 BY DEF Inv, Bound, Known
<1>6. /\ next.room = session[t].room /\ next.socket = tab[t].socket
      /\ next.cancelled = IF fresh THEN <<>> ELSE session[t].cancelled
  BY <1>5, SessionFields DEF Nobody, Fields
<1>. HIDE DEF next
<1>7. /\ Deadlines(rooms, o.st.rooms) /\ o.st.session[t].room = session[t].room
      /\ o.st.session[t].socket = IF o.code = "ok" THEN tab[t].socket ELSE session[t].socket
      /\ o.st.session[t].cancelled = IF fresh THEN <<>> ELSE session[t].cancelled
  <2>1. CASE known \/ fresh
    <3>1. o.st = st /\ o.code = "ok" BY <2>1, <1>3 DEF Done
    <3>2. st.session[t] = next BY NowFields, SessionFields
    <3>3. Deadlines(rooms, st.rooms)
      <4>1. st.rooms = IF r = 0 THEN rooms ELSE [rooms EXCEPT ![r].away[t] = FALSE] BY NowFields
      <4>2. r # 0 => r \in DOMAIN rooms /\ rooms[r] \in Room BY <1>6, Seating, NowFields DEF Inv
      <4>. HIDE DEF r, st
      <4>3. CASE r = 0 BY <4>1, <4>3 DEF Deadlines
      <4>4. CASE r # 0 BY <4>2, <4>4, DeadlineSet, <4>1
      <4>. QED BY <4>3, <4>4
    <3>. HIDE DEF st, o
    <3>. QED BY <2>1, <1>6, <3>1, <3>2, <3>3
  <2>2. CASE ~(known \/ fresh) BY <2>2, <1>3, NowFields DEF Refused, Deadlines
  <2>. QED BY <2>1, <2>2
<1>. HIDE DEF o, x, st
<1>8. /\ k.session = o.st.session /\ k.rooms = o.st.rooms
      /\ \A v \in Tab : Where(k, v) = Where(o.st, v)
      /\ \A v \in Tab \ {t} : k.down[v] = down[v]
      /\ k.down[t] = Append(down[t], Reply(x, o.code, Where(o.st, t)))
  <2>1. /\ k.session = o.st.session /\ k.rooms = o.st.rooms
        /\ \A v \in Tab : Where(k, v) = Where(o.st, v)
        /\ \A v \in Tab \ {t} : k.down[v] = o.st.down[v]
        /\ k.down[t] = IF x.n = 0 \/ tab[t].socket # socket THEN o.st.down[t]
                       ELSE Append(o.st.down[t], Reply(x, o.code, Where(o.st, t)))
    BY <1>4, AnswerMoves
  <2>. HIDE DEF k
  <2>. QED BY <2>1, <1>2, <1>4
<1>. HIDE DEF k
<1>9. /\ session' = o.st.session /\ rooms' = o.st.rooms /\ down' = k.down
      /\ Where(Now', t) = Where(o.st, t)
  BY <1>1, <1>8, NowAfter
<1>10. Where(o.st, t) = Where(Now, t) BY <1>4, <1>7, NowFields, StaysPut DEF Stays
<1>11. ASSUME NEW v \in Tab \ {t} PROVE Aside(v)
  BY <1>1, <1>4, <1>7, <1>8, <1>9, StillAside DEF Inv, Sides, Recorded
<1>12. \E code : /\ down'[t] = Append(down[t], Reply(x, code, Where(Now, t)))
                 /\ session'[t].socket = IF code = "ok" THEN tab[t].socket ELSE session[t].socket
  BY <1>7, <1>8, <1>9, <1>10
<1>13. /\ session'[t].cancelled = IF fresh THEN <<>> ELSE session[t].cancelled
       /\ fresh => Where(Now, t).id = 0
       /\ withdrawn'[t] = (IF fresh THEN {} ELSE withdrawn[t]) /\ DOMAIN withdrawn' = Tab
  BY <1>1, <1>5, <1>7, <1>9, WhereIs, NowFields DEF Inv, Recorded
<1>. QED BY <1>1, <1>2, <1>9, <1>10, <1>11, <1>12, <1>13 DEF x

-----------------------------------------------------------------------------
(* What a tab does by itself.                                              *)

\* A channel with one message more, and one without its first.
Plus(s, x, v, n) ==
  /\ DOMAIN s \subseteq Nat /\ n \in Nat /\ DOMAIN v = DOMAIN s \cup {n} /\ v[n] = x
  /\ \A i \in DOMAIN s : i < n /\ v[i] = s[i]
Rest(s, v) ==
  /\ DOMAIN s \subseteq Nat /\ DOMAIN v \subseteq Nat /\ 1 \in DOMAIN s
  /\ \A i \in DOMAIN v : i + 1 \in DOMAIN s /\ v[i] = s[i + 1] /\ 1 < i + 1
  /\ \A i \in DOMAIN s : i = 1 \/ (1 < i /\ i - 1 \in DOMAIN v /\ s[i] = v[i - 1])

\* Appending a message of a kind adds one of that kind.
LEMMA AppendPlus ==
  ASSUME NEW s, IsSeq(s), NEW x
  PROVE  IsSeq(Append(s, x)) /\ \E n : Plus(s, x, Append(s, x), n)
<1>. DEFINE v == Append(s, x)
            n == Len(s) + 1
<1>1. /\ IsSeq(v) /\ DOMAIN v = 1..n /\ DOMAIN s = 1..Len(s) /\ Len(s) \in Nat
      /\ \A i \in 1..Len(s) : v[i] = s[i]
      /\ v[n] = x
  BY AppendIsSeq
<1>. HIDE DEF v
<1>2. /\ DOMAIN v = DOMAIN s \cup {n} /\ n \in Nat /\ DOMAIN s \subseteq Nat
      /\ \A i \in DOMAIN s : i < n /\ v[i] = s[i]
  BY <1>1
<1>3. Plus(s, x, v, n)
  <2>. HIDE DEF n
  <2>. QED BY <1>1, <1>2 DEF Plus
<1>. QED BY <1>1, <1>3 DEF v

\* A tail is a rest of its queue.
LEMMA TailRest ==
  ASSUME NEW s, IsSeq(s), s # <<>>
  PROVE  IsSeq(Tail(s)) /\ Rest(s, Tail(s)) /\ Head(s) = s[1]
<1>. DEFINE v == Tail(s)
<1>1. /\ IsSeq(v) /\ DOMAIN s = 1..Len(s) /\ Len(s) \in Nat \ {0}
      /\ DOMAIN v = 1..(Len(s) - 1)
      /\ \A i \in 1..(Len(s) - 1) : v[i] = s[i + 1]
      /\ Head(s) = s[1] /\ 1 \in DOMAIN s
  BY TailIsSeq
<1>. HIDE DEF v
<1>3. \A i \in DOMAIN s : i = 1 \/ (1 < i /\ i - 1 \in DOMAIN v /\ (i - 1) + 1 = i) BY <1>1
<1>4. Rest(s, v) BY <1>1, <1>3 DEF Rest
<1>. QED BY <1>1, <1>4 DEF v

\* One message more, or one message after none.
LEMMA ConcatOne ==
  ASSUME NEW s, IsSeq(s), NEW x
  PROVE  s \o <<x>> = Append(s, x)
<1>1. PICK S : s \in Seq(S) BY DEF IsSeq
<1>2. s \in Seq(S \cup {x}) /\ x \in S \cup {x} BY <1>1, SeqMonotonic
<1>. QED BY <1>2, AppendIsConcat

\* What is sent together comes after what was sent before, in order.
LEMMA ConcatTwo ==
  ASSUME NEW s, IsSeq(s), NEW x, NEW y
  PROVE  s \o (<<x>> \o <<y>>) = Append(Append(s, x), y)
<1>1. PICK S : s \in Seq(S) BY DEF IsSeq
<1>. DEFINE T == S \cup {x, y}
            a == <<x>>
            b == <<y>>
<1>2. s \in Seq(T) /\ a \in Seq(T) /\ b \in Seq(T) BY <1>1, SeqMonotonic
<1>3. s \o (a \o b) = (s \o a) \o b
  <2>. HIDE DEF T, a, b
  <2>. QED BY <1>2, ConcatAssociative
<1>. QED BY <1>3, ConcatOne, AppendIsSeq

\* Nothing to send.
LEMMA ConcatNothing ==
  ASSUME NEW s, IsSeq(s)
  PROVE  s \o <<>> = s /\ <<>> \o s = s
<1>1. PICK S : s \in Seq(S) BY DEF IsSeq
<1>. QED BY <1>1, ConcatEmptySeq

\* The tab acts by itself: the coordinator and the other tabs stay as they are.
Alone(t) ==
  /\ UNCHANGED <<session, rooms, work, withdrawn>>
  /\ Where(Now', t) = Where(Now, t)
  /\ \A v \in Tab \ {t} : Aside(v)

\* A step of one tab leaves every other tab what it was.
LEMMA ActsAlone ==
  ASSUME Inv, NEW t \in Tab, UNCHANGED <<session, rooms, work, withdrawn>>,
         \E c : tab' = [tab EXCEPT ![t] = c] \/ tab' = tab,
         \E u : up' = [up EXCEPT ![t] = u] \/ up' = up,
         \E d : down' = [down EXCEPT ![t] = d] \/ down' = down
  PROVE  Alone(t)
BY TabScreen, TabAside DEF Alone

\* What goes out on the socket, if there is one.
LEMMA SendOne ==
  ASSUME Inv, NEW t \in Tab, NEW x, Send(t, <<x>>)
  PROVE  up'[t] = IF tab[t].socket = 0 THEN up[t] ELSE Append(up[t], x)
BY TabScreen, ConcatOne DEF Send, Inv, Sides

\* A socket is opened and says hello.
LEMMA ConnectTab ==
  ASSUME Inv, NEW t \in Tab, Connect(t)
  PROVE  LET c == tab[t] e == tab'[t] IN
         /\ Alone(t)
         /\ c.socket = 0 /\ up'[t] = <<Command("hello", 1, 0, 0, 0)>> /\ down'[t] = <<>>
         /\ e.socket = c.sockets + 1 /\ e.sockets = e.socket /\ e.connected = c.connected
         /\ e.room = c.room /\ e.lobby = c.lobby /\ e.waiting = {} /\ e.asked = c.asked
         /\ e.lost = c.lost /\ e.blind = c.blind
<1>. DEFINE k == tab[t].sockets + 1
            e == [tab[t] EXCEPT !.socket = k, !.sockets = k, !.waiting = {}]
<1>1. /\ tab' = [tab EXCEPT ![t] = e] /\ tab[t].socket = 0
      /\ up' = [up EXCEPT ![t] = <<Command("hello", 1, 0, 0, 0)>>]
      /\ down' = [down EXCEPT ![t] = <<>>]
      /\ UNCHANGED <<session, rooms, work, withdrawn>>
  BY TabScreen DEF Connect
<1>2. Alone(t)
  <2>. HIDE DEF e
  <2>. QED BY <1>1, ActsAlone
<1>. QED BY <1>1, <1>2, TabScreen DEF ScreenOK, Screen

\* The socket breaks.
LEMMA BreakTab ==
  ASSUME Inv, NEW t \in Tab, Break(t)
  PROVE  LET c == tab[t] e == tab'[t] IN
         /\ Alone(t)
         /\ up'[t] = <<>> /\ down'[t] = <<>>
         /\ e.socket = 0 /\ e.sockets = c.sockets /\ e.connected = FALSE
         /\ e.room = c.room /\ e.lobby = c.lobby /\ e.waiting = {} /\ e.asked = c.asked
         /\ e.lost = c.lost /\ e.blind = c.blind
<1>. DEFINE e == Dropped(tab[t])
<1>1. /\ tab' = [tab EXCEPT ![t] = e]
      /\ up' = [up EXCEPT ![t] = <<>>] /\ down' = [down EXCEPT ![t] = <<>>]
      /\ UNCHANGED <<session, rooms, work, withdrawn>>
  BY DEF Break
<1>2. Alone(t)
  <2>. HIDE DEF e
  <2>. QED BY <1>1, ActsAlone
<1>3. tab'[t] = e /\ up'[t] = <<>> /\ down'[t] = <<>> BY <1>1, TabScreen
<1>. QED BY <1>2, <1>3, TabScreen DEF ScreenOK, Screen, Dropped

\* The tab asks for something, and waits for the reply.
LEMMA AskTab ==
  ASSUME Inv, NEW t \in Tab, NEW type, NEW intent, NEW r, NEW password,
         Ask(t, type, intent, r, password), UNCHANGED withdrawn
  PROVE  LET c == tab[t] e == tab'[t] n == tab[t].asked + 2 IN
         /\ Alone(t)
         /\ up'[t] = IF c.socket = 0 THEN up[t]
                     ELSE Append(up[t], Command(type, n, intent, r, password))
         /\ UNCHANGED down
         /\ e.socket = c.socket /\ e.sockets = c.sockets /\ e.connected = c.connected
         /\ e.room = c.room /\ e.asked = c.asked + 1 /\ e.lost = c.lost /\ e.blind = c.blind
         /\ e.lobby = IF type = "create" THEN intent ELSE c.lobby
         /\ e.waiting = Superseded(c, type)
                          \cup {[n |-> n, type |-> type, intent |-> intent, stale |-> FALSE]}
<1>. DEFINE n == tab[t].asked + 2
            m == Command(type, n, intent, r, password)
            e == [tab[t] EXCEPT !.asked = tab[t].asked + 1,
                     !.busy = tab[t].busy \/ type \in {"join", "create"},
                     !.joining = IF type = "join" THEN intent ELSE tab[t].joining,
                     !.lobby = IF type = "create" THEN intent ELSE tab[t].lobby,
                     !.waiting = Superseded(tab[t], type)
                       \cup {[n |-> n, type |-> type, intent |-> intent, stale |-> FALSE]}]
<1>1. /\ tab' = [tab EXCEPT ![t] = e] /\ Send(t, <<m>>)
      /\ UNCHANGED <<session, rooms, work, down, withdrawn>>
  BY TabScreen DEF Ask, ScreenOK, Screen
<1>2. Alone(t)
  <2>. HIDE DEF e, m
  <2>1. \E u : up' = [up EXCEPT ![t] = u] \/ up' = up BY <1>1 DEF Send
  <2>. QED BY <1>1, <2>1, ActsAlone
<1>3. tab'[t] = e BY <1>1, TabScreen
<1>4. up'[t] = IF tab[t].socket = 0 THEN up[t] ELSE Append(up[t], m)
  <2>. HIDE DEF m
  <2>. QED BY <1>1, SendOne
<1>5. /\ e.socket = tab[t].socket /\ e.sockets = tab[t].sockets /\ e.connected = tab[t].connected
      /\ e.room = tab[t].room /\ e.asked = tab[t].asked + 1 /\ e.lost = tab[t].lost
      /\ e.blind = tab[t].blind
      /\ e.lobby = IF type = "create" THEN intent ELSE tab[t].lobby
      /\ e.waiting = Superseded(tab[t], type)
                       \cup {[n |-> n, type |-> type, intent |-> intent, stale |-> FALSE]}
  BY TabScreen DEF ScreenOK, Screen
<1>. HIDE DEF e
<1>. QED BY <1>1, <1>2, <1>3, <1>4, <1>5
\* A host manages its room.
LEMMA ManageTab ==
  ASSUME Inv, NEW t \in Tab, Manage(t)
  PROVE  /\ Alone(t) /\ UNCHANGED <<tab, down>>
         /\ \E x : /\ x.n = 0 /\ x.type \in {"remove", "access"}
                   /\ up'[t] = IF tab[t].socket = 0 THEN up[t] ELSE Append(up[t], x)
<1>1. UNCHANGED <<session, rooms, work, down, tab, withdrawn>> BY DEF Manage
<1>2. \E x : x.n = 0 /\ x.type \in {"remove", "access"} /\ Send(t, <<x>>)
  <2>. DEFINE r == tab[t].room.id
  <2>1. CASE \E u \in Tab \ {t} :
             rooms[r].seat[u] # 0 /\ Send(t, <<Command("remove", 0, rooms[r].seat[u], r, 0)>>)
    <3>1. PICK u \in Tab \ {t} : Send(t, <<Command("remove", 0, rooms[r].seat[u], r, 0)>>) BY <2>1
    <3>. DEFINE x == Command("remove", 0, rooms[r].seat[u], r, 0)
    <3>2. x.n = 0 /\ x.type \in {"remove", "access"} BY DEF Command
    <3>. HIDE DEF x
    <3>. QED BY <3>1, <3>2 DEF x
  <2>2. CASE \E password \in {0, rooms[r].access + 2} :
                Send(t, <<Command("access", 0, rooms[r].access, r, password)>>)
    <3>1. PICK password \in {0, rooms[r].access + 2} :
                Send(t, <<Command("access", 0, rooms[r].access, r, password)>>)
      BY <2>2
    <3>. DEFINE x == Command("access", 0, rooms[r].access, r, password)
    <3>2. x.n = 0 /\ x.type \in {"remove", "access"} BY DEF Command
    <3>. HIDE DEF x
    <3>. QED BY <3>1, <3>2 DEF x
  <2>. QED BY <2>1, <2>2 DEF Manage
<1>3. PICK x : x.n = 0 /\ x.type \in {"remove", "access"} /\ Send(t, <<x>>) BY <1>2
<1>5. \E u : up' = [up EXCEPT ![t] = u] \/ up' = up BY <1>3 DEF Send
<1>6. Alone(t) BY <1>1, <1>5, ActsAlone
<1>. QED BY <1>1, <1>3, SendOne, <1>6

Marked(c) == {[w EXCEPT !.stale = w.stale \/ w.type \in {"join", "create"}] : w \in c.waiting}

\* The attempts under way are withdrawn.
LEMMA WithdrawTab ==
  ASSUME Inv, NEW t \in Tab, WithdrawAttempt(t)
  PROVE  LET c == tab[t] e == tab'[t]
             u == IF c.lobby = 0 THEN up[t]
                  ELSE Append(up[t], Command("cancelCreate", 0, c.lobby, 0, 0))
         IN
         /\ Alone(t)
         /\ up'[t] = IF c.socket = 0 THEN up[t]
                     ELSE IF c.joining = 0 THEN u
                     ELSE Append(u, Command("leave", 0, c.joining, 0, 0))
         /\ UNCHANGED down
         /\ e.socket = c.socket /\ e.sockets = c.sockets /\ e.connected = c.connected
         /\ e.room = c.room /\ e.asked = c.asked /\ e.lost = c.lost /\ e.blind = c.blind
         /\ e.lobby = 0 /\ e.waiting = Marked(c)
<1>. DEFINE c == tab[t]
            e == [tab[t] EXCEPT !.joining = 0, !.lobby = 0, !.busy = FALSE, !.waiting = Marked(tab[t])]
            a == Command("cancelCreate", 0, tab[t].lobby, 0, 0)
            b == Command("leave", 0, tab[t].joining, 0, 0)
            x == IF tab[t].lobby = 0 THEN <<>> ELSE <<a>>
            y == IF tab[t].joining = 0 THEN <<>> ELSE <<b>>
            u == IF tab[t].lobby = 0 THEN up[t] ELSE Append(up[t], a)
<1>1. /\ tab' = [tab EXCEPT ![t] = e] /\ Send(t, x \o y)
      /\ UNCHANGED <<session, rooms, work, down, withdrawn>>
  BY TabScreen DEF WithdrawAttempt, ScreenOK, Screen, Marked
<1>2. tab'[t] = e BY <1>1, TabScreen
<1>3. /\ e.socket = c.socket /\ e.sockets = c.sockets /\ e.connected = c.connected
      /\ e.room = c.room /\ e.asked = c.asked /\ e.lost = c.lost /\ e.blind = c.blind
      /\ e.lobby = 0 /\ e.waiting = Marked(c)
  BY TabScreen DEF ScreenOK, Screen
<1>. HIDE DEF e, a, b
<1>4. up'[t] = IF tab[t].socket = 0 THEN up[t] ELSE up[t] \o (x \o y) BY <1>1, TabScreen DEF Send
<1>5. up[t] \o (x \o y) = IF tab[t].joining = 0 THEN u ELSE Append(u, b)
  <2>1. IsSeq(up[t]) /\ IsSeq(<<a>>) /\ IsSeq(<<b>>) /\ IsSeq(<<>>)
    BY OneIsSeq, NothingIsSeq DEF Inv, Sides
  <2>2. CASE tab[t].lobby = 0 /\ tab[t].joining = 0 BY <2>1, <2>2, ConcatNothing
  <2>3. CASE tab[t].lobby = 0 /\ tab[t].joining # 0 BY <2>1, <2>3, ConcatNothing, ConcatOne
  <2>4. CASE tab[t].lobby # 0 /\ tab[t].joining = 0 BY <2>1, <2>4, ConcatNothing, ConcatOne
  <2>5. CASE tab[t].lobby # 0 /\ tab[t].joining # 0 BY <2>1, <2>5, ConcatTwo
  <2>. QED BY <2>2, <2>3, <2>4, <2>5
<1>6. Alone(t) BY <1>1, ActsAlone DEF Send
<1>. QED BY <1>1, <1>2, <1>3, <1>4, <1>5, <1>6 DEF a, b

\* A request is given up.
LEMMA TimeoutTab ==
  ASSUME Inv, NEW t \in Tab, Timeout(t)
  PROVE  LET c == tab[t] e == tab'[t] IN
         /\ Alone(t) /\ UNCHANGED <<up, down>>
         /\ e.socket = c.socket /\ e.sockets = c.sockets /\ e.connected = c.connected
         /\ e.room = c.room /\ e.asked = c.asked /\ e.blind = c.blind /\ e.lobby = c.lobby
         /\ \E w \in c.waiting : /\ e.waiting = c.waiting \ {w}
                                 /\ e.lost = IF w.type \in Entering THEN c.lost \cup {w} ELSE c.lost
<1>1. PICK w \in tab[t].waiting : tab' = [tab EXCEPT ![t] = GivenUp(tab[t], w)] BY DEF Timeout
<1>2. UNCHANGED <<session, rooms, work, up, down, withdrawn>> BY DEF Timeout
<1>. DEFINE c == tab[t]
            f == [c EXCEPT !.busy = c.busy /\ w.stale,
                           !.joining = IF c.joining = w.intent /\ w.type = "join" THEN 0 ELSE c.joining]
            e == [f EXCEPT !.waiting = f.waiting \ {w},
                           !.lost = IF w.type \in Entering THEN f.lost \cup {w} ELSE f.lost]
<1>3. GivenUp(c, w) = e BY TabScreen DEF GivenUp, Fail, ScreenOK, Screen
<1>4. /\ Screen \subseteq DOMAIN f
      /\ f.socket = c.socket /\ f.sockets = c.sockets /\ f.connected = c.connected
      /\ f.room = c.room /\ f.asked = c.asked /\ f.blind = c.blind /\ f.lobby = c.lobby
      /\ f.waiting = c.waiting /\ f.lost = c.lost
  BY TabScreen DEF ScreenOK, Screen
<1>. HIDE DEF f
<1>5. /\ e.socket = c.socket /\ e.sockets = c.sockets /\ e.connected = c.connected
      /\ e.room = c.room /\ e.asked = c.asked /\ e.blind = c.blind /\ e.lobby = c.lobby
      /\ e.waiting = c.waiting \ {w}
      /\ e.lost = IF w.type \in Entering THEN c.lost \cup {w} ELSE c.lost
  BY <1>4 DEF Screen
<1>6. tab'[t] = e BY <1>1, <1>3, TabScreen
<1>. HIDE DEF e
<1>7. Alone(t) BY <1>1, <1>2, ActsAlone
<1>. QED BY <1>2, <1>5, <1>6, <1>7

-----------------------------------------------------------------------------
(* What a tab makes of a message.                                          *)

Keeps(c, e) == e.socket = c.socket /\ e.sockets = c.sockets /\ e.asked = c.asked
Goal(x) == IF x.type = "join" THEN "leave" ELSE "cancelCreate"

\* The end of a membership.
TakesEnd(c, e, u, v, m) ==
  /\ m.type = "ended" /\ v = u /\ Keeps(c, e)
  /\ (e.connected <=> c.connected) /\ e.waiting = c.waiting /\ e.lost = c.lost /\ e.lobby = c.lobby
  /\ \/ /\ m.reason = "creation_cancelled"
        /\ e.room = c.room /\ (e.blind <=> c.blind \/ c.room.id # 0)
     \/ /\ m.reason # "creation_cancelled" /\ c.room.id = 0
        /\ e.room = c.room /\ (e.blind <=> c.blind)
     \/ m.reason # "creation_cancelled" /\ e.room = Nowhere /\ ~e.blind

\* The reply to hello.
TakesGreeting(c, e, u, v, m) ==
  /\ Greets(m) /\ e.lobby = c.lobby /\ e.asked = c.asked /\ e.sockets = c.sockets /\ ~e.blind
  /\ \/ /\ m.code = "ok" /\ v = u /\ e.socket = c.socket /\ e.connected
        /\ e.waiting = c.waiting /\ e.lost = {} /\ e.room = Shown(m.room, m.intent, m.host)
     \/ /\ m.code # "ok" /\ v = <<>> /\ e.socket = 0 /\ ~e.connected
        /\ e.waiting = {} /\ e.lost = c.lost /\ e.room = Nowhere

\* The reply to a request; one nobody waits for is dropped.
TakesReply(c, e, u, v, m) ==
  /\ m.type = "result" /\ Keeps(c, e) /\ (e.connected <=> c.connected)
  /\ \/ /\ \A w \in c.waiting : w.n # m.n
        /\ m.n # 1 /\ v = u /\ e.waiting = c.waiting /\ e.lost = c.lost /\ e.lobby = c.lobby
        /\ e.room = c.room /\ (e.blind <=> c.blind)
     \/ \E w \in c.waiting :
          /\ w.n = m.n /\ e.waiting = c.waiting \ {w}
          /\ \/ /\ w.type \in Entering /\ m.code = "ok" /\ w.stale
                /\ v = IF c.socket = 0 THEN u ELSE Append(u, Command(Goal(w), 0, w.intent, 0, 0))
                /\ e.room = c.room /\ (e.blind <=> c.blind) /\ e.lost = c.lost /\ e.lobby = c.lobby
             \/ /\ w.type \in Entering /\ m.code = "ok" /\ ~w.stale
                /\ v = u /\ e.room = Shown(m.room, m.intent, m.host) /\ ~e.blind
                /\ e.lobby = IF w.type = "create" THEN 0 ELSE c.lobby
                /\ e.lost = IF w.type = "create" THEN {y \in c.lost : Outlives(y, w)} ELSE c.lost
             \/ /\ w.type \notin Entering /\ m.code = "ok"
                /\ v = u /\ e.room = Nowhere /\ ~e.blind /\ e.lost = c.lost /\ e.lobby = c.lobby
             \/ /\ m.code # "ok"
                /\ v = u /\ e.room = c.room /\ (e.blind <=> c.blind) /\ e.lost = c.lost
                /\ e.lobby = c.lobby

\* The parts of a screen that the end of an attempt leaves alone.
LEMMA FailLeaves ==
  ASSUME NEW c, ScreenOK(c), NEW w
  PROVE  LET e == Fail(c, w) IN
         /\ Keeps(c, e) /\ e.connected = c.connected /\ e.waiting = c.waiting /\ e.lost = c.lost
         /\ e.lobby = c.lobby /\ e.room = c.room /\ e.blind = c.blind /\ ScreenOK(e)
BY DEF ScreenOK, Screen, Fail, Keeps

\* Showing a room changes the room shown, and that its end was not noticed.
LEMMA SetRoomLeaves ==
  ASSUME NEW c, ScreenOK(c), NEW shown
  PROVE  LET e == SetRoom(c, shown) IN
         /\ Keeps(c, e) /\ e.connected = c.connected /\ e.waiting = c.waiting /\ e.lost = c.lost
         /\ e.lobby = c.lobby /\ e.room = shown /\ e.blind = FALSE /\ ScreenOK(e)
BY DEF ScreenOK, Screen, SetRoom, Keeps

\* What is told of the end of a membership.
LEMMA ToldTakes ==
  ASSUME NEW c, ScreenOK(c), NEW m, m.type = "ended", NEW u
  PROVE  TakesEnd(c, Told(c, m), u, u, m)
<1>. DEFINE s == SetRoom(c, Nowhere)
            x == [s EXCEPT !.busy = FALSE]
            y == [c EXCEPT !.blind = c.blind \/ c.room.id # 0]
<1>1. /\ Keeps(c, s) /\ s.connected = c.connected /\ s.waiting = c.waiting /\ s.lost = c.lost
      /\ s.lobby = c.lobby /\ s.room = Nowhere /\ s.blind = FALSE /\ ScreenOK(s)
  BY SetRoomLeaves
<1>. HIDE DEF s
<1>2. /\ Keeps(c, x) /\ x.connected = c.connected /\ x.waiting = c.waiting /\ x.lost = c.lost
      /\ x.lobby = c.lobby /\ x.room = Nowhere /\ x.blind = FALSE
  BY <1>1 DEF Keeps, ScreenOK, Screen
<1>3. /\ Keeps(c, y) /\ y.connected = c.connected /\ y.waiting = c.waiting /\ y.lost = c.lost
      /\ y.lobby = c.lobby /\ y.room = c.room /\ (y.blind <=> c.blind \/ c.room.id # 0)
  BY DEF Keeps, ScreenOK, Screen
<1>4. Told(c, m) = IF m.reason = "creation_cancelled" THEN y
                   ELSE IF c.room.id = 0 /\ c.lobby = 0 THEN c ELSE x
  BY DEF Told, s
<1>. HIDE DEF x, y
<1>5. CASE m.reason = "creation_cancelled" BY <1>4, <1>5, <1>3 DEF TakesEnd
<1>6. CASE m.reason # "creation_cancelled" /\ (c.room.id = 0 /\ c.lobby = 0)
  BY <1>4, <1>6 DEF TakesEnd, Keeps
<1>7. CASE m.reason # "creation_cancelled" /\ ~(c.room.id = 0 /\ c.lobby = 0)
  BY <1>4, <1>7, <1>2 DEF TakesEnd
<1>. QED BY <1>5, <1>6, <1>7

\* The reply to a request, whether it is still wanted or not.
LEMMA RepliedTakes ==
  ASSUME Inv, NEW t \in Tab, NEW m, m.type = "result", Replied(t, m)
  PROVE  TakesReply(tab[t], tab'[t], up[t], up'[t], m)
         /\ (\E e : tab' = [tab EXCEPT ![t] = e]) /\ (\E u : up' = [up EXCEPT ![t] = u] \/ up' = up)
<1>. DEFINE c == tab[t]
            b(w) == [c EXCEPT !.waiting = c.waiting \ {w}]
            f(w) == Fail(b(w), w)
            won(w) == w.type \in Entering /\ m.code = "ok"
            s(w) == SetRoom(f(w), Shown(m.room, m.intent, m.host))
            e(w) == [s(w) EXCEPT !.lobby = IF w.type = "create" THEN 0 ELSE s(w).lobby,
                        !.lost = IF w.type = "create" THEN {v \in s(w).lost : Outlives(v, w)}
                                 ELSE s(w).lost]
<1>1. PICK w \in c.waiting :
        /\ w.n = m.n
        /\ IF won(w) /\ w.stale
           THEN /\ tab' = [tab EXCEPT ![t] = f(w)]
                /\ Send(t, <<Command(Goal(w), 0, w.intent, 0, 0)>>)
           ELSE /\ UNCHANGED up
                /\ tab' = [tab EXCEPT ![t] = IF won(w) THEN e(w)
                                             ELSE IF m.code = "ok" THEN SetRoom(b(w), Nowhere)
                                             ELSE f(w)]
  BY DEF Replied, Goal
<1>. DEFINE x == b(w)
            y == f(w)
            z == s(w)
            v == e(w)
            n == SetRoom(x, Nowhere)
            a == Command(Goal(w), 0, w.intent, 0, 0)
<1>2. /\ Keeps(c, x) /\ x.connected = c.connected /\ x.waiting = c.waiting \ {w} /\ x.lost = c.lost
      /\ x.lobby = c.lobby /\ x.room = c.room /\ x.blind = c.blind /\ ScreenOK(x)
  BY TabScreen DEF ScreenOK, Screen, Keeps
<1>3. \/ tab' = [tab EXCEPT ![t] = y] /\ Send(t, <<a>>) /\ won(w) /\ w.stale
      \/ tab' = [tab EXCEPT ![t] = y] /\ UNCHANGED up /\ m.code # "ok"
      \/ tab' = [tab EXCEPT ![t] = v] /\ UNCHANGED up /\ won(w) /\ ~w.stale
      \/ tab' = [tab EXCEPT ![t] = n] /\ UNCHANGED up /\ w.type \notin Entering /\ m.code = "ok"
  BY <1>1
<1>. HIDE DEF b, x, a
<1>4. /\ Keeps(x, y) /\ y.connected = x.connected /\ y.waiting = x.waiting /\ y.lost = x.lost
      /\ y.lobby = x.lobby /\ y.room = x.room /\ y.blind = x.blind /\ ScreenOK(y)
  BY <1>2, FailLeaves DEF x
<1>5. /\ Keeps(x, n) /\ n.connected = x.connected /\ n.waiting = x.waiting /\ n.lost = x.lost
      /\ n.lobby = x.lobby /\ n.room = Nowhere /\ n.blind = FALSE
  <2>1. ScreenOK(x) BY <1>2
  <2>. HIDE DEF c
  <2>. QED BY <2>1, SetRoomLeaves
<1>. HIDE DEF f, y, n
<1>6. /\ Keeps(y, z) /\ z.connected = y.connected /\ z.waiting = y.waiting /\ z.lost = y.lost
      /\ z.lobby = y.lobby /\ z.room = Shown(m.room, m.intent, m.host) /\ z.blind = FALSE
      /\ ScreenOK(z)
  BY <1>4, SetRoomLeaves DEF y
<1>. HIDE DEF s
<1>7. /\ Keeps(z, v) /\ v.connected = z.connected /\ v.waiting = z.waiting
      /\ v.lost = IF w.type = "create" THEN {g \in z.lost : Outlives(g, w)} ELSE z.lost
      /\ v.lobby = IF w.type = "create" THEN 0 ELSE z.lobby
      /\ v.room = z.room /\ v.blind = z.blind
  BY <1>6 DEF ScreenOK, Screen, Keeps
<1>. HIDE DEF e, v, z
<1>8. CASE tab' = [tab EXCEPT ![t] = y] /\ Send(t, <<a>>) /\ won(w) /\ w.stale
  BY <1>8, SendOne, TabScreen, <1>1, <1>2, <1>4 DEF Send, TakesReply, Keeps, a
<1>9. CASE tab' = [tab EXCEPT ![t] = y] /\ UNCHANGED up /\ m.code # "ok"
  BY <1>9, TabScreen, <1>1, <1>2, <1>4 DEF TakesReply, Keeps
<1>10. CASE tab' = [tab EXCEPT ![t] = v] /\ UNCHANGED up /\ won(w) /\ ~w.stale
  <2>1. tab'[t] = v /\ up'[t] = up[t] BY <1>10, TabScreen
  <2>2. Keeps(c, v) /\ v.connected = c.connected /\ v.waiting = c.waiting \ {w} /\ v.blind = FALSE
    BY <1>2, <1>4, <1>6, <1>7 DEF Keeps
  <2>3. /\ v.lost = IF w.type = "create" THEN {g \in c.lost : Outlives(g, w)} ELSE c.lost
        /\ v.lobby = IF w.type = "create" THEN 0 ELSE c.lobby
        /\ v.room = Shown(m.room, m.intent, m.host)
    BY <1>2, <1>4, <1>6, <1>7
  <2>4. TakesReply(c, v, up[t], up[t], m)
    <3>1. w.n = m.n /\ w \in c.waiting BY <1>1
    <3>. HIDE DEF c
    <3>. QED BY <3>1, <1>10, <2>2, <2>3 DEF TakesReply
  <2>. QED BY <1>10, <2>1, <2>4
<1>11. CASE tab' = [tab EXCEPT ![t] = n] /\ UNCHANGED up /\ w.type \notin Entering /\ m.code = "ok"
  BY <1>11, TabScreen, <1>1, <1>2, <1>5 DEF TakesReply, Keeps
<1>. QED BY <1>3, <1>8, <1>9, <1>10, <1>11

\* The reply to hello: the room the coordinator names, or a closed socket.
LEMMA GreetedTakes ==
  ASSUME Inv, NEW t \in Tab, NEW m, Greets(m), Greeted(t, m)
  PROVE  TakesGreeting(tab[t], tab'[t], up[t], up'[t], m)
         /\ (\E e : tab' = [tab EXCEPT ![t] = e]) /\ (\E u : up' = [up EXCEPT ![t] = u] \/ up' = up)
<1>. DEFINE c == tab[t]
            s == SetRoom(c, Shown(m.room, m.intent, m.host))
            y == [s EXCEPT !.connected = TRUE, !.token = session[t].token, !.lost = {}]
            d == Dropped(c)
            z == SetRoom(d, Nowhere)
            x == [z EXCEPT !.token = 0]
<1>1. ScreenOK(c) /\ DOMAIN tab = Tab /\ DOMAIN up = Tab BY TabScreen
<1>2. /\ Keeps(c, s) /\ s.waiting = c.waiting /\ s.lobby = c.lobby /\ s.blind = FALSE
      /\ s.room = Shown(m.room, m.intent, m.host) /\ ScreenOK(s)
  <2>. HIDE DEF c
  <2>. QED BY <1>1, SetRoomLeaves
<1>3. /\ d.socket = 0 /\ d.sockets = c.sockets /\ d.asked = c.asked /\ d.connected = FALSE
      /\ d.waiting = {} /\ d.lost = c.lost /\ d.lobby = c.lobby /\ ScreenOK(d)
  BY <1>1 DEF Dropped, ScreenOK, Screen
<1>. HIDE DEF s, d
<1>4. /\ z.socket = 0 /\ z.sockets = c.sockets /\ z.asked = c.asked /\ z.connected = FALSE
      /\ z.waiting = {} /\ z.lost = c.lost /\ z.lobby = c.lobby /\ z.room = Nowhere
      /\ z.blind = FALSE /\ ScreenOK(z)
  <2>. HIDE DEF c
  <2>1. /\ Keeps(d, z) /\ z.connected = d.connected /\ z.waiting = d.waiting /\ z.lost = d.lost
        /\ z.lobby = d.lobby /\ z.room = Nowhere /\ z.blind = FALSE /\ ScreenOK(z)
    BY <1>3, SetRoomLeaves
  <2>. QED BY <1>3, <2>1 DEF Keeps
<1>5. /\ y.socket = s.socket /\ y.sockets = s.sockets /\ y.asked = s.asked /\ y.connected = TRUE
      /\ y.waiting = s.waiting /\ y.lost = {} /\ y.lobby = s.lobby /\ y.room = s.room
      /\ y.blind = s.blind
  BY <1>2 DEF ScreenOK, Screen
<1>. HIDE DEF z
<1>6. /\ x.socket = z.socket /\ x.sockets = z.sockets /\ x.asked = z.asked
      /\ x.connected = z.connected /\ x.waiting = z.waiting /\ x.lost = z.lost
      /\ x.lobby = z.lobby /\ x.room = z.room /\ x.blind = z.blind
  BY <1>4 DEF ScreenOK, Screen
<1>7. \/ m.code = "ok" /\ tab' = [tab EXCEPT ![t] = y] /\ UNCHANGED up
      \/ m.code # "ok" /\ tab' = [tab EXCEPT ![t] = x] /\ up' = [up EXCEPT ![t] = <<>>]
  BY DEF Greeted, Forgotten, s, z, d
<1>. HIDE DEF c, x, y
<1>8. CASE m.code = "ok" /\ tab' = [tab EXCEPT ![t] = y] /\ UNCHANGED up
  BY <1>2, <1>5, <1>8, <1>1 DEF TakesGreeting, Keeps, c
<1>9. CASE m.code # "ok" /\ tab' = [tab EXCEPT ![t] = x] /\ up' = [up EXCEPT ![t] = <<>>]
  BY <1>4, <1>6, <1>9, <1>1 DEF TakesGreeting, Keeps, c
<1>. QED BY <1>7, <1>8, <1>9

\* A tab takes the next message, and nobody else notices.
LEMMA ReceiveTab ==
  ASSUME Inv, NEW t \in Tab, Receive(t)
  PROVE  LET m == down[t][1] IN
         /\ Alone(t) /\ down[t] # <<>> /\ 1 \in DOMAIN down[t]
         /\ down'[t] = Tail(down[t]) /\ Rest(down[t], down'[t])
         /\ \/ TakesEnd(tab[t], tab'[t], up[t], up'[t], m)
            \/ TakesGreeting(tab[t], tab'[t], up[t], up'[t], m)
            \/ TakesReply(tab[t], tab'[t], up[t], up'[t], m)
<1>. DEFINE m == Head(down[t])
            one == /\ \E e : tab' = [tab EXCEPT ![t] = e] \/ tab' = tab
                   /\ \E u : up' = [up EXCEPT ![t] = u] \/ up' = up
            takes == \/ TakesEnd(tab[t], tab'[t], up[t], up'[t], m)
                     \/ TakesGreeting(tab[t], tab'[t], up[t], up'[t], m)
                     \/ TakesReply(tab[t], tab'[t], up[t], up'[t], m)
<1>1. /\ down[t] # <<>> /\ down' = [down EXCEPT ![t] = Tail(down[t])]
      /\ UNCHANGED <<session, rooms, work, restarts, withdrawn>>
      /\ \/ m.type = "ended" /\ Notified(t, m)
         \/ m.type = "result" /\ m.n = 1 /\ Greeted(t, m)
         \/ m.type = "result" /\ Replied(t, m)
         \/ /\ m.type = "result" /\ m.n # 1 /\ \A w \in tab[t].waiting : w.n # m.n
            /\ UNCHANGED <<tab, up>>
  BY DEF Receive
<1>2. IsSeq(down[t]) /\ ScreenOK(tab[t]) /\ DOMAIN tab = Tab /\ DOMAIN down = Tab
  BY TabScreen DEF Inv, Sides
<1>3. 1 \in DOMAIN down[t] /\ m = down[t][1] /\ Rest(down[t], Tail(down[t]))
  BY <1>1, <1>2, TailIsSeq, TailRest
<1>. HIDE DEF m
<1>8. one /\ takes
  <2>1. CASE m.type = "ended" /\ Notified(t, m) BY <2>1, <1>2, ToldTakes DEF Notified
  <2>2. CASE m.type = "result" /\ m.n = 1 /\ Greeted(t, m) BY <2>2, GreetedTakes DEF Greets
  <2>3. CASE m.type = "result" /\ Replied(t, m) BY <2>3, RepliedTakes
  <2>4. CASE /\ m.type = "result" /\ m.n # 1 /\ \A w \in tab[t].waiting : w.n # m.n
             /\ UNCHANGED <<tab, up>>
    BY <2>4 DEF TakesReply, Keeps
  <2>. QED BY <1>1, <2>1, <2>2, <2>3, <2>4
<1>9. Alone(t) BY <1>1, <1>8, ActsAlone
<1>10. down'[t] = Tail(down[t]) BY <1>1, <1>2
<1>. QED BY <1>1, <1>3, <1>8, <1>9, <1>10

-----------------------------------------------------------------------------
(* Which intents belong to creations and which to joins: no attempt that    *)
(* a tab withdraws as one was ever made as the other.                      *)

Made(c, u) ==
  ({c.lobby} \ {0}) \cup {w.intent : w \in {v \in c.waiting : v.type = "create"}}
  \cup {u[i].intent : i \in {j \in DOMAIN u : u[j].type \in {"create", "cancelCreate"}}}
Joined(t, u, q, s) ==
  {u[i].intent : i \in {j \in DOMAIN u : u[j].type = "join"}}
  \cup {q[i].command.intent : i \in {j \in DOMAIN q : q[j].tab = t /\ q[j].command.type = "join"}}
  \cup (IF s.id # 0 /\ ~s.host THEN {s.intent} ELSE {})
Kinds(t, c, u, d, q, s) ==
  /\ Made(c, u) \cup Joined(t, u, q, s) \subseteq 1..(c.asked + 1)
  /\ Made(c, u) \cap Joined(t, u, q, s) = {}
  /\ \A i \in DOMAIN u : u[i].type \in Withdraws => u[i].intent # 0
  /\ c.room.id # 0 => c.room.intent # 0
  /\ \A j \in DOMAIN d : d[j].type = "result" /\ d[j].room # 0 => d[j].intent # 0
  /\ \A w \in c.waiting : w.type = "join" => w.intent # 0
Kind(t) == Kinds(t, tab[t], up[t], down[t], work, Where(Now, t))

\* The intents of creations are these.
LEMMA MadeIs ==
  ASSUME NEW c, NEW u, NEW n
  PROVE  n \in Made(c, u) <=>
           \/ n = c.lobby /\ n # 0
           \/ \E w \in c.waiting : w.type = "create" /\ n = w.intent
           \/ \E i \in DOMAIN u : u[i].type \in {"create", "cancelCreate"} /\ n = u[i].intent
BY DEF Made

\* The intents of joins are these.
LEMMA JoinedIs ==
  ASSUME NEW t, NEW u, NEW q, NEW s, NEW n
  PROVE  n \in Joined(t, u, q, s) <=>
           \/ \E i \in DOMAIN u : u[i].type = "join" /\ n = u[i].intent
           \/ \E i \in DOMAIN q : q[i].tab = t /\ q[i].command.type = "join"
                                  /\ n = q[i].command.intent
           \/ s.id # 0 /\ ~s.host /\ n = s.intent
BY DEF Joined

\* What a tab may send without an attempt of its own.
Harmless(x, made) ==
  \/ x.type \notin {"create", "join", "cancelCreate"} /\ (x.type = "leave" => x.intent # 0)
  \/ x.type = "cancelCreate" /\ x.intent \in made

\* Without a new attempt the intents keep their kinds.
LEMMA KindsLess ==
  ASSUME NEW t, NEW c, NEW u, NEW d, NEW q, NEW s, Kinds(t, c, u, d, q, s),
         NEW e, NEW v, NEW f, NEW p, NEW r,
         c.asked \in Nat, e.asked \in Nat, c.asked <= e.asked, e.lobby \in {0, c.lobby},
         \A w \in e.waiting : w.type \in Entering =>
           \E y \in c.waiting : w.type = y.type /\ w.intent = y.intent,
         \A i \in DOMAIN v : (\E j \in DOMAIN u : v[i] = u[j]) \/ Harmless(v[i], Made(c, u)),
         \A i \in DOMAIN p : p[i].tab = t =>
           (\E j \in DOMAIN q : p[i] = q[j]) \/ (\E j \in DOMAIN u : p[i].command = u[j]),
         r = s \/ r.id = 0 \/ r.host \/ r.intent \in Joined(t, u, q, s),
         e.room.id # 0 => e.room.intent # 0,
         \A j \in DOMAIN f : f[j].type = "result" /\ f[j].room # 0 => f[j].intent # 0
  PROVE  Kinds(t, e, v, f, p, r)
<1>1. ASSUME NEW n \in Made(e, v) PROVE n \in Made(c, u) BY MadeIs DEF Entering, Harmless
<1>2. ASSUME NEW n \in Joined(t, v, p, r) PROVE n \in Joined(t, u, q, s) BY JoinedIs DEF Harmless
<1>3. 1..(c.asked + 1) \subseteq 1..(e.asked + 1) OBVIOUS
<1>5. Made(e, v) \cap Joined(t, v, p, r) = {} BY <1>1, <1>2 DEF Kinds
<1>6. \A i \in DOMAIN v : v[i].type \in Withdraws => v[i].intent # 0
  <2>. SUFFICES ASSUME NEW i \in DOMAIN v, v[i].type \in Withdraws PROVE v[i].intent # 0 OBVIOUS
  <2>1. CASE \E j \in DOMAIN u : v[i] = u[j] BY <2>1 DEF Kinds
  <2>2. CASE v[i].type = "cancelCreate" /\ v[i].intent \in Made(c, u) BY <2>2 DEF Kinds
  <2>. QED BY <2>1, <2>2 DEF Harmless, Withdraws
<1>7. \A w \in e.waiting : w.type = "join" => w.intent # 0 BY DEF Kinds, Entering
<1>. QED BY <1>1, <1>2, <1>3, <1>5, <1>6, <1>7 DEF Kinds

\* A tab opens a room, or enters one, by an attempt that is its own.
LEMMA KindsMore ==
  ASSUME NEW t, NEW c, NEW u, NEW d, NEW q, NEW s, Kinds(t, c, u, d, q, s), c.asked \in Nat,
         NEW e, NEW v, NEW x, NEW n, v = Append(u, x) \/ v = u, IsSeq(u),
         e.asked = c.asked + 1, e.room = c.room, x.intent = n, x.type \in Entering,
         \A w \in e.waiting : \/ \E y \in c.waiting : w.type = y.type /\ w.intent = y.intent
                              \/ w.type = x.type /\ w.intent = n,
         x.type = "create" => e.lobby = n /\ (n = c.asked + 2 \/ (n = c.lobby /\ n # 0)),
         x.type # "create" => e.lobby = c.lobby /\ n = c.asked + 2
  PROVE  Kinds(t, e, v, d, q, s)
<1>1. \A i \in DOMAIN v : (\E j \in DOMAIN u : v[i] = u[j]) \/ v[i] = x BY AppendIsSeq
<1>2. ASSUME NEW m \in Made(e, v) PROVE m \in Made(c, u) \/ (x.type = "create" /\ m = n)
  BY MadeIs, <1>1 DEF Entering
<1>3. ASSUME NEW m \in Joined(t, v, q, s) PROVE m \in Joined(t, u, q, s) \/ (x.type = "join" /\ m = n)
  BY <1>1, JoinedIs
<1>4. n = c.asked + 2 \/ (x.type = "create" /\ n \in Made(c, u)) BY MadeIs DEF Entering
<1>5. /\ n \in 1..(e.asked + 1) /\ 1..(c.asked + 1) \subseteq 1..(e.asked + 1)
      /\ c.asked + 2 \notin 1..(c.asked + 1) /\ n # 0
  BY <1>4 DEF Kinds
<1>7. Made(e, v) \cap Joined(t, v, q, s) = {} BY <1>2, <1>3, <1>4, <1>5 DEF Kinds, Entering
<1>8. \A i \in DOMAIN v : v[i].type \in Withdraws => v[i].intent # 0
  BY <1>1 DEF Kinds, Withdraws, Entering
<1>9. \A w \in e.waiting : w.type = "join" => w.intent # 0 BY <1>5 DEF Kinds
<1>. QED BY <1>2, <1>3, <1>5, <1>7, <1>8, <1>9 DEF Kinds

-----------------------------------------------------------------------------
(* Every step keeps the kinds apart.                                       *)

\* The kinds of a tab in the next state.
LEMMA KindThen ==
  ASSUME NEW t
  PROVE  Kind(t)' <=> Kinds(t, tab'[t], up'[t], down'[t], work', Where(Now', t))
BY DEF Kind

\* What others do to a tab.
LEMMA KindAside ==
  ASSUME Inv, NEW t \in Tab, Kind(t), Aside(t)
  PROVE  Kind(t)'
<1>. DEFINE c == tab[t]
            s == Where(Now, t)
            r == Where(Now', t)
<1>1. c.asked \in Nat /\ IsSeq(down[t]) BY DEF Inv, Sides
<1>2. tab'[t] = c /\ up'[t] = up[t] BY DEF Aside
<1>4. r = s \/ r.id = 0 BY DEF Aside, Stays, Goes, Nowhere, Shown
<1>5. \A j \in DOMAIN down'[t] : (\E i \in DOMAIN down[t] : down'[t][j] = down[t][i])
                                 \/ down'[t][j].type = "ended"
  <2>1. down'[t] = down[t] \/ \E reason : down'[t] = Append(down[t], Ended(reason))
    BY NowFields DEF Aside, Stays, Goes, Now
  <2>2. \A reason : Ended(reason).type = "ended" BY DEF Ended
  <2>. QED BY <1>1, <2>1, <2>2, AppendIsSeq
<1>6. /\ \A j \in DOMAIN down'[t] :
           down'[t][j].type = "result" /\ down'[t][j].room # 0 => down'[t][j].intent # 0
      /\ c.room.id # 0 => c.room.intent # 0
  BY <1>5 DEF Kind, Kinds
<1>7. Kinds(t, c, up[t], down[t], work, s) BY DEF Kind
<1>. HIDE DEF c, s, r
<1>8. Kinds(t, c, up[t], down'[t], work', r) BY <1>1, <1>4, <1>6, <1>7, KindsLess DEF Aside, Others
<1>. QED BY <1>2, <1>8, KindThen DEF c, r

\* What the handling of a command of its own does to a tab.
LEMMA KindDealt ==
  ASSUME Inv, Inv', NEW t \in Tab, Kind(t), NEW x, NEW applied, NEW code, NEW replies \in BOOLEAN,
         Dealt(t, x, applied, code, replies),
         x.type = "join" => x.intent \in Joined(t, up[t], work, Where(Now, t)),
         tab'[t] = tab[t], \A i \in DOMAIN up'[t] : \E j \in DOMAIN up[t] : up'[t][i] = up[t][j],
         \A i \in DOMAIN work' : work'[i].tab = t =>
           (\E j \in DOMAIN work : work'[i] = work[j])
           \/ (\E j \in DOMAIN up[t] : work'[i].command = up[t][j])
  PROVE  Kind(t)'
<1>. DEFINE c == tab[t]
            s == Where(Now, t)
            r == Where(Now', t)
            joined == Joined(t, up[t], work, s)
            m == Reply(x, code, r)
<1>1. c.asked \in Nat /\ IsSeq(down[t]) BY DEF Inv, Sides
<1>2. PICK e : /\ Moved(x, Hears(Now, t), s, r, down[t], e)
               /\ down'[t] = IF replies THEN Append(e, m) ELSE e
  BY DEF Dealt
<1>3. r = s \/ r.id = 0 \/ r.host \/ r.intent \in joined BY <1>2 DEF Moved, Entering, Nowhere, Shown
<1>4. r.id # 0 => r.intent # 0 BY WhereIs DEF Inv
<1>5. m.type = "result" /\ m.room = r.id /\ m.intent = r.intent BY DEF Reply
<1>. HIDE DEF m
<1>6. IsSeq(e) /\ \A j \in DOMAIN e : (\E i \in DOMAIN down[t] : e[j] = down[t][i])
                                      \/ e[j].type = "ended"
  <2>2. \A reason : Ended(reason).type = "ended" BY DEF Ended
  <2>3. CASE e = down[t] BY <1>1, <2>3
  <2>4. CASE \E reason : e = Append(down[t], Ended(reason))
    <3>1. PICK reason : e = Append(down[t], Ended(reason)) BY <2>4
    <3>. HIDE DEF s, r
    <3>. QED BY <1>1, <2>2, <3>1, AppendIsSeq
  <2>. QED BY <1>2, <2>3, <2>4 DEF Moved
<1>7. \A j \in DOMAIN down'[t] : (\E i \in DOMAIN e : down'[t][j] = e[i]) \/ down'[t][j] = m
  BY <1>2, <1>6, AppendIsSeq
<1>8. /\ \A j \in DOMAIN down'[t] :
           down'[t][j].type = "result" /\ down'[t][j].room # 0 => down'[t][j].intent # 0
      /\ c.room.id # 0 => c.room.intent # 0
  <2>1. c.room.id # 0 => c.room.intent # 0 BY DEF Kind, Kinds
  <2>2. ASSUME NEW j \in DOMAIN down'[t], down'[t][j].type = "result", down'[t][j].room # 0
        PROVE  down'[t][j].intent # 0
    BY <1>4, <1>5, <2>2, <1>6, <1>7 DEF Kind, Kinds
  <2>. QED BY <2>1, <2>2
<1>9. Kinds(t, c, up[t], down[t], work, s) BY DEF Kind
<1>. HIDE DEF c, s, r, joined
<1>10. Kinds(t, c, up'[t], down'[t], work', r) BY <1>1, <1>3, <1>8, <1>9, KindsLess DEF joined
<1>. QED BY <1>10, KindThen DEF c, r

\* A command handled at once, refused, or put off.
LEMMA KindHandle ==
  ASSUME Inv, Inv', Recorded, NEW t \in Tab, Kind(t), Handle(t)
  PROVE  Kind(t)'
<1>. DEFINE x == Head(up[t])
<1>1. /\ up[t] # <<>> /\ up' = [up EXCEPT ![t] = Tail(up[t])] /\ UNCHANGED <<tab, work>>
      /\ x = up[t][1] /\ 1 \in DOMAIN up[t]
      /\ \E applied \in BOOLEAN : \E code : Dealt(t, x, applied, code, x.n # 0)
  BY HandleDealt
<1>. HIDE DEF x
<1>2. \A i \in DOMAIN up'[t] : \E j \in DOMAIN up[t] : up'[t][i] = up[t][j] BY <1>1, TailMail
<1>3. x.type = "join" => x.intent \in Joined(t, up[t], work, Where(Now, t)) BY <1>1, JoinedIs
<1>. QED BY <1>1, <1>2, <1>3, KindDealt

\* Putting a command off keeps what its intent is for.
LEMMA KindDefer ==
  ASSUME Inv, Inv', Recorded, NEW t \in Tab, Kind(t), Defer(t)
  PROVE  Kind(t)'
<1>. DEFINE x == Head(up[t])
            b == x.n # 0 /\ tab[t].socket = session[t].socket
<1>1. /\ up[t] # <<>> /\ up' = [up EXCEPT ![t] = Tail(up[t])] /\ UNCHANGED tab
      /\ x = up[t][1] /\ 1 \in DOMAIN up[t]
      /\ \/ UNCHANGED work /\ \E code : Dealt(t, x, FALSE, code, b)
         \/ /\ UNCHANGED <<session, rooms, down>>
            /\ \E w : work' = Append(work, w) /\ w.tab = t /\ w.command = x
  BY DeferDealt
<1>. HIDE DEF x, b
<1>2. \A i \in DOMAIN up'[t] : \E j \in DOMAIN up[t] : up'[t][i] = up[t][j] BY <1>1, TailMail
<1>3. CASE UNCHANGED work /\ \E code : Dealt(t, x, FALSE, code, b)
  BY <1>1, JoinedIs, <1>2, <1>3, KindDealt DEF b
<1>4. CASE /\ UNCHANGED <<session, rooms, down>>
           /\ \E w : work' = Append(work, w) /\ w.tab = t /\ w.command = x
  <2>. DEFINE c == tab[t]
              s == Where(Now, t)
  <2>1. Where(Now', t) = s BY <1>4 DEF Now
  <2>2. \A i \in DOMAIN work' : (\E j \in DOMAIN work : work'[i] = work[j])
                                \/ (\E j \in DOMAIN up[t] : work'[i].command = up[t][j])
    BY <1>1, <1>4, KeptWork, AppendIsSeq
  <2>3. Kinds(t, c, up[t], down[t], work, s) /\ c.asked \in Nat
        /\ (c.room.id # 0 => c.room.intent # 0)
        /\ \A j \in DOMAIN down[t] :
             down[t][j].type = "result" /\ down[t][j].room # 0 => down[t][j].intent # 0
    BY DEF Kind, Kinds, Inv, Sides
  <2>. HIDE DEF c, s
  <2>4. Kinds(t, c, up'[t], down[t], work', s) BY <1>2, <2>2, <2>3, KindsLess
  <2>. QED BY <1>1, <1>4, <2>1, <2>4, KindThen DEF c
<1>. QED BY <1>1, <1>3, <1>4

\* The end of a derivation.
LEMMA KindDerived ==
  ASSUME Inv, Inv', Recorded, NEW i, Derived(i), NEW t \in Tab, t = work[i].tab, Kind(t)
  PROVE  Kind(t)'
<1>. DEFINE x == work[i].command
            b == x.n # 0 /\ tab[t].socket = work[i].socket
<1>1. /\ i \in DOMAIN work /\ UNCHANGED <<tab, up>> /\ Shortens(work, i, work')
      /\ \E applied \in BOOLEAN : \E code : Dealt(t, x, applied, code, b)
  BY DerivedDealt
<1>2. x.type = "join" => x.intent \in Joined(t, up[t], work, Where(Now, t)) BY <1>1, JoinedIs
<1>4. b \in BOOLEAN OBVIOUS
<1>5. PICK y : y = x OBVIOUS
<1>6. PICK z \in BOOLEAN : z = b BY <1>4
<1>. HIDE DEF x, b
<1>7. \E applied \in BOOLEAN : \E code : Dealt(t, y, applied, code, z) BY <1>1, <1>5, <1>6
<1>8. y.type = "join" => y.intent \in Joined(t, up[t], work, Where(Now, t)) BY <1>2, <1>5
<1>. QED BY <1>1, <1>7, <1>8, KindDealt DEF Shortens

\* A hello.
LEMMA KindAttach ==
  ASSUME Inv, Inv', Recorded, NEW t \in Tab, Kind(t), Attach(t)
  PROVE  Kind(t)'
<1>. DEFINE c == tab[t]
            s == Where(Now, t)
            x == Head(up[t])
<1>1. /\ up[t] # <<>> /\ up' = [up EXCEPT ![t] = Tail(up[t])] /\ UNCHANGED <<tab, work>>
      /\ Where(Now', t) = s
      /\ \E code : down'[t] = Append(down[t], Reply(x, code, s))
  BY AttachDealt
<1>2. \A i \in DOMAIN up'[t] : \E j \in DOMAIN up[t] : up'[t][i] = up[t][j] BY <1>1, TailMail
<1>3. Kinds(t, c, up[t], down[t], work, s) /\ c.asked \in Nat /\ IsSeq(down[t])
  BY DEF Kind, Inv, Sides
<1>4. PICK code : down'[t] = Append(down[t], Reply(x, code, s)) BY <1>1
<1>6. s.id # 0 => s.intent # 0 BY WhereIs DEF Inv
<1>. DEFINE m == Reply(x, code, s)
<1>. HIDE DEF c, s, x, m
<1>7. \A j \in DOMAIN down'[t] : (\E i \in DOMAIN down[t] : down'[t][j] = down[t][i])
                                 \/ down'[t][j] = m
  BY <1>3, <1>4, AppendIsSeq DEF m
<1>8. \A j \in DOMAIN down'[t] :
        down'[t][j].type = "result" /\ down'[t][j].room # 0 => down'[t][j].intent # 0
  BY <1>3, <1>6, <1>7 DEF Kinds, m, Reply
<1>9. c.room.id # 0 => c.room.intent # 0 BY <1>3 DEF Kinds
<1>10. Kinds(t, c, up'[t], down'[t], work, s) BY <1>2, <1>3, <1>8, <1>9, KindsLess
<1>. QED BY <1>1, <1>10, KindThen DEF c

\* A tab acts without a new attempt.
LEMMA KindAlone ==
  ASSUME Inv, NEW t \in Tab, Kind(t), Alone(t), tab'[t].asked \in {tab[t].asked, tab[t].asked + 1},
         tab'[t].lobby \in {0, tab[t].lobby},
         \A w \in tab'[t].waiting : w.type \in Entering =>
           \E y \in tab[t].waiting : w.type = y.type /\ w.intent = y.intent,
         \A i \in DOMAIN up'[t] : (\E j \in DOMAIN up[t] : up'[t][i] = up[t][j])
                                  \/ Harmless(up'[t][i], Made(tab[t], up[t])),
         \/ tab'[t].room = tab[t].room
         \/ tab'[t].room.id # 0 => tab'[t].room.intent # 0,
         \A j \in DOMAIN down'[t] : \E i \in DOMAIN down[t] : down'[t][j] = down[t][i]
  PROVE  Kind(t)'
<1>. DEFINE c == tab[t]
            e == tab'[t]
            s == Where(Now, t)
<1>1. Kinds(t, c, up[t], down[t], work, s) /\ c.asked \in Nat BY DEF Kind, Inv, Sides
<1>2. Where(Now', t) = s /\ work' = work BY DEF Alone
<1>3. \A j \in DOMAIN down'[t] :
        down'[t][j].type = "result" /\ down'[t][j].room # 0 => down'[t][j].intent # 0
  BY <1>1 DEF Kinds
<1>4. e.room.id # 0 => e.room.intent # 0 BY <1>1 DEF Kinds
<1>5. e.asked \in Nat /\ c.asked <= e.asked BY <1>1
<1>. HIDE DEF c, s, e
<1>6. Kinds(t, e, up'[t], down'[t], work, s) BY <1>1, <1>3, <1>4, <1>5, KindsLess DEF c, e
<1>. QED BY <1>2, <1>6, KindThen DEF e

\* A new socket keeps what every intent is for.
LEMMA KindConnect ==
  ASSUME Inv, NEW t \in Tab, Kind(t), Connect(t) \/ Break(t)
  PROVE  Kind(t)'
<1>1. /\ Alone(t) /\ tab'[t].asked = tab[t].asked /\ tab'[t].lobby = tab[t].lobby
      /\ tab'[t].waiting = {} /\ tab'[t].room = tab[t].room /\ down'[t] = <<>>
      /\ up'[t] = <<Command("hello", 1, 0, 0, 0)>> \/ up'[t] = <<>>
  BY ConnectTab, BreakTab
<1>3. DOMAIN down'[t] = {} BY <1>1, NothingIsSeq
<1>. QED BY <1>1, NothingIsSeq, OneIsSeq, <1>3, KindAlone DEF Harmless, Command

\* What a host asks for names no intent of its own.
LEMMA KindManage ==
  ASSUME Inv, NEW t \in Tab, Kind(t), Manage(t)
  PROVE  Kind(t)'
<1>1. PICK x : /\ x.type \in {"remove", "access"}
               /\ up'[t] = IF tab[t].socket = 0 THEN up[t] ELSE Append(up[t], x)
  BY ManageTab
<1>2. Alone(t) /\ UNCHANGED <<tab, down>> BY ManageTab
<1>3. \A i \in DOMAIN up'[t] : (\E j \in DOMAIN up[t] : up'[t][i] = up[t][j])
                               \/ Harmless(up'[t][i], Made(tab[t], up[t]))
  BY <1>1, AppendIsSeq DEF Inv, Sides, Harmless
<1>. QED BY <1>2, <1>3, KindAlone

\* A request that is given up keeps what its intent is for.
LEMMA KindTimeout ==
  ASSUME Inv, NEW t \in Tab, Kind(t), Timeout(t)
  PROVE  Kind(t)'
BY TimeoutTab, KindAlone

\* A tab withdraws: the intents it names are those of its attempts.
LEMMA KindWithdraw ==
  ASSUME Inv, NEW t \in Tab, Kind(t), WithdrawAttempt(t)
  PROVE  Kind(t)'
<1>. DEFINE c == tab[t]
            made == Made(c, up[t])
            a == Command("cancelCreate", 0, c.lobby, 0, 0)
            b == Command("leave", 0, c.joining, 0, 0)
            u == IF c.lobby = 0 THEN up[t] ELSE Append(up[t], a)
            v == IF c.socket = 0 THEN up[t] ELSE IF c.joining = 0 THEN u ELSE Append(u, b)
<1>1. /\ Alone(t) /\ UNCHANGED down /\ up'[t] = v
      /\ tab'[t].room = c.room /\ tab'[t].asked = c.asked /\ tab'[t].lobby = 0
      /\ tab'[t].waiting = Marked(c)
  BY WithdrawTab
<1>2. \A w \in Marked(c) : \E y \in c.waiting : w.type = y.type /\ w.intent = y.intent
  <2>1. \A y \in c.waiting : [y EXCEPT !.stale = y.stale \/ y.type \in {"join", "create"}].type = y.type
                  /\ [y EXCEPT !.stale = y.stale \/ y.type \in {"join", "create"}].intent = y.intent
    OBVIOUS
  <2>. QED BY <2>1 DEF Marked
<1>3. IsSeq(up[t]) BY DEF Inv, Sides
<1>4. c.lobby # 0 => Harmless(a, made) BY MadeIs DEF Harmless, Command
<1>5. c.joining # 0 => Harmless(b, made) BY DEF Harmless, Command
<1>. HIDE DEF a, b, made, c
<1>6. IsSeq(u) /\ \A i \in DOMAIN u : (\E j \in DOMAIN up[t] : u[i] = up[t][j]) \/ Harmless(u[i], made)
  BY <1>3, <1>4, AppendIsSeq
<1>. HIDE DEF u
<1>7. \A i \in DOMAIN v : (\E j \in DOMAIN up[t] : v[i] = up[t][j]) \/ Harmless(v[i], made)
  BY <1>3, <1>5, <1>6, AppendIsSeq
<1>. HIDE DEF v
<1>. QED BY <1>1, <1>2, <1>7, KindAlone DEF made, c

\* What an earlier join becomes under a later one is still that join.
LEMMA SupersededAre ==
  ASSUME NEW c, NEW type, NEW w \in Superseded(c, type)
  PROVE  \E y \in c.waiting : w.n = y.n /\ w.type = y.type /\ w.intent = y.intent
<1>1. PICK y \in c.waiting : w = [y EXCEPT !.stale = y.stale \/ (type = "join" /\ y.type = "join")]
  BY DEF Superseded
<1>. QED BY <1>1

\* A new attempt.
LEMMA KindAttempt ==
  ASSUME Inv, NEW t \in Tab, Kind(t), NEW type \in Entering, NEW n, NEW r, NEW password,
         Ask(t, type, n, r, password),
         IF type = "create" THEN n = tab[t].asked + 2 \/ (n = tab[t].lobby /\ n # 0)
         ELSE n = tab[t].asked + 2
  PROVE  Kind(t)'
<1>. DEFINE c == tab[t]
            e == tab'[t]
            s == Where(Now, t)
            x == Command(type, c.asked + 2, n, r, password)
            new == [n |-> c.asked + 2, type |-> type, intent |-> n, stale |-> FALSE]
<1>1. UNCHANGED withdrawn BY DEF Ask
<1>2. /\ Alone(t) /\ UNCHANGED down
      /\ up'[t] = IF c.socket = 0 THEN up[t] ELSE Append(up[t], x)
      /\ e.room = c.room /\ e.asked = c.asked + 1
      /\ e.lobby = IF type = "create" THEN n ELSE c.lobby
      /\ e.waiting = Superseded(c, type) \cup {new}
  BY <1>1, AskTab
<1>3. Kinds(t, c, up[t], down[t], work, s) /\ c.asked \in Nat /\ IsSeq(up[t])
  BY DEF Kind, Inv, Sides
<1>4. x.type = type /\ x.intent = n BY DEF Command
<1>5. new.type = type /\ new.intent = n OBVIOUS
<1>6. \A w \in e.waiting : \/ \E y \in c.waiting : w.type = y.type /\ w.intent = y.intent
                           \/ w.type = x.type /\ w.intent = n
  BY <1>2, <1>4, <1>5, SupersededAre
<1>7. Where(Now', t) = s /\ work' = work BY <1>2 DEF Alone
<1>8. /\ x.type = "create" => e.lobby = n /\ (n = c.asked + 2 \/ (n = c.lobby /\ n # 0))
      /\ x.type # "create" => e.lobby = c.lobby /\ n = c.asked + 2
  BY <1>2, <1>4
<1>9. (up'[t] = Append(up[t], x) \/ up'[t] = up[t]) /\ x.type \in Entering /\ x.intent = n
  BY <1>2, <1>4
<1>. HIDE DEF c, e, s, x, new
<1>10. e.asked = c.asked + 1 /\ e.room = c.room BY <1>2
<1>11. Kinds(t, e, up'[t], down[t], work, s) BY <1>3, <1>6, <1>8, <1>9, <1>10, KindsMore
<1>. QED BY <1>2, <1>7, <1>11, KindThen DEF e

\* A creation has an intent no join has had.
LEMMA KindCreate ==
  ASSUME Inv, NEW t \in Tab, Kind(t), Create(t) \/ Join(t)
  PROVE  Kind(t)'
<1>1. CASE Create(t)
  <2>. DEFINE n == IF tab[t].lobby # 0 THEN tab[t].lobby ELSE tab[t].asked + 2
  <2>1. Ask(t, "create", n, 0, 0) BY <1>1 DEF Create
  <2>2. n = tab[t].asked + 2 \/ (n = tab[t].lobby /\ n # 0) OBVIOUS
  <2>. HIDE DEF n
  <2>. QED BY <2>1, <2>2, KindAttempt DEF Entering
<1>2. CASE Join(t)
  <2>1. PICK r, password : Ask(t, "join", tab[t].asked + 2, r, password) BY <1>2 DEF Join
  <2>. QED BY <2>1, KindAttempt DEF Entering
<1>. QED BY <1>1, <1>2

\* Leaving names the intent the room was entered by.
LEMMA KindQuit ==
  ASSUME Inv, NEW t \in Tab, Kind(t), Quit(t)
  PROVE  Kind(t)'
<1>. DEFINE c == tab[t]
            e == tab'[t]
            s == Where(Now, t)
<1>1. PICK type, n :
        /\ type \in {"close", "leave"} /\ Ask(t, type, n, c.room.id, 0)
        /\ (type = "leave" => n # 0) /\ c.waiting = {}
  BY DEF Quit, Kind, Kinds
<1>. DEFINE x == Command(type, c.asked + 2, n, c.room.id, 0)
            new == [n |-> c.asked + 2, type |-> type, intent |-> n, stale |-> FALSE]
<1>2. UNCHANGED withdrawn BY <1>1 DEF Ask
<1>3. /\ Alone(t) /\ UNCHANGED down
      /\ up'[t] = IF c.socket = 0 THEN up[t] ELSE Append(up[t], x)
      /\ e.room = c.room /\ e.asked = c.asked + 1 /\ e.lobby = c.lobby
      /\ e.waiting = Superseded(c, type) \cup {new}
  BY <1>1, <1>2, AskTab
<1>5. Harmless(x, Made(c, up[t])) BY <1>1 DEF Command, Harmless
<1>6. new.type = type OBVIOUS
<1>7. Where(Now', t) = s /\ work' = work BY <1>3 DEF Alone
<1>. HIDE DEF c, e, s, x, new
<1>8. \A i \in DOMAIN up'[t] : (\E j \in DOMAIN up[t] : up'[t][i] = up[t][j])
                               \/ Harmless(up'[t][i], Made(c, up[t]))
  BY <1>3, <1>5, AppendIsSeq DEF Kind, Inv, Sides
<1>9. e.waiting = {new} BY <1>1, <1>3, SupersededAre
<1>10. new.type \notin Entering BY <1>1, <1>6 DEF Entering
<1>. QED BY <1>3, <1>8, <1>9, <1>10, KindAlone DEF c, e

\* A message: only the answer to an attempt that was withdrawn makes a tab send,
\* and what it sends names that attempt.
LEMMA KindReceive ==
  ASSUME Inv, NEW t \in Tab, Kind(t), Receive(t)
  PROVE  Kind(t)'
<1>. DEFINE c == tab[t]
            e == tab'[t]
            u == up[t]
            v == up'[t]
            m == down[t][1]
            made == Made(c, u)
            more == \A i \in DOMAIN v : (\E j \in DOMAIN u : v[i] = u[j]) \/ Harmless(v[i], made)
            part == /\ e.asked = c.asked /\ e.lobby \in {0, c.lobby} /\ e.waiting \subseteq c.waiting
                    /\ e.room = c.room \/ (e.room.id # 0 => e.room.intent # 0)
<1>1. /\ Alone(t) /\ 1 \in DOMAIN down[t] /\ Rest(down[t], down'[t])
      /\ TakesEnd(c, e, u, v, m) \/ TakesGreeting(c, e, u, v, m) \/ TakesReply(c, e, u, v, m)
  BY ReceiveTab
<1>2. \A j \in DOMAIN down'[t] : \E i \in DOMAIN down[t] : down'[t][j] = down[t][i] BY <1>1 DEF Rest
<1>3. /\ m.type = "result" /\ m.room # 0 => m.intent # 0
      /\ \A w \in c.waiting : w.type = "join" => w.intent # 0
      /\ IsSeq(u)
  BY <1>1 DEF Kind, Kinds, Inv, Sides
<1>4. \A w \in c.waiting : w.type = "create" => w.intent \in made BY MadeIs
<1>5. Nowhere.id = 0 /\ Shown(m.room, m.intent, m.host).id = m.room
      /\ Shown(m.room, m.intent, m.host).intent = m.intent
  BY DEF Nowhere, Shown
<1>. HIDE DEF c, e, u, v, m, made
<1>6. CASE TakesEnd(c, e, u, v, m)
  BY <1>5, <1>6, <1>1, <1>2, KindAlone DEF TakesEnd, Keeps, c, e, u, v, made
<1>7. CASE TakesGreeting(c, e, u, v, m)
  BY <1>3, <1>5, <1>7, NothingIsSeq, <1>1, <1>2, KindAlone DEF TakesGreeting, Greets, c, e, u, v,
     made
<1>8. CASE TakesReply(c, e, u, v, m)
  <2>1. part BY <1>8, <1>3, <1>5 DEF TakesReply, Keeps
  <2>2. \/ v = u
        \/ \E w \in c.waiting : /\ w.type \in Entering
                                /\ v = Append(u, Command(Goal(w), 0, w.intent, 0, 0))
    BY <1>8 DEF TakesReply
  <2>3. \A w \in c.waiting : w.type \in Entering => Harmless(Command(Goal(w), 0, w.intent, 0, 0), made)
    <3>. SUFFICES ASSUME NEW w \in c.waiting, w.type \in Entering
                  PROVE  Harmless(Command(Goal(w), 0, w.intent, 0, 0), made)
      OBVIOUS
    <3>. QED BY <1>3, <1>4 DEF Harmless, Goal, Entering, Command
  <2>4. more BY <1>3, <2>2, <2>3, AppendIsSeq
  <2>. QED BY <1>1, <1>2, <2>1, <2>4, KindAlone DEF c, e, u, v, made
<1>. QED BY <1>1, <1>6, <1>7, <1>8

\* A tab whose socket is closed as seen by the coordinator is where it was.
LEMMA KindDetach ==
  ASSUME Inv, NEW t \in Tab, Kind(t), Detach(t)
  PROVE  Kind(t)'
BY DetachAside, KindThen DEF Stays, Detach, Kind

\* Nothing is left of what the coordinator kept.
LEMMA KindRestart ==
  ASSUME Inv, NEW t \in Tab, Kind(t), Restart
  PROVE  Kind(t)'
<1>. DEFINE c == tab[t]
            e == tab'[t]
            s == Where(Now, t)
            r == Where(Now', t)
<1>1. e = Dropped(c) /\ work' = <<>> /\ up'[t] = <<>> /\ down'[t] = <<>> BY DEF Restart
<1>2. Kinds(t, c, up[t], down[t], work, s) /\ ScreenOK(c) BY TabScreen DEF Kind
<1>3. e.asked = c.asked /\ e.lobby = c.lobby /\ e.waiting = {} /\ e.room = c.room
  BY <1>1, <1>2 DEF Dropped, ScreenOK, Screen
<1>4. r.id = 0 BY DEF Restart, Nobody, Now, Where, Nowhere, Shown
<1>5. DOMAIN work' = {} /\ DOMAIN up'[t] = {} /\ DOMAIN down'[t] = {} BY <1>1, NothingIsSeq
<1>6. c.asked \in Nat /\ (c.room.id # 0 => c.room.intent # 0) BY <1>2 DEF ScreenOK, Kinds
<1>. HIDE DEF c, e, s, r
<1>7. Kinds(t, e, up'[t], down'[t], work', r) BY <1>2, <1>3, <1>4, <1>5, <1>6, KindsLess
<1>. QED BY <1>7, KindThen DEF e, r

\* A tab that acts does so alone.
LEMMA ActsAloneOf ==
  ASSUME Inv, NEW t \in Tab,
         \/ Connect(t) \/ Break(t) \/ Create(t) \/ Join(t) \/ Quit(t) \/ Manage(t)
         \/ WithdrawAttempt(t) \/ Timeout(t) \/ Receive(t)
  PROVE  Alone(t)
<1>1. CASE Create(t) \/ Join(t) \/ Quit(t)
  <2>1. PICK type, intent, r, password : Ask(t, type, intent, r, password)
    BY <1>1 DEF Create, Join, Quit
  <2>. QED BY <2>1, AskTab DEF Ask
<1>. QED BY <1>1, ConnectTab, BreakTab, ManageTab, WithdrawTab, TimeoutTab, ReceiveTab

\* No step makes a creation of a join, or a join of a creation.
LEMMA KindNext ==
  ASSUME Inv, Recorded, \A t \in Tab : Kind(t), [Next]_vars
  PROVE  \A t \in Tab : Kind(t)'
<1>1. Inv' BY NextInv
<1>2. ASSUME NEW t \in Tab,
             \/ Connect(t) \/ Break(t) \/ Create(t) \/ Join(t) \/ Quit(t) \/ Manage(t)
             \/ WithdrawAttempt(t) \/ Timeout(t) \/ Receive(t)
      PROVE  \A v \in Tab : Kind(v)'
  BY <1>2, KindConnect, KindCreate, KindQuit, KindManage, KindWithdraw, KindTimeout, KindReceive,
     ActsAloneOf, KindAside DEF Alone
<1>3. ASSUME NEW t \in Tab, Attach(t) \/ Detach(t) \/ Handle(t) \/ Defer(t)
      PROVE  \A v \in Tab : Kind(v)'
  <2>1. Kind(t)' BY <1>1, <1>3, KindAttach, KindDetach, KindHandle, KindDefer
  <2>2. \A v \in Tab \ {t} : Aside(v) BY <1>3, AttachDealt, DetachAside, HandleDealt, DeferDealt
  <2>. QED BY <2>1, <2>2, KindAside
<1>4. ASSUME NEW t \in Tab, Lapse(t) \/ Heartbeat(t) \/ Miss(t) PROVE \A v \in Tab : Kind(v)'
  BY <1>4, ClockAside, KindAside
<1>5. CASE (\E t \in Tab : Expire(t)) \/ Operator BY <1>5, OutAside, KindAside
<1>6. ASSUME NEW i, Derived(i) PROVE \A v \in Tab : Kind(v)'
  <2>1. work[i].tab \in Tab /\ \A v \in Tab \ {work[i].tab} : Aside(v) BY <1>6, DerivedDealt
  <2>2. PICK t \in Tab : t = work[i].tab BY <2>1
  <2>3. Kind(t)' BY <1>1, <1>6, <2>2, KindDerived
  <2>. QED BY <2>1, <2>2, <2>3, KindAside
<1>7. CASE Restart BY <1>7, KindRestart
<1>8. CASE UNCHANGED vars BY <1>8 DEF vars, Kind, Now
<1>. QED BY <1>2, <1>3, <1>4, <1>5, <1>6, <1>7, <1>8 DEF Next

-----------------------------------------------------------------------------
(* A session remembers what it was told to forget, while it can.           *)

Few(gone) == Cardinality(gone) < Tombstones
Lists(gone, cancelled) ==
  /\ IsFiniteSet(gone)
  /\ IsSeq(cancelled) /\ Len(cancelled) <= Cardinality(gone)
  /\ Few(gone) => \A x \in gone : \E i \in DOMAIN cancelled : cancelled[i] = x
Remembers(gone, cancelled, s) ==
  /\ 0 \notin gone /\ Lists(gone, cancelled)
  /\ Few(gone) /\ s.id # 0 => s.intent \notin gone
Memory(t) == Remembers(withdrawn[t], session[t].cancelled, Where(Now, t))

\* The memory of a session in the next state.
LEMMA MemoryThen ==
  ASSUME NEW t
  PROVE  Memory(t)' <=> Remembers(withdrawn'[t], session'[t].cancelled, Where(Now', t))
BY DEF Memory

\* Another withdrawn attempt is remembered, and the others are not forgotten
\* before there are too many of them.
LEMMA KeptRemembers ==
  ASSUME NEW gone, NEW old, Lists(gone, old), NEW x,
         NEW more, more = gone \cup {x}, NEW new, new = Kept(old, x)
  PROVE  Lists(more, new) /\ (Few(more) => Few(gone))
<1>0. /\ IsFiniteSet(gone) /\ IsSeq(old) /\ Len(old) <= Cardinality(gone)
      /\ Few(gone) => \A y \in gone : \E i \in DOMAIN old : old[i] = y
  BY DEF Lists
<1>. DEFINE kept == IF Len(old) >= Tombstones THEN Tail(old) ELSE old
            here == \E i \in DOMAIN kept : kept[i] = x
<1>1. /\ IsFiniteSet(more) /\ Cardinality(gone) \in Nat /\ Cardinality(more) \in Nat
      /\ Cardinality(more) = IF x \in gone THEN Cardinality(gone) ELSE Cardinality(gone) + 1
  BY <1>0, FS_AddElement, FS_CardinalityType
<1>2. Tombstones \in Nat \ {0} BY RoomEntryAssumption
<1>3. Len(old) \in Nat /\ (old = <<>> <=> Len(old) = 0) BY <1>0, SeqShape
<1>4. /\ IsSeq(kept) /\ Len(kept) = IF Len(old) >= Tombstones THEN Len(old) - 1 ELSE Len(old)
  BY <1>2, <1>3, <1>0, TailIsSeq, SeqShape
<1>5. new = IF here THEN kept ELSE Append(kept, x) BY DEF Kept
<1>6. Few(gone) => kept = old BY <1>0, <1>1, <1>2, <1>3 DEF Few
<1>. HIDE DEF kept
<1>7. /\ IsSeq(new) /\ Len(new) = IF here THEN Len(kept) ELSE Len(kept) + 1
      /\ \A i \in DOMAIN kept : i \in DOMAIN new /\ new[i] = kept[i]
      /\ \E i \in DOMAIN new : new[i] = x
  <2>1. CASE here BY <1>4, <1>5, <2>1
  <2>2. CASE ~here
    <3>1. new = Append(kept, x) BY <1>5, <2>2
    <3>. HIDE DEF here
    <3>. QED BY <2>2, <1>4, <3>1, AppendIsSeq
  <2>. QED BY <2>1, <2>2
<1>9. Len(new) <= Cardinality(more) BY <1>0, <1>6, <1>1, <1>7, <1>2, <1>3, <1>4 DEF Few
<1>. QED BY <1>1, <1>7, <1>2, <1>0, <1>6, <1>9 DEF Lists, Few

\* A tab that comes into a room does so by an attempt that is not withdrawn.
LEMMA MemoryStays ==
  ASSUME NEW gone, NEW cancelled, NEW s, NEW r, Remembers(gone, cancelled, s),
         \/ r = s \/ r.id = 0
         \/ ~\E i \in DOMAIN cancelled : cancelled[i] = r.intent
  PROVE  Remembers(gone, cancelled, r)
BY DEF Remembers, Lists

\* What others do to a tab.
LEMMA MemoryAside ==
  ASSUME NEW t \in Tab, Memory(t), Aside(t)
  PROVE  Memory(t)'
BY MemoryThen, MemoryStays DEF Aside, Stays, Goes, Nowhere, Shown, Memory

\* A command that is refused, or names no withdrawn attempt.
LEMMA MemoryDealt ==
  ASSUME Inv, NEW t \in Tab, Memory(t), NEW x, NEW applied, NEW code, NEW replies,
         Dealt(t, x, applied, code, replies), ~(applied /\ x.type \in Withdraws),
         withdrawn'[t] = withdrawn[t]
  PROVE  Memory(t)'
<1>. DEFINE s == Where(Now, t)
            r == Where(Now', t)
            cancelled == session[t].cancelled
<1>1. /\ session'[t].cancelled = cancelled
      /\ s.id = 0 /\ r.id # 0 => ~Cancelled(Now, t, x.intent)
  BY DEF Dealt
<1>3. \/ r = s \/ r.id = 0
      \/ ~\E i \in DOMAIN cancelled : cancelled[i] = r.intent
  BY <1>1, NowFields DEF Cancelled, Dealt, Moved, Nowhere, Shown
<1>4. Remembers(withdrawn[t], cancelled, s) BY DEF Memory
<1>. HIDE DEF s, r, cancelled
<1>5. Remembers(withdrawn[t], cancelled, r) BY <1>3, <1>4, MemoryStays
<1>. QED BY <1>1, <1>5, MemoryThen DEF r, cancelled

\* A withdrawal takes the seat of the attempt it names, and is remembered.
LEMMA MemoryWithdraws ==
  ASSUME Inv, NEW t \in Tab, Memory(t), Kind(t), NEW i \in DOMAIN up[t], NEW x, x = up[t][i],
         NEW code, NEW replies, Dealt(t, x, TRUE, code, replies), x.type \in Withdraws,
         withdrawn'[t] = withdrawn[t] \cup {x.intent}
  PROVE  Memory(t)'
<1>. DEFINE s == Where(Now, t)
            r == Where(Now', t)
            gone == withdrawn[t]
            more == gone \cup {x.intent}
            old == session[t].cancelled
            new == Kept(old, x.intent)
<1>1. /\ session'[t].cancelled = new /\ Settle(x, code, r) /\ x.intent # 0 BY DEF Dealt, Kind, Kinds
<1>2. r = s \/ r.id = 0 BY DEF Dealt, Moved, Withdraws, Entering, Nowhere, Shown
<1>3. Remembers(gone, old, s) BY DEF Memory
<1>4. Lists(more, new) /\ (Few(more) => Few(gone)) BY <1>3, KeptRemembers DEF Remembers
<1>5. x.type = "cancelCreate" /\ s.id # 0 /\ ~s.host => s.intent # x.intent
  <2>2. s.id # 0 /\ ~s.host => s.intent \in Joined(t, up[t], work, s) BY JoinedIs
  <2>. QED BY MadeIs, <2>2 DEF Kind, Kinds
<1>6. r.id # 0 => r = s /\ r.intent # x.intent BY <1>1, <1>2, <1>5 DEF Settle, Withdraws
<1>. HIDE DEF s, r, gone, old, new
<1>7. Remembers(more, new, r) BY <1>1, <1>3, <1>4, <1>6 DEF Remembers
<1>. QED BY <1>1, <1>7, MemoryThen DEF r, gone

\* The tab of a step of its own, as the coordinator remembers it.
LEMMA MemoryAlone ==
  ASSUME NEW t \in Tab, Memory(t), Alone(t)
  PROVE  Memory(t)'
BY MemoryThen DEF Alone, Memory

\* A command that is handled keeps what the session must not forget.
LEMMA MemoryHandle ==
  ASSUME Inv, Recorded, NEW t \in Tab, Memory(t), Kind(t), Handle(t)
  PROVE  Memory(t)'
<1>. DEFINE x == Head(up[t])
            attached == session[t].socket = tab[t].socket
<1>1. /\ x = up[t][1] /\ 1 \in DOMAIN up[t]
      /\ withdrawn'[t] = IF attached /\ x.type \in Withdraws
                         THEN withdrawn[t] \cup {x.intent} ELSE withdrawn[t]
      /\ \E applied \in BOOLEAN : \E code :
           /\ Dealt(t, x, applied, code, x.n # 0)
           /\ applied => attached
           /\ attached /\ x.type \in Withdraws => applied
  BY HandleDealt
<1>2. PICK applied, code :
        /\ applied \in BOOLEAN
        /\ Dealt(t, x, applied, code, x.n # 0)
        /\ applied => attached
        /\ attached /\ x.type \in Withdraws => applied
  BY <1>1
<1>. HIDE DEF x, attached
<1>3. CASE attached /\ x.type \in Withdraws
  <2>1. applied = TRUE BY <1>2, <1>3
  <2>2. Dealt(t, x, TRUE, code, x.n # 0) BY <1>2, <2>1, Zenon
  <2>3. withdrawn'[t] = withdrawn[t] \cup {x.intent} BY <1>1, <1>3
  <2>. QED BY <1>1, <1>3, <2>2, <2>3, MemoryWithdraws
<1>4. CASE ~(attached /\ x.type \in Withdraws) BY <1>1, <1>2, <1>4, MemoryDealt
<1>. QED BY <1>3, <1>4

\* A command that is put off changes no seat and no tombstone.
LEMMA MemoryDefer ==
  ASSUME Inv, Recorded, NEW t \in Tab, Memory(t), Defer(t)
  PROVE  Memory(t)'
<1>. DEFINE x == Head(up[t])
            b == x.n # 0 /\ tab[t].socket = session[t].socket
<1>1. /\ x.type \in {"join", "access"} /\ UNCHANGED withdrawn
      /\ \/ \E code : Dealt(t, x, FALSE, code, b)
         \/ UNCHANGED <<session, rooms, down>>
  BY DeferDealt
<1>2. x.type \notin Withdraws BY <1>1 DEF Withdraws
<1>. HIDE DEF x, b
<1>3. CASE \E code : Dealt(t, x, FALSE, code, b) BY <1>1, <1>2, <1>3, MemoryDealt
<1>4. CASE UNCHANGED <<session, rooms, down>> BY <1>1, <1>4 DEF Memory, Now
<1>. QED BY <1>1, <1>3, <1>4

\* The end of a derivation seats no attempt that was withdrawn.
LEMMA MemoryDerived ==
  ASSUME Inv, Recorded, NEW i, Derived(i), NEW t \in Tab, t = work[i].tab, Memory(t)
  PROVE  Memory(t)'
<1>. DEFINE x == work[i].command
            b == x.n # 0 /\ tab[t].socket = work[i].socket
<1>1. /\ x.type \in {"join", "access"} /\ UNCHANGED withdrawn
      /\ \E applied \in BOOLEAN : \E code : Dealt(t, x, applied, code, b)
  BY DerivedDealt
<1>2. x.type \notin Withdraws BY <1>1 DEF Withdraws
<1>. HIDE DEF x, b
<1>. QED BY <1>1, <1>2, MemoryDealt

\* A new session remembers nothing, and nothing is withdrawn from it.
LEMMA MemoryAttach ==
  ASSUME Inv, Recorded, NEW t \in Tab, Memory(t), Attach(t)
  PROVE  Memory(t)'
<1>. DEFINE fresh == tab[t].token = 0
            s == Where(Now, t)
<1>1. /\ Where(Now', t) = s
      /\ withdrawn'[t] = IF fresh THEN {} ELSE withdrawn[t]
      /\ session'[t].cancelled = IF fresh THEN <<>> ELSE session[t].cancelled
      /\ fresh => s.id = 0
  BY AttachDealt
<1>2. Remembers(withdrawn[t], session[t].cancelled, s) BY DEF Memory
<1>. HIDE DEF fresh, s
<1>3. CASE fresh
  <2>1. Remembers({}, <<>>, s) BY <1>1, <1>3, NothingIsSeq, FS_EmptySet DEF Remembers, Lists
  <2>. QED BY <1>1, <1>3, <2>1, MemoryThen
<1>4. CASE ~fresh BY <1>1, <1>2, <1>4, MemoryThen
<1>. QED BY <1>3, <1>4

\* A session that loses its socket keeps its tombstones.
LEMMA MemoryDetach ==
  ASSUME Inv, NEW t \in Tab, Memory(t), Detach(t)
  PROVE  Memory(t)'
BY DetachAside, MemoryThen DEF Stays, Memory

\* After a restart nothing is remembered, and nothing withdrawn.
LEMMA MemoryRestart ==
  ASSUME NEW t \in Tab, Restart
  PROVE  Memory(t)'
<1>1. withdrawn'[t] = {} /\ session'[t].cancelled = <<>> /\ session'[t].room = 0
  BY DEF Restart, Nobody
<1>2. Where(Now', t).id = 0 BY <1>1 DEF Where, Now, Nowhere, Shown
<1>3. Remembers({}, <<>>, Where(Now', t)) BY <1>2, NothingIsSeq, FS_EmptySet DEF Remembers, Lists
<1>. QED BY <1>1, <1>3, MemoryThen

\* Every step keeps the memories.
LEMMA MemoryNext ==
  ASSUME Inv, Recorded, \A t \in Tab : Kind(t) /\ Memory(t), [Next]_vars
  PROVE  Recorded' /\ \A t \in Tab : Memory(t)'
<1>1. ASSUME NEW t \in Tab,
             \/ Connect(t) \/ Break(t) \/ Create(t) \/ Join(t) \/ Quit(t) \/ Manage(t)
             \/ WithdrawAttempt(t) \/ Timeout(t) \/ Receive(t)
      PROVE  Recorded' /\ \A v \in Tab : Memory(v)'
  BY <1>1, ActsAloneOf, MemoryAlone, MemoryAside DEF Alone, Recorded
<1>2. ASSUME NEW t \in Tab, Attach(t) \/ Detach(t) \/ Handle(t) \/ Defer(t)
      PROVE  Recorded' /\ \A v \in Tab : Memory(v)'
  <2>1. Memory(t)' BY <1>2, MemoryAttach, MemoryDetach, MemoryHandle, MemoryDefer
  <2>2. Recorded' /\ \A v \in Tab \ {t} : Aside(v)
    BY <1>2, AttachDealt, DetachAside, HandleDealt, DeferDealt DEF Recorded
  <2>. QED BY <2>1, <2>2, MemoryAside
<1>3. ASSUME NEW t \in Tab, Lapse(t) \/ Heartbeat(t) \/ Miss(t)
      PROVE  Recorded' /\ \A v \in Tab : Memory(v)'
  BY <1>3, ClockAside, MemoryAside DEF Recorded
<1>4. CASE (\E t \in Tab : Expire(t)) \/ Operator
  BY <1>4, OutAside, MemoryAside DEF Expire, Operator, Recorded
<1>5. ASSUME NEW i, Derived(i) PROVE Recorded' /\ \A v \in Tab : Memory(v)'
  <2>1. work[i].tab \in Tab /\ UNCHANGED withdrawn /\ \A v \in Tab \ {work[i].tab} : Aside(v)
    BY <1>5, DerivedDealt
  <2>2. PICK t \in Tab : t = work[i].tab BY <2>1
  <2>3. Memory(t)' BY <1>5, <2>2, MemoryDerived
  <2>. QED BY <2>1, <2>2, <2>3, MemoryAside DEF Recorded
<1>6. CASE Restart BY <1>6, MemoryRestart DEF Restart, Recorded
<1>7. CASE UNCHANGED vars BY <1>7 DEF vars, Memory, Recorded, Now
<1>. QED BY <1>1, <1>2, <1>3, <1>4, <1>5, <1>6, <1>7 DEF Next

\* At first nothing is asked for and nothing is remembered.
LEMMA MemoryInit ==
  ASSUME Init
  PROVE  Recorded /\ \A t \in Tab : Kind(t) /\ Memory(t)
<1>1. Recorded BY DEF Init, Recorded
<1>2. ASSUME NEW t \in Tab PROVE Kind(t) /\ Memory(t)
  <2>1. /\ withdrawn[t] = {} /\ session[t].cancelled = <<>> /\ session[t].room = 0
        /\ up[t] = <<>> /\ down[t] = <<>> /\ work = <<>>
        /\ tab[t].lobby = 0 /\ tab[t].waiting = {} /\ tab[t].room.id = 0
    BY DEF Init, Nobody, Offline, Nowhere, Shown
  <2>2. Where(Now, t).id = 0 BY <2>1 DEF Where, Now, Nowhere, Shown
  <2>3. Remembers({}, <<>>, Where(Now, t)) BY <2>2, NothingIsSeq, FS_EmptySet DEF Remembers, Lists
  <2>5. Kind(t) BY <2>1, <2>2, NothingIsSeq, MadeIs, JoinedIs DEF Kind, Kinds
  <2>. QED BY <2>1, <2>3, <2>5 DEF Memory
<1>. QED BY <1>1, <1>2

\* In every state the invariant holds, and every intent keeps its kind and what
\* was withdrawn of it is remembered.
LEMMA MemoryInvariant == Spec => [](Inv /\ Recorded /\ \A t \in Tab : Kind(t) /\ Memory(t))
<1>. DEFINE I == Inv /\ Recorded /\ \A t \in Tab : Kind(t) /\ Memory(t)
<1>1. Init => I BY InitInv, MemoryInit
<1>2. I /\ [Next]_vars => I'
  <2>. SUFFICES ASSUME I, [Next]_vars PROVE I' OBVIOUS
  <2>1. Inv' BY NextInv
  <2>2. \A t \in Tab : Kind(t)' BY KindNext
  <2>3. Recorded' /\ \A t \in Tab : Memory(t)' BY MemoryNext
  <2>. QED BY <2>1, <2>2, <2>3
<1>. QED BY <1>1, <1>2, PTL DEF Spec

\* An attempt the coordinator was told to forget holds no seat, however late its
\* command or the end of its derivation comes, for as long as its session is
\* told to forget fewer attempts than it can remember.
THEOREM CancelledStays == Spec => []CancelledStaysOut
<1>1. (Inv /\ Recorded /\ \A t \in Tab : Kind(t) /\ Memory(t)) => CancelledStaysOut
  <2>. SUFFICES ASSUME Inv, \A t \in Tab : Memory(t),
                       NEW r \in DOMAIN rooms, rooms[r] # None, NEW t \in Tab, Few(withdrawn[t])
                PROVE  rooms[r].seat[t] \notin withdrawn[t]
    BY DEF CancelledStaysOut, Few
  <2>1. Remembers(withdrawn[t], session[t].cancelled, Where(Now, t)) BY DEF Memory
  <2>2. CASE rooms[r].seat[t] = 0 BY <2>1, <2>2 DEF Remembers
  <2>3. CASE rooms[r].seat[t] # 0
    BY NowFields, <2>3, Seating, NoneIsNoRoom, WhereIs, <2>1 DEF Inv, Remembers
  <2>. QED BY <2>2, <2>3
<1>. QED BY <1>1, MemoryInvariant, PTL

-----------------------------------------------------------------------------
(* What a tab, its socket and the coordinator know of each other.          *)

\* The commands of a tab that wait for a derivation, from its present socket.
Own(t, c, q, i) == i \in DOMAIN q /\ q[i].tab = t /\ q[i].socket = c.socket
Attached(c, k) == k # 0 /\ k = c.socket

\* The sockets: a tab asks for nothing before its hello was answered, and what
\* it asked for on an earlier socket is lost.
Linked(t, c, u, d, q, k) ==
  /\ c.sockets \in Nat /\ c.socket \in {0, c.sockets} /\ k \in 0..c.sockets
  /\ \A i \in DOMAIN q : q[i].tab = t => q[i].socket \in 1..c.sockets
  /\ c.socket = 0 => u = <<>> /\ ~c.connected
  /\ c.connected => Attached(c, k)
  /\ \A i \in DOMAIN u : u[i].type = "hello" => ~Attached(c, k)
  /\ \A j \in DOMAIN d : Greets(d[j]) => ~c.connected /\ (d[j].code = "ok" => Attached(c, k))
  /\ ~c.connected =>
       /\ c.waiting = {}
       /\ \A i \in DOMAIN u : u[i].type \in {"hello", "leave", "cancelCreate"} /\ u[i].n \in {0, 1}
       /\ \A i \in DOMAIN q : ~Own(t, c, q, i)

\* The numbers: every command has a larger one than those before it, no reply
\* comes twice, and what is under way later has a larger number.
Quits(x) == x.type = "leave" /\ x.n # 0
Upward(c, u) ==
  /\ \A i, j \in DOMAIN u : i < j /\ u[i].n # 0 /\ u[j].n # 0 => u[i].n < u[j].n
  /\ \A i \in DOMAIN u : u[i].n \in 0..(c.asked + 1)
  /\ \A j \in DOMAIN u : Quits(u[j]) => \A w \in c.waiting : w.n >= u[j].n
Ahead(t, c, u, d, q) ==
  /\ \A j \in DOMAIN d, i \in DOMAIN u : d[j].type = "result" /\ u[i].n # 0 => d[j].n < u[i].n
  /\ \A i \in DOMAIN q, j \in DOMAIN u : Own(t, c, q, i) /\ u[j].n # 0 => q[i].command.n < u[j].n
Apart(t, c, d, q) ==
  /\ \A i, j \in DOMAIN q : Own(t, c, q, i) /\ Own(t, c, q, j) /\ i # j /\ q[i].command.n # 0
                            => q[i].command.n # q[j].command.n
  /\ \A j \in DOMAIN d, i \in DOMAIN q : d[j].type = "result" /\ Own(t, c, q, i)
                                         => d[j].n # q[i].command.n
  /\ \A i, j \in DOMAIN d : d[i].type = "result" /\ d[j].type = "result" /\ i # j => d[i].n # d[j].n
  /\ \A i \in DOMAIN q : Own(t, c, q, i) => q[i].command.n \in 0..(c.asked + 1)
Downward(c, d) ==
  /\ \A i, j \in DOMAIN d : \A w \in c.waiting :
       i < j /\ d[i].type = "result" /\ d[j].type = "result" /\ w.type = "create" /\ w.n = d[j].n
         => d[i].n < d[j].n
  /\ \A j \in DOMAIN d : d[j].type = "result" => d[j].n \in 1..(c.asked + 1)
  /\ \A w \in c.waiting \cup c.lost : w.n \in 2..(c.asked + 1)
Numbers(t, c, u, d, q) ==
  Upward(c, u) /\ Ahead(t, c, u, d, q) /\ Apart(t, c, d, q) /\ Downward(c, d)

\* The requests: what is under way is what the tab waits for, or gave up, and an
\* attempt that succeeded is answered with its own seat.
Fits(c, x) ==
  /\ \A w \in c.waiting \cup c.lost : w.n = x.n => w.type = x.type /\ w.intent = x.intent
  /\ x.type \in Entering => \E w \in c.waiting \cup c.lost : w.n = x.n
Wins(m, w) == m.type = "result" /\ m.n = w.n /\ m.code = "ok"
Waits(c) ==
  /\ \A w, v \in c.waiting : w.n = v.n => w = v
  /\ \A w \in c.waiting : /\ w.type \in {"join", "create", "leave", "close"}
                          /\ "stale" \in DOMAIN w
Awards(c, d) ==
  \A j \in DOMAIN d : \A w \in c.waiting : w.type \in Entering /\ Wins(d[j], w) =>
    d[j].room # 0 /\ d[j].intent = w.intent /\ (w.type = "create" => d[j].host)
Matches(t, c, u, d, q) ==
  /\ Waits(c) /\ Awards(c, d)
  /\ \A i \in DOMAIN u : Fits(c, u[i])
  /\ \A i \in DOMAIN q : Own(t, c, q, i) => Fits(c, q[i].command)
Ties(t, c, u, d, q) == Numbers(t, c, u, d, q) /\ Matches(t, c, u, d, q)

\* The links stay when a step keeps the socket and sends no hello.
LEMMA LinkedStays ==
  ASSUME NEW t, NEW c, NEW u, NEW d, NEW q, NEW k, Linked(t, c, u, d, q, k),
         NEW e, NEW v, NEW f, NEW p,
         e.socket = c.socket, e.sockets = c.sockets, e.connected <=> c.connected,
         ~c.connected /\ c.waiting = {} => e.waiting = {},
         c.socket = 0 => v = u,
         \A i \in DOMAIN v : \/ \E j \in DOMAIN u : v[i] = u[j]
                             \/ v[i].type # "hello" /\ c.connected
                             \/ v[i].type \in Withdraws /\ v[i].n = 0,
         \A i \in DOMAIN p : p[i].tab = t =>
           (\E j \in DOMAIN q : p[i] = q[j]) \/ (c.connected /\ p[i].socket = k),
         \A j \in DOMAIN f : (\E i \in DOMAIN d : f[j] = d[i]) \/ ~Greets(f[j])
  PROVE  Linked(t, e, v, f, p, k)
<1>1. \A x : Attached(e, x) <=> Attached(c, x) BY DEF Attached
<1>3. \A i \in DOMAIN p : p[i].tab = t => p[i].socket \in 1..e.sockets BY DEF Linked, Attached
<1>4. \A i \in DOMAIN v : v[i].type = "hello" => ~Attached(e, k) BY <1>1 DEF Linked, Withdraws
<1>5. \A j \in DOMAIN f : Greets(f[j]) => ~e.connected /\ (f[j].code = "ok" => Attached(e, k))
  BY <1>1 DEF Linked
<1>6. ~e.connected =>
        /\ e.waiting = {}
        /\ \A i \in DOMAIN v : v[i].type \in {"hello", "leave", "cancelCreate"} /\ v[i].n \in {0, 1}
        /\ \A i \in DOMAIN p : ~Own(t, e, p, i)
  <2>. SUFFICES ASSUME ~e.connected
                PROVE  /\ e.waiting = {}
                       /\ \A i \in DOMAIN v : v[i].type \in {"hello", "leave", "cancelCreate"}
                                              /\ v[i].n \in {0, 1}
                       /\ \A i \in DOMAIN p : ~Own(t, e, p, i)
    OBVIOUS
  <2>1. e.waiting = {} BY DEF Linked
  <2>3. \A i \in DOMAIN p : ~Own(t, e, p, i) BY DEF Linked, Own
  <2>. QED BY <2>1, <2>3 DEF Linked, Withdraws
<1>. QED BY <1>1, <1>3, <1>4, <1>5, <1>6 DEF Linked

-----------------------------------------------------------------------------
(* Commands and replies keep their order.                                  *)

\* A command that has left the mail of its tab, and is not answered yet.
Spare(t, c, u, d, q, x) ==
  /\ Fits(c, x)
  /\ x.n = 0 \/ x.n \in 1..(c.asked + 1)
  /\ x.n # 0 =>
       /\ \A i \in DOMAIN u : u[i].n # 0 => x.n < u[i].n
       /\ \A i \in DOMAIN q : Own(t, c, q, i) => q[i].command.n # x.n
       /\ \A j \in DOMAIN d : d[j].type = "result" => d[j].n # x.n
       /\ x.type = "create" => \A j \in DOMAIN d : d[j].type = "result" => d[j].n < x.n

\* The coordinator takes the first command of a tab.
LEMMA TakeHead ==
  ASSUME NEW t, NEW c, c.asked \in Nat, NEW u, NEW d, NEW q, Ties(t, c, u, d, q),
         NEW v, Rest(u, v)
  PROVE  Ties(t, c, v, d, q) /\ Spare(t, c, v, d, q, u[1])
<1>1. /\ DOMAIN u \subseteq Nat /\ 1 \in DOMAIN u
      /\ \A i \in DOMAIN v : i \in Nat /\ i + 1 \in DOMAIN u /\ v[i] = u[i + 1] /\ 1 < i + 1
  BY DEF Rest
<1>2. Upward(c, u) /\ Ahead(t, c, u, d, q) /\ Apart(t, c, d, q) /\ Downward(c, d)
      /\ Matches(t, c, u, d, q)
  BY DEF Ties, Numbers
<1>3. Upward(c, v) BY <1>1, <1>2 DEF Upward
<1>4. Ahead(t, c, v, d, q) BY <1>1, <1>2 DEF Ahead
<1>5. Matches(t, c, v, d, q) BY <1>1, <1>2 DEF Matches
<1>6. Spare(t, c, v, d, q, u[1])
  <2>. DEFINE x == u[1]
  <2>1. Fits(c, x) /\ x.n \in 0..(c.asked + 1) BY <1>1, <1>2 DEF Matches, Upward
  <2>3. x.n # 0 => \A i \in DOMAIN q : Own(t, c, q, i) => q[i].command.n # x.n
    BY <1>1, <1>2, <2>1 DEF Ahead, Apart
  <2>4. x.n # 0 => \A j \in DOMAIN d : d[j].type = "result" => d[j].n < x.n /\ d[j].n # x.n
    BY <1>1, <1>2, <2>1 DEF Ahead, Downward
  <2>5. x.n = 0 \/ x.n \in 1..(c.asked + 1) BY <2>1
  <2>. HIDE DEF x
  <2>. QED BY <2>1, <1>1, <1>2, <2>3, <2>4, <2>5 DEF Spare, x, Upward
<1>. QED BY <1>2, <1>3, <1>4, <1>5, <1>6 DEF Ties, Numbers

\* Derivations that are over, or that are somebody else's.
LEMMA TieOthers ==
  ASSUME NEW t, NEW c, NEW u, NEW d, NEW q, Ties(t, c, u, d, q), NEW p, Others(t, q, p)
  PROVE  Ties(t, c, u, d, p) /\ \A x : Spare(t, c, u, d, q, x) => Spare(t, c, u, d, p, x)
<1>1. PICK f : /\ \A i \in DOMAIN p : p[i].tab = t => f[i] \in DOMAIN q /\ p[i] = q[f[i]]
               /\ \A i, j \in DOMAIN p : p[i].tab = t /\ p[j].tab = t /\ i # j => f[i] # f[j]
  BY DEF Others
<1>2. \A i : Own(t, c, p, i) => i \in DOMAIN p /\ p[i].tab = t /\ Own(t, c, q, f[i]) /\ p[i] = q[f[i]]
                                /\ f[i] \in DOMAIN q
  BY <1>1 DEF Own
<1>3. Upward(c, u) /\ Ahead(t, c, u, d, q) /\ Apart(t, c, d, q) /\ Downward(c, d)
      /\ Matches(t, c, u, d, q)
  BY DEF Ties, Numbers
<1>4. Ahead(t, c, u, d, p) BY <1>2, <1>3 DEF Ahead
<1>5. Apart(t, c, d, p)
  <2>1. \A i, j \in DOMAIN p : Own(t, c, p, i) /\ Own(t, c, p, j) /\ i # j /\ p[i].command.n # 0
                               => p[i].command.n # p[j].command.n
    <3>. SUFFICES ASSUME NEW i \in DOMAIN p, NEW j \in DOMAIN p, Own(t, c, p, i), Own(t, c, p, j),
                         i # j, p[i].command.n # 0
                  PROVE  p[i].command.n # p[j].command.n
      OBVIOUS
    <3>1. f[i] # f[j] /\ f[i] \in DOMAIN q /\ f[j] \in DOMAIN q BY <1>1, <1>2
    <3>. QED BY <1>3, <3>1, <1>2 DEF Apart
  <2>3. \A i \in DOMAIN p : Own(t, c, p, i) => p[i].command.n \in 0..(c.asked + 1)
    BY <1>2, <1>3 DEF Apart
  <2>. QED BY <1>3, <2>1, <1>2, <2>3 DEF Apart
<1>6. Matches(t, c, u, d, p) BY <1>2, <1>3 DEF Matches
<1>7. ASSUME NEW x, Spare(t, c, u, d, q, x) PROVE Spare(t, c, u, d, p, x) BY <1>2, <1>7 DEF Spare
<1>. QED BY <1>3, <1>4, <1>5, <1>6, <1>7 DEF Ties, Numbers

\* A derivation is over: what it was for is about to be answered.
LEMMA TakeOwn ==
  ASSUME NEW t, NEW c, c.asked \in Nat, NEW u, NEW d, NEW q, Ties(t, c, u, d, q),
         NEW i \in DOMAIN q, NEW p, Shortens(q, i, p), q[i].command.type # "create"
  PROVE  Ties(t, c, u, d, p) /\ (Own(t, c, q, i) => Spare(t, c, u, d, p, q[i].command))
<1>1. PICK f : /\ \A n \in DOMAIN p : f[n] \in DOMAIN q /\ p[n] = q[f[n]] /\ f[n] # i
               /\ \A n, j \in DOMAIN p : n # j => f[n] # f[j]
  BY DEF Shortens
<1>2. Others(t, q, p) BY <1>1 DEF Others
<1>3. Ties(t, c, u, d, p) BY <1>2, TieOthers
<1>4. Ahead(t, c, u, d, q) /\ Apart(t, c, d, q) /\ Matches(t, c, u, d, q) BY DEF Ties, Numbers
<1>5. ASSUME Own(t, c, q, i) PROVE Spare(t, c, u, d, p, q[i].command)
  <2>. DEFINE x == q[i].command
  <2>1. Fits(c, x) /\ x.n \in 0..(c.asked + 1) BY <1>4, <1>5 DEF Matches, Apart
  <2>2. \A j \in DOMAIN u : u[j].n # 0 => x.n < u[j].n BY <1>4, <1>5 DEF Ahead
  <2>3. x.n # 0 => \A n \in DOMAIN p : Own(t, c, p, n) => p[n].command.n # x.n
    <3>. SUFFICES ASSUME x.n # 0, NEW n \in DOMAIN p, Own(t, c, p, n)
                  PROVE  p[n].command.n # x.n
      OBVIOUS
    <3>. QED BY <1>4, <1>5, <1>1 DEF Apart, Own
  <2>4. \A j \in DOMAIN d : d[j].type = "result" => d[j].n # x.n BY <1>4, <1>5 DEF Apart
  <2>5. x.n = 0 \/ x.n \in 1..(c.asked + 1) BY <2>1
  <2>6. x.type # "create" OBVIOUS
  <2>. HIDE DEF x
  <2>. QED BY <2>1, <2>2, <2>3, <2>4, <2>5, <2>6 DEF Spare, x
<1>. QED BY <1>3, <1>5

\* The tab is told of the end of a membership.
LEMMA PutEnded ==
  ASSUME NEW t, NEW c, NEW u, NEW d, NEW q, Ties(t, c, u, d, q),
         NEW m, NEW f, NEW n, Plus(d, m, f, n), m.type # "result"
  PROVE  Ties(t, c, u, f, q) /\ \A x : Spare(t, c, u, d, q, x) => Spare(t, c, u, f, q, x)
<1>1. \A j \in DOMAIN f : f[j].type = "result" => j \in DOMAIN d /\ f[j] = d[j] BY DEF Plus
<1>2. Upward(c, u) /\ Ahead(t, c, u, d, q) /\ Apart(t, c, d, q) /\ Downward(c, d)
      /\ Matches(t, c, u, d, q)
  BY DEF Ties, Numbers
<1>3. Ahead(t, c, u, f, q) BY <1>1, <1>2 DEF Ahead
<1>4. Apart(t, c, f, q) BY <1>1, <1>2 DEF Apart
<1>5. Downward(c, f) BY <1>1, <1>2 DEF Downward
<1>6. Matches(t, c, u, f, q) BY <1>1, <1>2 DEF Matches, Awards, Wins
<1>. QED BY <1>2, <1>3, <1>4, <1>5, <1>6, <1>1 DEF Ties, Numbers, Spare

\* A command is answered.
LEMMA PutReply ==
  ASSUME NEW t, NEW c, c.asked \in Nat, NEW u, NEW d, NEW q, Ties(t, c, u, d, q),
         NEW x, Spare(t, c, u, d, q, x), x.n # 0,
         NEW m, NEW f, NEW n, Plus(d, m, f, n), m.type = "result", m.n = x.n,
         m.code = "ok" /\ x.type \in Entering =>
           m.room # 0 /\ m.intent = x.intent /\ (x.type = "create" => m.host)
  PROVE  Ties(t, c, u, f, q)
<1>1. /\ \A j \in DOMAIN f : j = n \/ (j \in DOMAIN d /\ f[j] = d[j] /\ j < n /\ j \in Nat)
      /\ n \in DOMAIN f /\ f[n] = m /\ n \in Nat
  BY DEF Plus
<1>2. Upward(c, u) /\ Ahead(t, c, u, d, q) /\ Apart(t, c, d, q) /\ Downward(c, d)
      /\ Matches(t, c, u, d, q)
  BY DEF Ties, Numbers
<1>3. /\ Fits(c, x) /\ x.n \in 1..(c.asked + 1)
      /\ \A i \in DOMAIN u : u[i].n # 0 => x.n < u[i].n
      /\ \A i \in DOMAIN q : Own(t, c, q, i) => q[i].command.n # x.n
      /\ \A j \in DOMAIN d : d[j].type = "result" => d[j].n # x.n
      /\ x.type = "create" => \A j \in DOMAIN d : d[j].type = "result" => d[j].n < x.n
  BY DEF Spare
<1>4. Ahead(t, c, u, f, q) BY <1>1, <1>2, <1>3 DEF Ahead
<1>5. Apart(t, c, f, q) BY <1>1, <1>2, <1>3 DEF Apart
<1>6. Downward(c, f)
  <2>1. \A i, j \in DOMAIN f : \A w \in c.waiting :
          i < j /\ f[i].type = "result" /\ f[j].type = "result" /\ w.type = "create" /\ w.n = f[j].n
            => f[i].n < f[j].n
    <3>. SUFFICES ASSUME NEW i \in DOMAIN f, NEW j \in DOMAIN f, NEW w \in c.waiting, i < j,
                         f[i].type = "result", f[j].type = "result", w.type = "create", w.n = f[j].n
                  PROVE  f[i].n < f[j].n
      OBVIOUS
    <3>1. i \in DOMAIN d /\ f[i] = d[i] BY <1>1
    <3>2. CASE j = n BY <1>1, <3>2, <1>3, <3>1 DEF Fits
    <3>3. CASE j # n BY <1>1, <1>2, <3>1, <3>3 DEF Downward
    <3>. QED BY <3>2, <3>3
  <2>. QED BY <1>2, <2>1, <1>1, <1>3 DEF Downward
<1>7. Awards(c, f)
  <2>. SUFFICES ASSUME NEW j \in DOMAIN f, NEW w \in c.waiting, w.type \in Entering, Wins(f[j], w)
                PROVE  f[j].room # 0 /\ f[j].intent = w.intent /\ (w.type = "create" => f[j].host)
    BY DEF Awards
  <2>1. CASE j = n BY <1>1, <2>1, <1>3 DEF Wins, Fits
  <2>2. CASE j # n BY <1>1, <1>2, <2>2 DEF Matches, Awards
  <2>. QED BY <2>1, <2>2
<1>8. Matches(t, c, u, f, q) BY <1>2, <1>7 DEF Matches
<1>. QED BY <1>2, <1>4, <1>5, <1>6, <1>8 DEF Ties, Numbers

\* A command waits for its derivation.
LEMMA PutOwn ==
  ASSUME NEW t, NEW c, c.asked \in Nat, NEW u, NEW d, NEW q, Ties(t, c, u, d, q),
         NEW x, Spare(t, c, u, d, q, x), NEW w, w.command = x, NEW p, NEW n, Plus(q, w, p, n)
  PROVE  Ties(t, c, u, d, p)
<1>1. /\ \A i \in DOMAIN p : i = n \/ (i \in DOMAIN q /\ p[i] = q[i])
      /\ n \in DOMAIN p /\ p[n] = w
  BY DEF Plus
<1>2. \A i \in DOMAIN p : Own(t, c, p, i) => i = n \/ (Own(t, c, q, i) /\ i \in DOMAIN q /\ p[i] = q[i])
  BY <1>1 DEF Own
<1>3. Upward(c, u) /\ Ahead(t, c, u, d, q) /\ Apart(t, c, d, q) /\ Downward(c, d)
      /\ Matches(t, c, u, d, q)
  BY DEF Ties, Numbers
<1>4. /\ Fits(c, x) /\ x.n \in 0..(c.asked + 1)
      /\ x.n # 0 =>
           /\ \A i \in DOMAIN u : u[i].n # 0 => x.n < u[i].n
           /\ \A i \in DOMAIN q : Own(t, c, q, i) => q[i].command.n # x.n
           /\ \A j \in DOMAIN d : d[j].type = "result" => d[j].n # x.n
  BY DEF Spare
<1>5. \A j \in DOMAIN u : u[j].n \in 0..(c.asked + 1) BY <1>3 DEF Upward
<1>7. Ahead(t, c, u, d, p) BY <1>4, <1>5, <1>1, <1>2, <1>3 DEF Ahead
<1>8. Apart(t, c, d, p)
  <2>1. \A i, j \in DOMAIN p : Own(t, c, p, i) /\ Own(t, c, p, j) /\ i # j /\ p[i].command.n # 0
                               => p[i].command.n # p[j].command.n
    <3>. SUFFICES ASSUME NEW i \in DOMAIN p, NEW j \in DOMAIN p, Own(t, c, p, i), Own(t, c, p, j),
                         i # j, p[i].command.n # 0
                  PROVE  p[i].command.n # p[j].command.n
      OBVIOUS
    <3>1. CASE i = n BY <1>2, <3>1, <1>1, <1>4
    <3>2. CASE j = n BY <1>2, <3>2, <1>3, <1>1, <1>4 DEF Apart
    <3>3. CASE i # n /\ j # n BY <1>2, <1>3, <3>3 DEF Apart
    <3>. QED BY <3>1, <3>2, <3>3
  <2>2. \A j \in DOMAIN d, i \in DOMAIN p : d[j].type = "result" /\ Own(t, c, p, i)
                                            => d[j].n # p[i].command.n
    <3>. SUFFICES ASSUME NEW j \in DOMAIN d, NEW i \in DOMAIN p, d[j].type = "result",
                         Own(t, c, p, i)
                  PROVE  d[j].n # p[i].command.n
      OBVIOUS
    <3>1. CASE i = n BY <1>1, <1>4, <1>3, <3>1 DEF Downward
    <3>2. CASE i # n BY <1>2, <1>3, <3>2 DEF Apart
    <3>. QED BY <3>1, <3>2
  <2>. QED BY <1>3, <2>1, <2>2, <1>1, <1>2, <1>4 DEF Apart
<1>9. Matches(t, c, u, d, p) BY <1>1, <1>2, <1>3, <1>4 DEF Matches
<1>. QED BY <1>3, <1>7, <1>8, <1>9 DEF Ties, Numbers

-----------------------------------------------------------------------------
(* Requests keep their order.                                              *)

\* The requests a tab waits for, some of them not wanted any more.
Faded(y, w) == /\ w.n = y.n /\ w.type = y.type /\ w.intent = y.intent
               /\ y.stale => w.stale
               /\ "stale" \in DOMAIN w
Fades(old, new) ==
  /\ \A w \in new : \E y \in old : Faded(y, w)
  /\ \A y \in old : \E w \in new : Faded(y, w)
  /\ \A w, v \in new : w.n = v.n => w = v

\* A later join fades the earlier ones.
LEMMA SupersededFades ==
  ASSUME NEW c, Waits(c), NEW type
  PROVE  Fades(c.waiting, Superseded(c, type))
<1>. DEFINE F(y) == [y EXCEPT !.stale = y.stale \/ (type = "join" /\ y.type = "join")]
<1>1. \A y \in c.waiting : Faded(y, F(y))
  <2>. SUFFICES ASSUME NEW y \in c.waiting PROVE Faded(y, F(y)) OBVIOUS
  <2>1. "stale" \in DOMAIN y BY DEF Waits
  <2>2. DOMAIN F(y) = DOMAIN y /\ F(y).n = y.n /\ F(y).type = y.type /\ F(y).intent = y.intent
    OBVIOUS
  <2>3. F(y).stale = (y.stale \/ (type = "join" /\ y.type = "join")) BY <2>1
  <2>4. y.stale => F(y).stale BY <2>3, Zenon
  <2>. HIDE DEF F
  <2>. QED BY <2>1, <2>2, <2>4, Zenon DEF Faded
<1>2. /\ \A w \in Superseded(c, type) : \E y \in c.waiting : w = F(y)
      /\ \A y \in c.waiting : F(y) \in Superseded(c, type)
  BY DEF Superseded
<1>3. \A y, z \in c.waiting : F(y).n = F(z).n => F(y) = F(z) BY <1>1 DEF Waits, Faded
<1>. HIDE DEF F
<1>. QED BY <1>1, <1>2, <1>3 DEF Fades

\* A withdrawal fades the attempts.
LEMMA MarkedFades ==
  ASSUME NEW c, Waits(c)
  PROVE  Fades(c.waiting, Marked(c))
<1>. DEFINE F(y) == [y EXCEPT !.stale = y.stale \/ y.type \in {"join", "create"}]
<1>1. \A y \in c.waiting : Faded(y, F(y))
  <2>. SUFFICES ASSUME NEW y \in c.waiting PROVE Faded(y, F(y)) OBVIOUS
  <2>1. "stale" \in DOMAIN y BY DEF Waits
  <2>2. DOMAIN F(y) = DOMAIN y /\ F(y).n = y.n /\ F(y).type = y.type /\ F(y).intent = y.intent
    OBVIOUS
  <2>3. F(y).stale = (y.stale \/ y.type \in {"join", "create"}) BY <2>1
  <2>4. y.stale => F(y).stale BY <2>3, Zenon
  <2>. HIDE DEF F
  <2>. QED BY <2>1, <2>2, <2>4, Zenon DEF Faded
<1>2. /\ \A w \in Marked(c) : \E y \in c.waiting : w = F(y)
      /\ \A y \in c.waiting : F(y) \in Marked(c)
  BY DEF Marked
<1>3. \A y, z \in c.waiting : F(y).n = F(z).n => F(y) = F(z) BY <1>1 DEF Waits, Faded
<1>. HIDE DEF F
<1>. QED BY <1>1, <1>2, <1>3 DEF Fades

\* The requests fade, and nothing else.
LEMMA TieFades ==
  ASSUME NEW t, NEW c, NEW u, NEW d, NEW q, Ties(t, c, u, d, q),
         NEW e, e.socket = c.socket, e.asked = c.asked, e.lost = c.lost,
         Fades(c.waiting, e.waiting)
  PROVE  Ties(t, e, u, d, q)
<1>1. /\ \A w \in e.waiting : \E y \in c.waiting : w.n = y.n /\ w.type = y.type /\ w.intent = y.intent
                                                   /\ "stale" \in DOMAIN w
      /\ \A y \in c.waiting : \E w \in e.waiting : w.n = y.n /\ w.type = y.type /\ w.intent = y.intent
      /\ \A w, v \in e.waiting : w.n = v.n => w = v
  BY DEF Fades, Faded
<1>2. Upward(c, u) /\ Ahead(t, c, u, d, q) /\ Apart(t, c, d, q) /\ Downward(c, d)
      /\ Matches(t, c, u, d, q)
  BY DEF Ties, Numbers
<1>3. \A i : Own(t, e, q, i) <=> Own(t, c, q, i) BY DEF Own
<1>4. Upward(e, u) BY <1>1, <1>2 DEF Upward
<1>5. Ahead(t, e, u, d, q) BY <1>2, <1>3 DEF Ahead
<1>6. Apart(t, e, d, q) BY <1>2, <1>3 DEF Apart
<1>7. Downward(e, d) BY <1>1, <1>2 DEF Downward
<1>8. Waits(e) BY <1>1, <1>2 DEF Matches, Waits
<1>9. Awards(e, d)
  <2>. SUFFICES ASSUME NEW j \in DOMAIN d, NEW w \in e.waiting, w.type \in Entering, Wins(d[j], w)
                PROVE  d[j].room # 0 /\ d[j].intent = w.intent /\ (w.type = "create" => d[j].host)
    BY DEF Awards
  <2>1. PICK y \in c.waiting : w.n = y.n /\ w.type = y.type /\ w.intent = y.intent BY <1>1
  <2>2. Wins(d[j], y) BY <2>1 DEF Wins
  <2>. QED BY <1>2, <2>1, <2>2 DEF Matches, Awards
<1>10. \A x : Fits(c, x) => Fits(e, x) BY <1>1 DEF Fits
<1>11. Matches(t, e, u, d, q) BY <1>2, <1>3, <1>8, <1>9, <1>10 DEF Matches
<1>. QED BY <1>4, <1>5, <1>6, <1>7, <1>11 DEF Ties, Numbers

\* A tab asks for something.
LEMMA TieAsk ==
  ASSUME NEW t, NEW c, c.asked \in Nat, NEW u, NEW d, NEW q, Ties(t, c, u, d, q),
         NEW e, e.socket = c.socket, e.asked = c.asked + 1, e.lost = c.lost,
         NEW w, e.waiting = c.waiting \cup {w}, "stale" \in DOMAIN w,
         w.type \in {"join", "create", "leave", "close"},
         NEW x, x.n = c.asked + 2, w.n = x.n, w.type = x.type, w.intent = x.intent,
         Quits(x) => c.waiting = {},
         NEW v, NEW n, Plus(u, x, v, n)
  PROVE  Ties(t, e, v, d, q)
<1>1. /\ \A i \in DOMAIN v : i = n \/ (i \in DOMAIN u /\ v[i] = u[i] /\ i < n /\ i \in Nat)
      /\ n \in DOMAIN v /\ v[n] = x /\ n \in Nat
  BY DEF Plus
<1>2. Upward(c, u) /\ Ahead(t, c, u, d, q) /\ Apart(t, c, d, q) /\ Downward(c, d)
      /\ Matches(t, c, u, d, q)
  BY DEF Ties, Numbers
<1>3. \A i : Own(t, e, q, i) <=> Own(t, c, q, i) BY DEF Own
<1>4. /\ \A y \in c.waiting \cup c.lost : y.n \in 2..(c.asked + 1)
      /\ \A i \in DOMAIN u : u[i].n \in 0..(c.asked + 1)
      /\ \A i \in DOMAIN q : Own(t, c, q, i) => q[i].command.n \in 0..(c.asked + 1)
      /\ \A j \in DOMAIN d : d[j].type = "result" => d[j].n \in 1..(c.asked + 1)
  BY <1>2 DEF Downward, Upward, Apart
<1>5. Upward(e, v)
  <2>2. \A i \in DOMAIN v : v[i].n \in 0..(e.asked + 1) BY <1>1, <1>4
  <2>3. \A j \in DOMAIN v : Quits(v[j]) => \A y \in e.waiting : y.n >= v[j].n
    <3>. SUFFICES ASSUME NEW j \in DOMAIN v, Quits(v[j]), NEW y \in e.waiting
                  PROVE  y.n >= v[j].n
      OBVIOUS
    <3>1. CASE j = n BY <1>1, <3>1
    <3>2. CASE j # n /\ y = w BY <1>1, <1>4, <3>2
    <3>3. CASE j # n /\ y # w BY <1>1, <1>2, <3>3 DEF Upward
    <3>. QED BY <3>1, <3>2, <3>3
  <2>. QED BY <1>1, <1>2, <1>4, <2>2, <2>3 DEF Upward
<1>6. Ahead(t, e, v, d, q) BY <1>1, <1>2, <1>4, <1>3 DEF Ahead
<1>7. Apart(t, e, d, q) BY <1>3, <1>4, <1>2 DEF Apart
<1>8. Downward(e, d) BY <1>4, <1>2 DEF Downward
<1>9. Waits(e) BY <1>4, <1>2 DEF Matches, Waits
<1>10. Awards(e, d) BY <1>4, <1>2 DEF Matches, Awards, Wins
<1>11. \A y : Fits(c, y) /\ y.n # w.n => Fits(e, y) BY DEF Fits
<1>12. Fits(e, x) BY <1>4 DEF Fits
<1>13. \A i \in DOMAIN v : Fits(e, v[i]) BY <1>4, <1>1, <1>2, <1>11, <1>12 DEF Matches
<1>14. \A i \in DOMAIN q : Own(t, e, q, i) => Fits(e, q[i].command)
  BY <1>4, <1>2, <1>3, <1>11 DEF Matches
<1>15. Matches(t, e, v, d, q) BY <1>9, <1>10, <1>13, <1>14 DEF Matches
<1>. QED BY <1>5, <1>6, <1>7, <1>8, <1>15 DEF Ties, Numbers

\* A tab sends what it waits for no answer to.
LEMMA TieSend ==
  ASSUME NEW t, NEW c, NEW u, NEW d, NEW q, Ties(t, c, u, d, q), c.asked \in Nat,
         NEW x, x.n = 0, x.type \notin Entering, NEW v, NEW n, Plus(u, x, v, n)
  PROVE  Ties(t, c, v, d, q)
BY DEF Plus, Ties, Numbers, Upward, Quits, Ahead, Downward, Fits, Matches

\* A request is given up.
LEMMA TieTimeout ==
  ASSUME NEW t, NEW c, NEW u, NEW d, NEW q, Ties(t, c, u, d, q),
         NEW e, e.socket = c.socket, e.asked = c.asked, NEW w \in c.waiting,
         e.waiting = c.waiting \ {w},
         e.lost = IF w.type \in Entering THEN c.lost \cup {w} ELSE c.lost
  PROVE  Ties(t, e, u, d, q)
<1>1. Upward(c, u) /\ Ahead(t, c, u, d, q) /\ Apart(t, c, d, q) /\ Downward(c, d)
      /\ Matches(t, c, u, d, q)
  BY DEF Ties, Numbers
<1>2. \A i : Own(t, e, q, i) <=> Own(t, c, q, i) BY DEF Own
<1>3. /\ \A y \in e.waiting : y \in c.waiting
      /\ \A y \in e.waiting \cup e.lost : y \in c.waiting \cup c.lost
      /\ \A y \in c.waiting \cup c.lost : y.type \in Entering => y \in e.waiting \cup e.lost
  OBVIOUS
<1>4. Upward(e, u) BY <1>1, <1>3 DEF Upward
<1>5. Ahead(t, e, u, d, q) BY <1>1, <1>2 DEF Ahead
<1>6. Apart(t, e, d, q) BY <1>1, <1>2 DEF Apart
<1>7. Downward(e, d) BY <1>1, <1>3 DEF Downward
<1>8. Waits(e) /\ Awards(e, d) BY <1>1, <1>3 DEF Matches, Waits, Awards
<1>9. \A x : Fits(c, x) => Fits(e, x) BY <1>3 DEF Fits
<1>10. Matches(t, e, u, d, q) BY <1>1, <1>2, <1>8, <1>9 DEF Matches
<1>. QED BY <1>4, <1>5, <1>6, <1>7, <1>10 DEF Ties, Numbers

\* A message is read that is no reply to a request.
LEMMA TieRest ==
  ASSUME NEW t, NEW c, c.asked \in Nat, NEW u, NEW d, NEW q, Ties(t, c, u, d, q), NEW f, Rest(d, f),
         NEW e, e.socket = c.socket, e.asked = c.asked, e.lost = c.lost, e.waiting = c.waiting
  PROVE  Ties(t, e, u, f, q)
<1>1. \A i \in DOMAIN f : i \in Nat /\ i + 1 \in DOMAIN d /\ f[i] = d[i + 1] BY DEF Rest
<1>2. Upward(c, u) /\ Ahead(t, c, u, d, q) /\ Apart(t, c, d, q) /\ Downward(c, d)
      /\ Matches(t, c, u, d, q)
  BY DEF Ties, Numbers
<1>3. \A i : Own(t, e, q, i) <=> Own(t, c, q, i) BY DEF Own
<1>4. Upward(e, u) BY <1>2 DEF Upward
<1>5. Ahead(t, e, u, f, q) BY <1>1, <1>2, <1>3 DEF Ahead
<1>6. Apart(t, e, f, q) BY <1>1, <1>2, <1>3 DEF Apart
<1>7. Downward(e, f) BY <1>1, <1>2 DEF Downward
<1>8. Waits(e) /\ Awards(e, f) BY <1>1, <1>2 DEF Matches, Waits, Awards, Wins
<1>9. \A x : Fits(c, x) => Fits(e, x) BY DEF Fits
<1>10. Matches(t, e, u, f, q) BY <1>2, <1>3, <1>8, <1>9 DEF Matches
<1>. QED BY <1>4, <1>5, <1>6, <1>7, <1>10 DEF Ties, Numbers

\* A request is answered: a creation answers those before it.
LEMMA TieReply ==
  ASSUME NEW t, NEW c, c.asked \in Nat, NEW u, NEW d, NEW q, Ties(t, c, u, d, q),
         1 \in DOMAIN d, d[1].type = "result",
         NEW w \in c.waiting, w.n = d[1].n,
         \A i \in DOMAIN q : q[i].command.type \in {"join", "access"},
         NEW e, e.socket = c.socket, e.asked = c.asked, e.waiting = c.waiting \ {w},
         e.lost = c.lost \/ e.lost = {y \in c.lost : Outlives(y, w)}
  PROVE  Ties(t, e, u, d, q)
<1>1. Upward(c, u) /\ Ahead(t, c, u, d, q) /\ Apart(t, c, d, q) /\ Downward(c, d)
      /\ Matches(t, c, u, d, q)
  BY DEF Ties, Numbers
<1>2. \A i : Own(t, e, q, i) <=> Own(t, c, q, i) BY DEF Own
<1>3. /\ \A y \in e.waiting : y \in c.waiting
      /\ \A y \in e.waiting \cup e.lost : y \in c.waiting \cup c.lost
  OBVIOUS
<1>4. Upward(e, u) BY <1>1, <1>3 DEF Upward
<1>5. Ahead(t, e, u, d, q) BY <1>1, <1>2 DEF Ahead
<1>6. Apart(t, e, d, q) BY <1>1, <1>2 DEF Apart
<1>7. Downward(e, d) BY <1>1, <1>3 DEF Downward
<1>8. Waits(e) /\ Awards(e, d) BY <1>1, <1>3 DEF Matches, Waits, Awards
<1>9. w.n \in Nat /\ \A y \in c.lost : y.n \in Nat BY <1>1 DEF Downward
<1>10. ASSUME NEW x, Fits(c, x), w.n # x.n,
              x.type # "create" \/ (x.n \in Nat /\ w.n < x.n)
       PROVE  Fits(e, x)
  <2>2. ASSUME x.type \in Entering PROVE \E y \in e.waiting \cup e.lost : y.n = x.n
    <3>1. PICK y \in c.waiting \cup c.lost : y.n = x.n /\ y.type = x.type BY <1>10, <2>2 DEF Fits
    <3>2. CASE y \in c.waiting BY <1>10, <3>1, <3>2
    <3>3. CASE y \in c.lost BY <1>9, <1>10, <3>1, <3>3 DEF Outlives
    <3>. QED BY <3>2, <3>3
  <2>. QED BY <1>3, <1>10, <2>2 DEF Fits
<1>11. \A i \in DOMAIN u : Fits(e, u[i])
  <2>. SUFFICES ASSUME NEW i \in DOMAIN u PROVE Fits(e, u[i]) OBVIOUS
  <2>1. Fits(c, u[i]) /\ u[i].n \in Nat BY <1>1 DEF Matches, Upward
  <2>2. CASE u[i].n = 0 BY <1>1, <2>2, <1>3, <2>1 DEF Downward, Fits
  <2>3. CASE u[i].n # 0 BY <1>1, <2>3, <1>9, <1>10, <2>1 DEF Ahead
  <2>. QED BY <2>2, <2>3
<1>12. \A i \in DOMAIN q : Own(t, e, q, i) => Fits(e, q[i].command)
  <2>. SUFFICES ASSUME NEW i \in DOMAIN q, Own(t, c, q, i) PROVE Fits(e, q[i].command) BY <1>2
  <2>1. Fits(c, q[i].command) /\ w.n # q[i].command.n BY <1>1 DEF Matches, Apart
  <2>2. q[i].command.type # "create" OBVIOUS
  <2>. QED BY <1>10, <2>1, <2>2
<1>13. Matches(t, e, u, d, q) BY <1>1, <1>8, <1>11, <1>12 DEF Matches
<1>. QED BY <1>4, <1>5, <1>6, <1>7, <1>13 DEF Ties, Numbers

\* The socket is another one, or gone.
LEMMA TieEmpty ==
  ASSUME NEW t, NEW c, c.asked \in Nat, NEW u, NEW d, NEW q, Ties(t, c, u, d, q),
         NEW e, e.asked = c.asked, e.lost = c.lost, e.waiting = {},
         NEW v, NEW f, NEW p, \A i \in DOMAIN p : ~Own(t, e, p, i),
         \/ /\ DOMAIN f = {} /\ DOMAIN v \subseteq {1}
            /\ \A i \in DOMAIN v : v[i].n = 1 /\ v[i].type = "hello"
         \/ DOMAIN v = {} /\ Rest(d, f)
  PROVE  Ties(t, e, v, f, p)
<1>1. Downward(c, d) /\ Apart(t, c, d, q) BY DEF Ties, Numbers
<1>2. \A i \in DOMAIN f : i \in Nat /\ i + 1 \in DOMAIN d /\ f[i] = d[i + 1] BY DEF Rest
<1>3. \A i \in DOMAIN v : i = 1 /\ v[i].n = 1 /\ v[i].type = "hello" /\ DOMAIN f = {} OBVIOUS
<1>4. Upward(e, v) BY <1>3 DEF Upward, Quits
<1>5. Ahead(t, e, v, f, p) BY <1>3 DEF Ahead
<1>6. Apart(t, e, f, p) BY <1>1, <1>2 DEF Apart
<1>7. Downward(e, f) BY <1>1, <1>2 DEF Downward
<1>8. Waits(e) /\ Awards(e, f) BY DEF Waits, Awards
<1>9. \A i \in DOMAIN v : Fits(e, v[i]) BY <1>1, <1>3 DEF Downward, Fits, Entering
<1>10. Matches(t, e, v, f, p) BY <1>8, <1>9 DEF Matches
<1>. QED BY <1>4, <1>5, <1>6, <1>7, <1>10 DEF Ties, Numbers

\* A tab that was greeted knows where it is, and remembers no lost attempt.
LEMMA TieGreet ==
  ASSUME NEW t, NEW c, NEW u, NEW d, NEW q, Ties(t, c, u, d, q),
         NEW e, e.socket = c.socket, e.asked = c.asked, e.waiting = c.waiting, e.lost = {},
         \A i \in DOMAIN u : u[i].type \notin Entering, \A i \in DOMAIN q : ~Own(t, c, q, i)
  PROVE  Ties(t, e, u, d, q)
<1>1. Upward(c, u) /\ Ahead(t, c, u, d, q) /\ Apart(t, c, d, q) /\ Downward(c, d)
      /\ Matches(t, c, u, d, q)
  BY DEF Ties, Numbers
<1>2. \A i : ~Own(t, e, q, i) BY DEF Own
<1>3. Upward(e, u) BY <1>1 DEF Upward
<1>4. Ahead(t, e, u, d, q) BY <1>1, <1>2 DEF Ahead
<1>5. Apart(t, e, d, q) BY <1>1, <1>2 DEF Apart
<1>6. Downward(e, d) BY <1>1 DEF Downward
<1>7. Waits(e) /\ Awards(e, d) BY <1>1 DEF Matches, Waits, Awards
<1>8. \A i \in DOMAIN u : Fits(e, u[i]) BY <1>1 DEF Matches, Fits
<1>9. Matches(t, e, u, d, q) BY <1>2, <1>7, <1>8 DEF Matches
<1>. QED BY <1>3, <1>4, <1>5, <1>6, <1>9 DEF Ties, Numbers

-----------------------------------------------------------------------------
(* What a tab will show of where it is, once its mail is read.             *)

\* What tells a tab where it is, and what it will then show.
Won(c, m) == \E w \in c.waiting : w.type \in Entering /\ ~w.stale /\ Wins(m, w)
Informs(c, m) == \/ m.type = "ended" /\ m.reason # "creation_cancelled"
                 \/ Greets(m)
                 \/ Won(c, m)
Value(m) == IF m.type = "ended" THEN Nowhere ELSE Shown(m.room, m.intent, m.host)
Same(v, s) == v.id = s.id /\ (s.id # 0 => v = s)
Still(c, d, i) == \A j \in DOMAIN d : i < j => ~Informs(c, d[j])
Latest(c, d, s) == \E i \in DOMAIN d : Informs(c, d[i]) /\ Still(c, d, i) /\ Same(Value(d[i]), s)
Shows(c, d, s) == (Still(c, d, 0) /\ Same(c.room, s)) \/ Latest(c, d, s)
OwnEnd(m) == m.type = "ended" /\ m.reason = "creation_cancelled"
Overlooked(c, d) == \E i \in DOMAIN d : OwnEnd(d[i]) /\ Still(c, d, i)
Ignores(c, d) == Overlooked(c, d) \/ (c.blind /\ Still(c, d, 0))

\* What will take it out of the room it does not want.
Undoes(x, s) ==
  x.type \in Withdraws /\ x.intent = s.intent /\ (x.type = "cancelCreate" => s.host)
Outdated(c, m, s) ==
  \E w \in c.waiting : /\ w.type \in Entering /\ w.stale /\ Wins(m, w) /\ w.intent = s.intent
                       /\ w.type = "create" => s.host
Sent(u, s) == \E i \in DOMAIN u : Undoes(u[i], s)
Late(c, d, s) == \E j \in DOMAIN d : Still(c, d, j) /\ Outdated(c, d[j], s)
Undoing(c, u, d, s) == s.id # 0 /\ (Sent(u, s) \/ Late(c, d, s))
Claim(c, u, d, s) == Undoing(c, u, d, s) \/ (s.id = 0 /\ Ignores(c, d)) \/ Shows(c, d, s)

\* Of an attempt whose reply came too late the tab knows nothing, unless the
\* mail holds a reply that makes it obsolete.
Covers(c, m) ==
  \E w \in c.waiting : w.type = "create" /\ ~w.stale /\ Wins(m, w) /\ \A v \in c.lost : ~Outlives(v, w)
Certain(c, d) == c.lost = {} \/ \E j \in DOMAIN d : Greets(d[j]) \/ Covers(c, d[j])

\* A tab that quits is out when it is told so.
QuitReplies(c, u, d, s) ==
  \A j \in DOMAIN d : \A w \in c.waiting : w.type \notin Entering /\ Wins(d[j], w) =>
     s.id = 0 \/ Undoing(c, u, d, s) \/ ~Still(c, d, j)
QuitsOK(t, c, u, q, s) ==
  \A j \in DOMAIN u : Quits(u[j]) =>
    /\ \A i \in DOMAIN u : i < j => u[i].type \notin Entering
    /\ \A i \in DOMAIN q : Own(t, c, q, i) => q[i].command.type \notin Entering
    /\ s.id = 0 \/ s.intent = u[j].intent \/ \E i \in DOMAIN u : i < j /\ Undoes(u[i], s)
Seen(t, c, u, d, q, s) ==
  Certain(c, d) => Claim(c, u, d, s) /\ QuitReplies(c, u, d, s) /\ QuitsOK(t, c, u, q, s)

-----------------------------------------------------------------------------
(* The coordinator's part in it.                                           *)

\* A message that tells the tab nothing.
NoNews(c, m) == ~Informs(c, m) /\ \A w \in c.waiting : Wins(m, w) => w.type \notin Entering

\* One message more that tells the tab nothing.
LEMMA NoNewsOf ==
  ASSUME NEW c, NEW d, NEW m, NEW f, NEW n, Plus(d, m, f, n), NoNews(c, m)
  PROVE  /\ \A i : Still(c, d, i) <=> Still(c, f, i)
         /\ \A s : Shows(c, d, s) => Shows(c, f, s)
         /\ Ignores(c, d) => Ignores(c, f)
         /\ \A s : Late(c, d, s) => Late(c, f, s)
         /\ Certain(c, f) => Certain(c, d)
<1>1. /\ \A j \in DOMAIN f : j = n \/ (j \in DOMAIN d /\ f[j] = d[j])
      /\ \A j \in DOMAIN d : j \in DOMAIN f /\ f[j] = d[j]
      /\ n \in DOMAIN f /\ f[n] = m
  BY DEF Plus
<1>2. ~Informs(c, m) /\ ~Greets(m) /\ ~Covers(c, m) BY DEF NoNews, Informs, Covers, Entering
<1>3. \A i : Still(c, d, i) <=> Still(c, f, i) BY <1>1, <1>2 DEF Still
<1>4. \A s : Shows(c, d, s) => Shows(c, f, s) BY <1>1, <1>3 DEF Shows, Latest
<1>5. Ignores(c, d) => Ignores(c, f) BY <1>1, <1>3, Zenon DEF Ignores, Overlooked
<1>6. \A s : Late(c, d, s) => Late(c, f, s) BY <1>1, <1>3 DEF Late
<1>7. Certain(c, f) => Certain(c, d) BY <1>1, <1>2 DEF Certain
<1>. QED BY <1>3, <1>4, <1>5, <1>6, <1>7

\* A reply that tells the tab nothing, or that it is out.
LEMMA Answered ==
  ASSUME NEW t, NEW c, NEW u, NEW d, NEW q, NEW s, Seen(t, c, u, d, q, s),
         NEW m, NEW f, NEW n, Plus(d, m, f, n), NoNews(c, m),
         Certain(c, d) => \A w \in c.waiting : Wins(m, w) => s.id = 0
  PROVE  Seen(t, c, u, f, q, s)
<1>. SUFFICES ASSUME Certain(c, f)
              PROVE  Claim(c, u, f, s) /\ QuitReplies(c, u, f, s) /\ QuitsOK(t, c, u, q, s)
  BY DEF Seen
<1>1. /\ \A i : Still(c, d, i) <=> Still(c, f, i)
      /\ Shows(c, d, s) => Shows(c, f, s)
      /\ Ignores(c, d) => Ignores(c, f)
      /\ Late(c, d, s) => Late(c, f, s)
      /\ Certain(c, d)
  BY NoNewsOf
<1>2. Claim(c, u, d, s) /\ QuitReplies(c, u, d, s) /\ QuitsOK(t, c, u, q, s) BY <1>1 DEF Seen
<1>3. Undoing(c, u, d, s) => Undoing(c, u, f, s) BY <1>1 DEF Undoing
<1>4. Claim(c, u, f, s) BY <1>1, <1>2, <1>3 DEF Claim
<1>5. QuitReplies(c, u, f, s)
  <2>1. /\ \A j \in DOMAIN f : j = n \/ (j \in DOMAIN d /\ f[j] = d[j])
        /\ f[n] = m
    BY DEF Plus
  <2>. SUFFICES ASSUME NEW j \in DOMAIN f, NEW w \in c.waiting, w.type \notin Entering, Wins(f[j], w)
                PROVE  s.id = 0 \/ Undoing(c, u, f, s) \/ ~Still(c, f, j)
    BY DEF QuitReplies
  <2>2. CASE j = n BY <1>1, <2>1, <2>2
  <2>3. CASE j # n BY <2>1, <2>3, <1>2, <1>1, <1>3 DEF QuitReplies
  <2>. QED BY <2>2, <2>3
<1>. QED BY <1>2, <1>4, <1>5

\* The tab is told that it is out.
LEMMA Gone ==
  ASSUME NEW t, NEW c, NEW u, NEW d, NEW q, NEW s, Seen(t, c, u, d, q, s),
         NEW reason, NEW f, NEW n, Plus(d, Ended(reason), f, n)
  PROVE  Seen(t, c, u, f, q, Nowhere)
<1>. SUFFICES ASSUME Certain(c, f)
              PROVE  /\ Claim(c, u, f, Nowhere) /\ QuitReplies(c, u, f, Nowhere)
                     /\ QuitsOK(t, c, u, q, Nowhere)
  BY DEF Seen
<1>. DEFINE m == Ended(reason)
<1>1. /\ \A j \in DOMAIN f : j = n \/ (j \in DOMAIN d /\ f[j] = d[j] /\ j < n /\ j \in Nat)
      /\ n \in DOMAIN f /\ f[n] = m /\ n \in Nat
  BY DEF Plus
<1>2. m.type = "ended" /\ m.reason = reason BY DEF Ended
<1>. HIDE DEF m
<1>3. Certain(c, d) BY <1>2, <1>1 DEF Greets, Covers, Wins, Certain
<1>4. QuitsOK(t, c, u, q, s) BY <1>3 DEF Seen
<1>5. Nowhere.id = 0 BY DEF Nowhere, Shown
<1>7. Still(c, f, n) BY <1>1 DEF Still
<1>8. Claim(c, u, f, Nowhere)
  BY <1>1, <1>2, <1>7, <1>5 DEF Overlooked, OwnEnd, Claim, Ignores, Informs, Value, Same, Latest,
     Shows
<1>. QED BY <1>4, <1>5, <1>8 DEF QuitReplies, QuitsOK

\* The coordinator takes a command that is not to take the tab out.
LEMMA Taken ==
  ASSUME NEW t, NEW c, NEW u, NEW d, NEW q, NEW s, Seen(t, c, u, d, q, s),
         NEW v, Rest(u, v), s.id # 0 => ~Undoes(u[1], s),
         NEW p, \A i \in DOMAIN p : Own(t, c, p, i) =>
           p[i].command = u[1] \/ \E j \in DOMAIN q : Own(t, c, q, j) /\ p[i].command = q[j].command
  PROVE  Seen(t, c, v, d, p, s)
<1>. SUFFICES ASSUME Certain(c, d)
              PROVE  Claim(c, v, d, s) /\ QuitReplies(c, v, d, s) /\ QuitsOK(t, c, v, p, s)
  BY DEF Seen
<1>1. Claim(c, u, d, s) /\ QuitReplies(c, u, d, s) /\ QuitsOK(t, c, u, q, s) BY DEF Seen
<1>2. /\ DOMAIN u \subseteq Nat /\ DOMAIN v \subseteq Nat /\ 1 \in DOMAIN u
      /\ \A i \in DOMAIN v : i + 1 \in DOMAIN u /\ v[i] = u[i + 1] /\ 1 < i + 1
      /\ \A i \in DOMAIN u : i = 1 \/ (1 < i /\ i - 1 \in DOMAIN v /\ u[i] = v[i - 1])
  BY DEF Rest
<1>3. s.id # 0 => (Sent(u, s) => Sent(v, s)) BY <1>2 DEF Sent
<1>4. Undoing(c, u, d, s) => Undoing(c, v, d, s) BY <1>3 DEF Undoing
<1>5. Claim(c, v, d, s) BY <1>1, <1>4 DEF Claim
<1>6. QuitReplies(c, v, d, s) BY <1>1, <1>4 DEF QuitReplies
<1>7. QuitsOK(t, c, v, p, s)
  <2>. SUFFICES ASSUME NEW j \in DOMAIN v, Quits(v[j])
                PROVE  /\ \A i \in DOMAIN v : i < j => v[i].type \notin Entering
                       /\ \A i \in DOMAIN p : Own(t, c, p, i) => p[i].command.type \notin Entering
                       /\ s.id = 0 \/ s.intent = v[j].intent
                          \/ \E i \in DOMAIN v : i < j /\ Undoes(v[i], s)
    BY DEF QuitsOK
  <2>1. j + 1 \in DOMAIN u /\ Quits(u[j + 1]) /\ u[j + 1] = v[j] /\ j \in Nat BY <1>2
  <2>2. /\ \A i \in DOMAIN u : i < j + 1 => u[i].type \notin Entering
        /\ \A i \in DOMAIN q : Own(t, c, q, i) => q[i].command.type \notin Entering
        /\ s.id = 0 \/ s.intent = u[j + 1].intent
           \/ \E i \in DOMAIN u : i < j + 1 /\ Undoes(u[i], s)
    BY <1>1, <2>1 DEF QuitsOK
  <2>4. u[1].type \notin Entering BY <1>2, <2>1, <2>2
  <2>5. \A i \in DOMAIN p : Own(t, c, p, i) => p[i].command.type \notin Entering BY <2>2, <2>4
  <2>6. ASSUME s.id # 0, NEW i \in DOMAIN u, i < j + 1, Undoes(u[i], s)
        PROVE  \E n \in DOMAIN v : n < j /\ Undoes(v[n], s)
    BY <2>6, <1>2, <2>1
  <2>. QED BY <2>1, <2>2, <1>2, <2>5, <2>6
<1>. QED BY <1>5, <1>6, <1>7

\* A derivation is over, or somebody else's.
LEMMA Unqueued ==
  ASSUME NEW t, NEW c, NEW u, NEW d, NEW q, NEW s, Seen(t, c, u, d, q, s),
         NEW p, \A i \in DOMAIN p : Own(t, c, p, i) =>
           \E j \in DOMAIN q : Own(t, c, q, j) /\ p[i].command = q[j].command
  PROVE  Seen(t, c, u, d, p, s)
BY DEF QuitsOK, Seen
\* An attempt succeeds, and the reply says so.
LEMMA Admitted ==
  ASSUME NEW t, NEW c, c.asked \in Nat, NEW v, NEW d, NEW p, Ties(t, c, v, d, p),
         NEW x, Spare(t, c, v, d, p, x), x.type \in Entering,
         \A j \in DOMAIN d : ~Greets(d[j]),
         NEW r, Settle(x, "ok", r), r = Shown(r.id, r.intent, r.host),
         NEW f, NEW n, Plus(d, Reply(x, "ok", r), f, n)
  PROVE  Seen(t, c, v, f, p, r)
<1>. SUFFICES ASSUME Certain(c, f)
              PROVE  Claim(c, v, f, r) /\ QuitReplies(c, v, f, r) /\ QuitsOK(t, c, v, p, r)
  BY DEF Seen
<1>. DEFINE m == Reply(x, "ok", r)
<1>1. /\ \A j \in DOMAIN f : j = n \/ (j \in DOMAIN d /\ f[j] = d[j] /\ j < n /\ j \in Nat)
      /\ n \in DOMAIN f /\ f[n] = m /\ n \in Nat
  BY DEF Plus
<1>2. /\ m.type = "result" /\ m.n = x.n /\ m.code = "ok"
      /\ m.room = r.id /\ m.intent = r.intent
      /\ Shown(m.room, m.intent, m.host) = Shown(r.id, r.intent, r.host)
  BY DEF Reply
<1>3. Value(m) = r BY <1>2 DEF Value
<1>. HIDE DEF m
<1>4. /\ Upward(c, v) /\ Downward(c, d) /\ Waits(c)
      /\ \A w \in c.waiting \cup c.lost : w.n \in 2..(c.asked + 1)
  BY DEF Ties, Numbers, Matches, Downward
<1>5. r.id # 0 /\ r.intent = x.intent /\ (x.type = "create" => r.host) BY DEF Settle
<1>6. Still(c, f, n) BY <1>1 DEF Still
<1>7. PICK w \in c.waiting \cup c.lost :
        /\ w.n = x.n /\ w.type = x.type /\ w.intent = x.intent
        /\ w \in c.waiting \/ \A y \in c.waiting : y.n # x.n
  BY DEF Spare, Fits
<1>8. x.n # 0 /\ x.n \in Nat /\ w.n \in Nat BY <1>4, <1>7
<1>9. /\ x.type = "create" => \A j \in DOMAIN d : d[j].type = "result" => d[j].n < x.n
      /\ \A i \in DOMAIN v : v[i].n # 0 => x.n < v[i].n
  BY <1>8 DEF Spare
<1>10. w \in c.waiting
  <2>. SUFFICES ASSUME w \notin c.waiting, w \in c.lost PROVE FALSE BY <1>7
  <2>1. PICK j \in DOMAIN f : Greets(f[j]) \/ Covers(c, f[j]) BY DEF Certain
  <2>2. ~Greets(f[j]) BY <1>1, <1>2, <1>4, <1>7 DEF Greets
  <2>3. PICK z \in c.waiting : z.type = "create" /\ Wins(f[j], z) /\ \A y \in c.lost : ~Outlives(y, z)
    BY <2>1, <2>2 DEF Covers
  <2>4. w.type = "create" /\ ~(w.n > z.n) /\ z.n \in Nat BY <1>4, <2>3 DEF Outlives
  <2>5. j # n BY <1>1, <1>2, <1>7, <2>3 DEF Wins
  <2>6. d[j].n = z.n /\ j \in DOMAIN d /\ d[j].type = "result" BY <1>1, <2>3, <2>5 DEF Wins
  <2>7. d[j].n < x.n BY <1>7, <1>9, <2>4, <2>6
  <2>. QED BY <1>7, <1>8, <2>4, <2>6, <2>7
<1>11. Wins(m, w) /\ w.type \in Entering BY <1>2, <1>7 DEF Wins
<1>12. QuitsOK(t, c, v, p, r)
  <2>1. \A j \in DOMAIN v : ~Quits(v[j])
    <3>. SUFFICES ASSUME NEW j \in DOMAIN v, Quits(v[j]) PROVE FALSE OBVIOUS
    <3>1. w.n >= v[j].n /\ v[j].n \in Nat /\ v[j].n # 0 BY <1>4, <1>10 DEF Upward, Quits
    <3>. QED BY <1>7, <1>8, <1>9, <3>1
  <2>. QED BY <2>1 DEF QuitsOK
<1>13. CASE w.stale
  <2>1. Outdated(c, m, r)
    <3>1. w.intent = r.intent /\ (w.type = "create" => r.host) BY <1>5, <1>7
    <3>. QED BY <1>10, <1>11, <1>13, <3>1, Zenon DEF Outdated
  <2>2. Undoing(c, v, f, r) BY <1>1, <1>5, <1>6, <2>1 DEF Undoing, Late
  <2>. QED BY <1>12, <2>2 DEF Claim, QuitReplies
<1>14. CASE ~w.stale
  <2>1. Informs(c, m) BY <1>10, <1>11, <1>14, Zenon DEF Informs, Won
  <2>2. Claim(c, v, f, r) BY <1>1, <1>3, <1>6, <2>1 DEF Same, Claim, Shows, Latest
  <2>3. QuitReplies(c, v, f, r)
    <3>. SUFFICES ASSUME NEW j \in DOMAIN f, NEW y \in c.waiting, y.type \notin Entering, Wins(f[j], y)
                  PROVE  ~Still(c, f, j)
      BY DEF QuitReplies
    <3>1. j # n
      <4>. SUFFICES ASSUME j = n PROVE FALSE OBVIOUS
      <4>1. y.n = w.n BY <1>1, <1>11 DEF Wins
      <4>2. y = w BY <1>4, <1>10, <4>1 DEF Waits
      <4>. QED BY <1>11, <4>2
    <3>. QED BY <1>1, <2>1, <3>1 DEF Still
  <2>. QED BY <1>12, <2>2, <2>3
<1>. QED BY <1>13, <1>14
\* No derivation of the tab is new.
Narrows(t, c, q, p) ==
  \A i : Own(t, c, p, i) => \E j \in DOMAIN q : Own(t, c, q, j) /\ p[i].command = q[j].command

\* The reply to a command, if it wants one.
Mailed(x, code, r, e, f) == f = IF x.n # 0 THEN Append(e, Reply(x, code, r)) ELSE e

\* A command is handled, or refused, and answered if it is to be.
LEMMA Handled ==
  ASSUME NEW t, NEW c, c.asked \in Nat, NEW u, NEW d, NEW q, NEW s, Seen(t, c, u, d, q, s), IsSeq(d),
         NEW v, NEW p, NEW x, Ties(t, c, v, d, p), Spare(t, c, v, d, p, x),
         Narrows(t, c, q, p),
         \/ Rest(u, v) /\ x = u[1]
         \/ v = u /\ x.type \in {"join", "access"},
         x.n # 1, x.type \in Entering => \A j \in DOMAIN d : ~Greets(d[j]),
         NEW r, NEW e, NEW code, Moved(x, TRUE, s, r, d, e),
         \/ Settle(x, code, r)
         \/ r = s /\ e = d /\ code # "ok" /\ x.type \notin Withdraws,
         s.id = 0 /\ r.id # 0 => code = "ok",
         r = Shown(r.id, r.intent, r.host),
         NEW f, Mailed(x, code, r, e, f)
  PROVE  Seen(t, c, v, f, p, r)
<1>. DEFINE m == Reply(x, code, r)
<1>0. f = IF x.n # 0 THEN Append(e, Reply(x, code, r)) ELSE e BY DEF Mailed
<1>1. m.type = "result" /\ m.n = x.n /\ m.code = code BY DEF Reply
<1>2. /\ Waits(c) /\ \A w \in c.waiting \cup c.lost : w.n \in 2..(c.asked + 1)
      /\ \A w \in c.waiting : w.n = x.n => w.type = x.type
      /\ x.type \in Entering => \E w \in c.waiting \cup c.lost : w.n = x.n
  BY DEF Ties, Numbers, Matches, Downward, Spare, Fits
<1>3. CASE x.type \in Entering /\ code = "ok"
  <2>1. x.n # 0 BY <1>2, <1>3
  <2>2. Settle(x, "ok", r) /\ e = d /\ f = Append(d, Reply(x, "ok", r))
    BY <1>0, <1>3, <2>1 DEF Moved
  <2>3. PICK n : Plus(d, Reply(x, "ok", r), f, n) BY <2>2, AppendPlus
  <2>. QED BY <1>3, <2>2, <2>3, Admitted
<1>4. CASE ~(x.type \in Entering /\ code = "ok")
  <2>1. Seen(t, c, u, e, q, r) /\ IsSeq(e)
    <3>1. CASE r = s /\ e = d BY <3>1
    <3>2. CASE ~(r = s /\ e = d)
      <4>1. x.type \notin Entering BY <1>4, <3>2 DEF Moved
      <4>2. PICK reason : r = Nowhere /\ e = Append(d, Ended(reason)) BY <3>2, <4>1 DEF Moved
      <4>3. PICK n : Plus(d, Ended(reason), e, n) BY <4>2, AppendPlus
      <4>4. IsSeq(e) BY <4>2, AppendPlus
      <4>. QED BY <4>2, <4>3, <4>4, Gone
    <3>. QED BY <3>1, <3>2
  <2>2. r.id # 0 => ~Undoes(x, r) BY DEF Undoes, Withdraws, Settle
  <2>3. Seen(t, c, v, e, p, r) BY <2>1, <2>2, Taken, Unqueued DEF Narrows
  <2>. HIDE DEF m
  <2>4. CASE x.n # 0
    <3>1. \A w \in c.waiting : Wins(m, w) => w.type \notin Entering /\ w.type = x.type /\ code = "ok"
      BY <1>1, <1>2, <1>4 DEF Wins
    <3>2. ~Greets(m) /\ ~Won(c, m) BY <1>1, <3>1 DEF Greets, Won
    <3>3. NoNews(c, m) BY <1>1, <3>1, <3>2 DEF NoNews, Informs
    <3>4. ASSUME Certain(c, e), NEW w \in c.waiting, Wins(m, w)
          PROVE  r.id = 0
      BY <1>2, <3>1, <3>4, <2>4, <2>1 DEF Waits, Entering, Settle, Quits, Rest, Seen, QuitsOK
    <3>5. PICK n : Plus(e, m, f, n) BY <1>0, <2>1, <2>4, AppendPlus DEF m
    <3>. QED BY <2>3, <3>3, <3>4, <3>5, Answered
  <2>5. CASE x.n = 0 BY <1>0, <2>3, <2>5
  <2>. QED BY <2>4, <2>5
<1>. QED BY <1>3, <1>4

\* A hello is answered: the tab is told where it is.
LEMMA Welcomed ==
  ASSUME NEW t, NEW c, c.waiting = {}, NEW v, \A j \in DOMAIN v : ~Quits(v[j]), NEW d, NEW p,
         NEW r, r = Shown(r.id, r.intent, r.host), NEW x, x.n = 1,
         NEW code, NEW f, NEW n, Plus(d, Reply(x, code, r), f, n)
  PROVE  Seen(t, c, v, f, p, r)
<1>. DEFINE m == Reply(x, code, r)
<1>1. /\ \A j \in DOMAIN f : j = n \/ (j \in DOMAIN d /\ f[j] = d[j] /\ j < n /\ j \in Nat)
      /\ n \in DOMAIN f /\ f[n] = m /\ n \in Nat
  BY DEF Plus
<1>3. Value(m) = r /\ Informs(c, m) BY DEF Value, Informs, Greets, Reply
<1>. HIDE DEF m
<1>4. Still(c, f, n) /\ Same(r, r) BY <1>1 DEF Still, Same
<1>5. Claim(c, v, f, r) BY <1>1, <1>3, <1>4 DEF Claim, Shows, Latest
<1>. QED BY <1>5 DEF Seen, QuitReplies, QuitsOK

\* A command waits for its derivation.
LEMMA Deferred ==
  ASSUME NEW t, NEW c, NEW u, NEW d, NEW q, NEW s, Seen(t, c, u, d, q, s), NEW v, Rest(u, v),
         u[1].type \notin Withdraws, NEW w, w.command = u[1], NEW p, NEW n, Plus(q, w, p, n)
  PROVE  Seen(t, c, v, d, p, s)
BY Taken DEF Undoes, Plus, Own

\* The tab is where it was, or it is out and has been told.
LEMMA Beside ==
  ASSUME NEW t, NEW c, NEW u, NEW d, NEW q, NEW s, Seen(t, c, u, d, q, s), IsSeq(d), NEW p, Others(t, q, p),
         NEW r, NEW e, \/ r = s /\ e = d
                       \/ r = Nowhere /\ \E reason : e = Append(d, Ended(reason))
  PROVE  Seen(t, c, u, e, p, r)
<1>1. Seen(t, c, u, e, q, r)
  <2>1. CASE r = s /\ e = d BY <2>1
  <2>2. CASE r = Nowhere /\ \E reason : e = Append(d, Ended(reason))
    <3>1. PICK reason : e = Append(d, Ended(reason)) BY <2>2
    <3>2. PICK n : Plus(d, Ended(reason), e, n) BY <3>1, AppendPlus
    <3>. QED BY <2>2, <3>2, Gone
  <2>. QED BY <2>1, <2>2
<1>. QED BY <1>1, Unqueued DEF Others, Own

-----------------------------------------------------------------------------
(* The tab's part in it.                                                   *)

\* Some requests are not wanted any more: what they would have shown is undone.
LEMMA Fading ==
  ASSUME NEW t, NEW c, NEW u, NEW d, NEW q, NEW s, Seen(t, c, u, d, q, s), Awards(c, d),
         DOMAIN d \subseteq Nat \ {0},
         NEW e, e.socket = c.socket, e.room = c.room, e.blind = c.blind, e.lost = c.lost,
         Fades(c.waiting, e.waiting)
  PROVE  Seen(t, e, u, d, q, s)
<1>. SUFFICES ASSUME Certain(e, d)
              PROVE  Claim(e, u, d, s) /\ QuitReplies(e, u, d, s) /\ QuitsOK(t, e, u, q, s)
  BY DEF Seen
<1>1. ASSUME NEW w \in e.waiting
      PROVE  \E y \in c.waiting : w.n = y.n /\ w.type = y.type /\ w.intent = y.intent
                                  /\ (~w.stale => ~y.stale)
  BY DEF Fades, Faded
<1>2. ASSUME NEW y \in c.waiting
      PROVE  \E w \in e.waiting : w.n = y.n /\ w.type = y.type /\ w.intent = y.intent
                                  /\ (y.stale => w.stale)
  BY DEF Fades, Faded
<1>3. \A m : Won(e, m) => Won(c, m)
  <2>. SUFFICES ASSUME NEW m, NEW w \in e.waiting, w.type \in Entering, ~w.stale, Wins(m, w)
                PROVE  Won(c, m)
    BY Zenon DEF Won
  <2>1. PICK y \in c.waiting : w.n = y.n /\ w.type = y.type /\ ~y.stale BY <1>1, Zenon
  <2>2. Wins(m, y) /\ y.type \in Entering BY <2>1 DEF Wins
  <2>. QED BY <2>1, <2>2, Zenon DEF Won
<1>4. \A m : Informs(e, m) => Informs(c, m) BY <1>3 DEF Informs
<1>5. \A i : Still(c, d, i) => Still(e, d, i) BY <1>4 DEF Still
<1>6. ASSUME NEW m, Outdated(c, m, s) PROVE Outdated(e, m, s)
  <2>1. PICK y \in c.waiting : y.type \in Entering /\ y.stale /\ Wins(m, y) /\ y.intent = s.intent
                               /\ (y.type = "create" => s.host)
    BY <1>6, Zenon DEF Outdated
  <2>2. PICK w \in e.waiting : w.n = y.n /\ w.type = y.type /\ w.intent = y.intent /\ w.stale
    BY <1>2, <2>1, Zenon
  <2>3. Wins(m, w) /\ w.type \in Entering /\ w.intent = s.intent /\ (w.type = "create" => s.host)
    BY <2>1, <2>2 DEF Wins
  <2>. QED BY <2>2, <2>3, Zenon DEF Outdated
<1>7. Undoing(c, u, d, s) => Undoing(e, u, d, s) BY <1>5, <1>6 DEF Undoing, Late
<1>8. ASSUME NEW m, Covers(e, m) PROVE Covers(c, m)
  <2>1. PICK w \in e.waiting : w.type = "create" /\ ~w.stale /\ Wins(m, w)
                               /\ \A v \in e.lost : ~Outlives(v, w)
    BY <1>8, Zenon DEF Covers
  <2>2. PICK y \in c.waiting : w.n = y.n /\ w.type = y.type /\ ~y.stale BY <1>1, <2>1, Zenon
  <2>3. Wins(m, y) /\ y.type = "create" /\ \A v \in c.lost : ~Outlives(v, y)
    BY <2>1, <2>2 DEF Wins, Outlives
  <2>. QED BY <2>2, <2>3, Zenon DEF Covers
<1>9. Claim(c, u, d, s) /\ QuitReplies(c, u, d, s) /\ QuitsOK(t, c, u, q, s)
  BY <1>8 DEF Certain, Seen
<1>10. ASSUME NEW i \in DOMAIN d, Informs(c, d[i]), Still(c, d, i), Same(Value(d[i]), s), ~Informs(e, d[i])
       PROVE  Undoing(e, u, d, s)
  <2>. DEFINE m == d[i]
  <2>1. Won(c, m) /\ ~Won(e, m) BY <1>10 DEF Informs
  <2>2. PICK y \in c.waiting : y.type \in Entering /\ Wins(m, y) BY <2>1, Zenon DEF Won
  <2>3. PICK w \in e.waiting : w.n = y.n /\ w.type = y.type /\ w.intent = y.intent
    BY <1>2, <2>2, Zenon
  <2>4. Wins(m, w) /\ w.type \in Entering BY <2>2, <2>3 DEF Wins
  <2>5. w.stale BY <2>1, <2>4, Zenon DEF Won
  <2>6. m.room # 0 /\ m.intent = w.intent /\ (w.type = "create" => m.host) /\ m.type # "ended"
    BY <2>2, <2>3 DEF Awards, Wins
  <2>7. s.id # 0 /\ s = Shown(m.room, m.intent, m.host) BY <1>10, <2>6 DEF Value, Same, Shown
  <2>8. w.intent = s.intent /\ (w.type = "create" => s.host) BY <2>6, <2>7 DEF Shown
  <2>. HIDE DEF m
  <2>9. Outdated(e, m, s) BY <2>4, <2>5, <2>8, Zenon DEF Outdated
  <2>. QED BY <1>5, <1>10, <2>7, <2>9 DEF Undoing, Late, m
<1>12. Ignores(c, d) => Ignores(e, d) BY <1>5, Zenon DEF Ignores, Overlooked
<1>13. Claim(e, u, d, s) BY <1>7, <1>9, <1>5, <1>10, <1>12 DEF Claim, Shows, Latest
<1>14. QuitReplies(e, u, d, s)
  <2>. SUFFICES ASSUME NEW j \in DOMAIN d, NEW w \in e.waiting, w.type \notin Entering, Wins(d[j], w),
                       s.id # 0, ~Undoing(e, u, d, s), Still(e, d, j)
                PROVE  FALSE
    BY DEF QuitReplies
  <2>1. PICK y \in c.waiting : w.n = y.n /\ w.type = y.type BY <1>1, Zenon
  <2>2. ~Still(c, d, j) BY <1>7, <1>9, <2>1 DEF QuitReplies, Wins
  <2>3. Shows(c, d, s) BY <1>7, <1>9 DEF Claim
  <2>4. ~Still(c, d, 0) BY <2>2 DEF Still
  <2>5. PICK i \in DOMAIN d : Informs(c, d[i]) /\ Still(c, d, i) /\ Same(Value(d[i]), s)
    BY <2>3, <2>4 DEF Shows, Latest
  <2>6. Informs(e, d[i]) BY <1>10, <2>5
  <2>7. ~(j < i) BY <2>6 DEF Still
  <2>8. Still(c, d, j) BY <2>5, <2>7 DEF Still
  <2>. QED BY <2>2, <2>8
<1>15. QuitsOK(t, e, u, q, s) BY <1>9 DEF QuitsOK, Own
<1>. QED BY <1>13, <1>14, <1>15

\* A request to which the mail holds no answer.
LEMMA Waiting ==
  ASSUME NEW t, NEW c, NEW u, NEW d, NEW q, NEW s, Seen(t, c, u, d, q, s),
         NEW e, e.socket = c.socket, e.room = c.room, e.blind = c.blind, e.lost = c.lost,
         NEW w, e.waiting = c.waiting \cup {w}, \A j \in DOMAIN d : d[j].type = "result" => d[j].n # w.n
  PROVE  Seen(t, e, u, d, q, s)
<1>1. \A j \in DOMAIN d : ~Wins(d[j], w) BY DEF Wins
<1>2. \A j \in DOMAIN d : Won(e, d[j]) <=> Won(c, d[j]) BY <1>1, Zenon DEF Won
<1>3. \A j \in DOMAIN d : Informs(e, d[j]) <=> Informs(c, d[j]) BY <1>2 DEF Informs
<1>4. \A j \in DOMAIN d : Outdated(e, d[j], s) <=> Outdated(c, d[j], s) BY <1>1, Zenon DEF Outdated
<1>5. \A j \in DOMAIN d : Covers(e, d[j]) <=> Covers(c, d[j]) BY <1>1, Zenon DEF Covers
<1>6. \A i : Still(e, d, i) <=> Still(c, d, i) BY <1>3 DEF Still
<1>7. Certain(e, d) <=> Certain(c, d) BY <1>5 DEF Certain
<1>8. Undoing(c, u, d, s) <=> Undoing(e, u, d, s) BY <1>4, <1>6 DEF Undoing, Late
<1>9. Shows(c, d, s) <=> Shows(e, d, s) BY <1>3, <1>6 DEF Shows, Latest
<1>10. Ignores(c, d) <=> Ignores(e, d) BY <1>6, Zenon DEF Ignores, Overlooked
<1>11. Claim(c, u, d, s) <=> Claim(e, u, d, s) BY <1>8, <1>9, <1>10 DEF Claim
<1>12. QuitReplies(c, u, d, s) => QuitReplies(e, u, d, s) BY <1>1, <1>6, <1>8 DEF QuitReplies
<1>13. QuitsOK(t, c, u, q, s) => QuitsOK(t, e, u, q, s) BY DEF QuitsOK, Own
<1>. QED BY <1>7, <1>11, <1>12, <1>13 DEF Seen

\* A command more, which is not to take the tab out of a room.
LEMMA Sending ==
  ASSUME NEW t, NEW c, NEW u, NEW d, NEW q, NEW s, Seen(t, c, u, d, q, s),
         NEW x, ~Quits(x), NEW v, NEW n, Plus(u, x, v, n)
  PROVE  Seen(t, c, v, d, q, s)
<1>1. /\ \A j \in DOMAIN v : j = n \/ (j \in DOMAIN u /\ v[j] = u[j])
      /\ \A j \in DOMAIN u : j \in DOMAIN v /\ v[j] = u[j] /\ j < n /\ j \in Nat
      /\ v[n] = x /\ n \in Nat
  BY DEF Plus
<1>2. Sent(u, s) => Sent(v, s) BY <1>1 DEF Sent
<1>3. Undoing(c, u, d, s) => Undoing(c, v, d, s) BY <1>2 DEF Undoing
<1>4. Claim(c, u, d, s) => Claim(c, v, d, s) BY <1>3 DEF Claim
<1>5. QuitReplies(c, u, d, s) => QuitReplies(c, v, d, s) BY <1>3 DEF QuitReplies
<1>6. QuitsOK(t, c, u, q, s) => QuitsOK(t, c, v, q, s)
  <2>. SUFFICES ASSUME QuitsOK(t, c, u, q, s), NEW j \in DOMAIN v, Quits(v[j])
                PROVE  /\ \A i \in DOMAIN v : i < j => v[i].type \notin Entering
                       /\ \A i \in DOMAIN q : Own(t, c, q, i) => q[i].command.type \notin Entering
                       /\ s.id = 0 \/ s.intent = v[j].intent
                          \/ \E i \in DOMAIN v : i < j /\ Undoes(v[i], s)
    BY DEF QuitsOK
  <2>1. j # n /\ j \in DOMAIN u /\ Quits(u[j]) /\ v[j] = u[j] BY <1>1
  <2>2. \A i \in DOMAIN v : i < j => i \in DOMAIN u BY <1>1, <2>1
  <2>. QED BY <1>1, <2>1, <2>2 DEF QuitsOK
<1>. QED BY <1>4, <1>5, <1>6 DEF Seen
\* A guest leaves the room it is shown: either that is where it is, or it is out
\* already, or will be by the time its command comes.
LEMMA Quitting ==
  ASSUME NEW t, NEW c, NEW u, NEW d, NEW q, NEW s, Seen(t, c, u, d, q, s),
         \A w \in c.waiting : w.type \notin Entering, \A j \in DOMAIN d : ~Greets(d[j]),
         c.lost = {} => /\ \A i \in DOMAIN u : u[i].type \notin Entering
                        /\ \A i \in DOMAIN q : Own(t, c, q, i) => q[i].command.type \notin Entering,
         NEW x, x.intent = c.room.intent, NEW v, NEW n, Plus(u, x, v, n)
  PROVE  Seen(t, c, v, d, q, s)
<1>. SUFFICES ASSUME Certain(c, d)
              PROVE  Claim(c, v, d, s) /\ QuitReplies(c, v, d, s) /\ QuitsOK(t, c, v, q, s)
  BY DEF Seen
<1>1. /\ \A j \in DOMAIN v : j = n \/ (j \in DOMAIN u /\ v[j] = u[j])
      /\ \A j \in DOMAIN u : j \in DOMAIN v /\ v[j] = u[j] /\ j < n /\ j \in Nat
      /\ v[n] = x /\ n \in Nat
  BY DEF Plus
<1>2. Claim(c, u, d, s) /\ QuitReplies(c, u, d, s) /\ QuitsOK(t, c, u, q, s) BY DEF Seen
<1>3. Sent(u, s) => Sent(v, s) BY <1>1 DEF Sent
<1>4. Undoing(c, u, d, s) => Undoing(c, v, d, s) BY <1>3 DEF Undoing
<1>5. Claim(c, v, d, s) /\ QuitReplies(c, v, d, s) BY <1>2, <1>4 DEF Claim, QuitReplies
<1>6. c.lost = {} BY DEF Certain, Covers, Entering
<1>7. s.id = 0 \/ s.intent = x.intent \/ Sent(u, s)
  <2>1. CASE Undoing(c, u, d, s) BY <2>1 DEF Late, Outdated, Undoing
  <2>2. CASE Still(c, d, 0) /\ Same(c.room, s) BY <2>2 DEF Same
  <2>3. CASE Latest(c, d, s)
    <3>1. PICK i \in DOMAIN d : Informs(c, d[i]) /\ Same(Value(d[i]), s) BY <2>3 DEF Latest
    <3>2. d[i].type = "ended" BY <3>1 DEF Informs, Won
    <3>. QED BY <3>1, <3>2 DEF Value, Same, Nowhere, Shown
  <2>. QED BY <1>2, <2>1, <2>2, <2>3 DEF Claim, Shows
<1>8. QuitsOK(t, c, v, q, s)
  <2>. SUFFICES ASSUME NEW j \in DOMAIN v, Quits(v[j])
                PROVE  /\ \A i \in DOMAIN v : i < j => v[i].type \notin Entering
                       /\ \A i \in DOMAIN q : Own(t, c, q, i) => q[i].command.type \notin Entering
                       /\ s.id = 0 \/ s.intent = v[j].intent
                          \/ \E i \in DOMAIN v : i < j /\ Undoes(v[i], s)
    BY DEF QuitsOK
  <2>1. CASE j = n BY <1>1, <1>6, <2>1, <1>7 DEF Sent
  <2>2. CASE j # n BY <1>1, <2>2, <1>2 DEF QuitsOK
  <2>. QED BY <2>1, <2>2
<1>. QED BY <1>5, <1>8

\* A request is given up: the tab knows no more where it is, but for a creation
\* that a later creation has made obsolete.
LEMMA TimedOut ==
  ASSUME NEW t, NEW c, NEW u, NEW d, NEW q, NEW s, Seen(t, c, u, d, q, s), Waits(c), Downward(c, d),
         \A j \in DOMAIN d : ~Greets(d[j]), DOMAIN d \subseteq Nat,
         NEW e, e.socket = c.socket, e.room = c.room, e.blind = c.blind, NEW w \in c.waiting,
         e.waiting = c.waiting \ {w},
         e.lost = IF w.type \in Entering THEN c.lost \cup {w} ELSE c.lost
  PROVE  Seen(t, e, u, d, q, s)
<1>. SUFFICES ASSUME Certain(e, d)
              PROVE  Claim(e, u, d, s) /\ QuitReplies(e, u, d, s) /\ QuitsOK(t, e, u, q, s)
  BY DEF Seen
<1>1. /\ \A m : Won(e, m) => Won(c, m)
      /\ \A m : ~Wins(m, w) => (Won(c, m) => Won(e, m)) /\ (Outdated(c, m, s) => Outdated(e, m, s))
      /\ w.type \notin Entering => \A m : (Won(c, m) => Won(e, m)) /\ (Outdated(c, m, s) => Outdated(e, m, s))
  BY Zenon DEF Won, Outdated
<1>2. /\ \A m : Informs(e, m) => Informs(c, m)
      /\ \A m : ~Wins(m, w) \/ w.type \notin Entering => (Informs(c, m) => Informs(e, m))
  BY <1>1 DEF Informs
<1>3. /\ Certain(c, d)
      /\ \A i \in Nat : Still(c, d, i) <=> Still(e, d, i)
      /\ \A i \in DOMAIN d : Still(c, d, i) => ~Wins(d[i], w) \/ w.type \notin Entering
  <2>1. CASE w.type \notin Entering
    <3>1. \A m : Covers(e, m) => Covers(c, m) BY <2>1, Zenon DEF Covers
    <3>2. Certain(c, d) BY <2>1, <3>1 DEF Certain
    <3>3. \A i \in Nat : Still(c, d, i) <=> Still(e, d, i) BY <1>2, <2>1 DEF Still
    <3>. QED BY <2>1, <3>2, <3>3
  <2>2. CASE w.type \in Entering
    <3>1. PICK j \in DOMAIN d : Covers(e, d[j]) BY <2>2 DEF Certain
    <3>2. PICK z \in e.waiting : z.type = "create" /\ ~z.stale /\ Wins(d[j], z)
                                 /\ \A v \in e.lost : ~Outlives(v, z)
      BY <3>1, Zenon DEF Covers
    <3>3. w.type = "create" /\ ~(w.n > z.n) /\ z \in c.waiting /\ z # w /\ w.n # z.n
      BY <2>2, <3>2 DEF Outlives, Waits
    <3>4. w.n \in Nat /\ z.n \in Nat BY <3>3 DEF Downward
    <3>5. ASSUME NEW i \in DOMAIN d, Wins(d[i], w) PROVE i < j
      BY <3>2, <3>5, <3>3, <3>4 DEF Wins, Downward
    <3>6. Informs(e, d[j]) BY <3>2, Zenon DEF Informs, Won, Entering
    <3>7. Certain(c, d)
      <4>1. Covers(c, d[j])
        <5>1. \A v \in c.lost : v \in e.lost BY <2>2
        <5>. QED BY <3>2, <3>3, <5>1, Zenon DEF Covers
      <4>. QED BY <4>1 DEF Certain
    <3>8. \A i \in Nat : Still(c, d, i) <=> Still(e, d, i)
      <4>2. ASSUME NEW i \in Nat, Still(e, d, i), NEW n \in DOMAIN d, i < n, Informs(c, d[n])
            PROVE  FALSE
        BY <4>2, <1>2, <3>5, <3>6 DEF Still
      <4>. QED BY <1>2, <4>2 DEF Still
    <3>9. \A i \in DOMAIN d : Still(c, d, i) => ~Wins(d[i], w) BY <1>2, <3>5, <3>6 DEF Still
    <3>. QED BY <3>7, <3>8, <3>9
  <2>. QED BY <2>1, <2>2
<1>4. Claim(c, u, d, s) /\ QuitReplies(c, u, d, s) /\ QuitsOK(t, c, u, q, s) BY <1>3 DEF Seen
<1>5. Late(c, d, s) => Late(e, d, s)
  <2>. SUFFICES ASSUME NEW j \in DOMAIN d, Still(c, d, j), Outdated(c, d[j], s)
                PROVE  Late(e, d, s)
    BY DEF Late
  <2>1. Still(e, d, j) /\ Outdated(e, d[j], s) BY <1>1, <1>3
  <2>. QED BY <2>1 DEF Late
<1>6. Undoing(c, u, d, s) => Undoing(e, u, d, s) BY <1>5 DEF Undoing
<1>7. Latest(c, d, s) => Latest(e, d, s)
  <2>. SUFFICES ASSUME NEW i \in DOMAIN d, Informs(c, d[i]), Still(c, d, i), Same(Value(d[i]), s)
                PROVE  Latest(e, d, s)
    BY DEF Latest
  <2>1. Still(e, d, i) /\ Informs(e, d[i]) BY <1>2, <1>3
  <2>. QED BY <2>1 DEF Latest
<1>8. Shows(c, d, s) => Shows(e, d, s) BY <1>3, <1>7 DEF Shows
<1>9. Ignores(c, d) => Ignores(e, d) BY <1>3, Zenon DEF Ignores, Overlooked
<1>10. Claim(e, u, d, s) BY <1>4, <1>6, <1>8, <1>9 DEF Claim
<1>11. QuitReplies(e, u, d, s) BY <1>3, <1>4, <1>6 DEF QuitReplies
<1>12. QuitsOK(t, e, u, q, s) BY <1>4 DEF QuitsOK, Own
<1>. QED BY <1>10, <1>11, <1>12
\* A message is read: what the rest of the mail says stays the same.
LEMMA Reads ==
  ASSUME NEW c, NEW d, NEW f, Rest(d, f), NEW e,
         \A w \in e.waiting : w \in c.waiting,
         \A w \in c.waiting : w \in e.waiting \/ \A j \in DOMAIN d : 1 < j => ~Wins(d[j], w)
  PROVE  /\ Still(c, d, 1) <=> Still(e, f, 0)
         /\ Still(c, d, 0) => Still(e, f, 0) /\ ~Informs(c, d[1])
         /\ \A s : Late(c, d, s) => Late(e, f, s) \/ Outdated(c, d[1], s)
         /\ \A s : Latest(c, d, s) => \/ Latest(e, f, s)
                                      \/ Informs(c, d[1]) /\ Still(c, d, 1) /\ Same(Value(d[1]), s)
         /\ Overlooked(c, d) => Overlooked(e, f) \/ (OwnEnd(d[1]) /\ Still(c, d, 1))
         /\ \A u, v, s : QuitReplies(c, u, d, s) /\ (Undoing(c, u, d, s) => Undoing(e, v, f, s))
                         => QuitReplies(e, v, f, s)
<1>1. /\ DOMAIN d \subseteq Nat /\ DOMAIN f \subseteq Nat /\ 1 \in DOMAIN d
      /\ \A i \in DOMAIN f : i + 1 \in DOMAIN d /\ f[i] = d[i + 1] /\ 1 < i + 1
      /\ \A i \in DOMAIN d : i = 1 \/ (1 < i /\ i - 1 \in DOMAIN f /\ d[i] = f[i - 1])
  BY DEF Rest
<1>2. \A j \in DOMAIN d : 1 < j => (Won(c, d[j]) <=> Won(e, d[j])) BY Zenon DEF Won
<1>3. \A j \in DOMAIN d : 1 < j => (Informs(c, d[j]) <=> Informs(e, d[j])) BY <1>2 DEF Informs
<1>4. \A j \in DOMAIN d : \A s : 1 < j => (Outdated(c, d[j], s) <=> Outdated(e, d[j], s))
  BY Zenon DEF Outdated
<1>5. ASSUME NEW i \in Nat PROVE Still(c, d, i + 1) <=> Still(e, f, i)
  <2>1. ASSUME Still(c, d, i + 1), NEW j \in DOMAIN f, i < j PROVE ~Informs(e, f[j])
    BY <1>1, <2>1, <1>3 DEF Still
  <2>2. ASSUME Still(e, f, i), NEW j \in DOMAIN d, i + 1 < j PROVE ~Informs(c, d[j])
    BY <1>1, <2>2, <1>3 DEF Still
  <2>. QED BY <2>1, <2>2 DEF Still
<1>6. Still(c, d, 1) <=> Still(e, f, 0) BY <1>5
<1>7. Still(c, d, 0) => Still(c, d, 1) /\ ~Informs(c, d[1]) BY <1>1 DEF Still
<1>8. ASSUME NEW j \in DOMAIN d, j # 1
      PROVE  /\ j - 1 \in DOMAIN f /\ f[j - 1] = d[j] /\ 1 < j
             /\ Still(c, d, j) <=> Still(e, f, j - 1)
  BY <1>1, <1>8, <1>5
<1>9. ASSUME NEW s, Late(c, d, s), ~Outdated(c, d[1], s) PROVE Late(e, f, s)
  <2>1. PICK j \in DOMAIN d : Still(c, d, j) /\ Outdated(c, d[j], s) BY <1>9 DEF Late
  <2>2. j # 1 BY <1>9, <2>1
  <2>. QED BY <1>4, <1>8, <2>1, <2>2 DEF Late
<1>10. ASSUME NEW s, Latest(c, d, s)
       PROVE  \/ Latest(e, f, s)
              \/ Informs(c, d[1]) /\ Still(c, d, 1) /\ Same(Value(d[1]), s)
  <2>1. PICK j \in DOMAIN d : Informs(c, d[j]) /\ Still(c, d, j) /\ Same(Value(d[j]), s)
    BY <1>10 DEF Latest
  <2>2. CASE j = 1 BY <2>1, <2>2
  <2>3. CASE j # 1 BY <1>3, <1>8, <2>1, <2>3 DEF Latest
  <2>. QED BY <2>2, <2>3
<1>11. ASSUME Overlooked(c, d) PROVE Overlooked(e, f) \/ (OwnEnd(d[1]) /\ Still(c, d, 1))
  <2>1. PICK j \in DOMAIN d : OwnEnd(d[j]) /\ Still(c, d, j) BY <1>11 DEF Overlooked
  <2>2. CASE j = 1 BY <2>1, <2>2
  <2>3. CASE j # 1 BY <1>8, <2>1, <2>3 DEF Overlooked
  <2>. QED BY <2>2, <2>3
<1>12. ASSUME NEW u, NEW v, NEW s, QuitReplies(c, u, d, s),
              Undoing(c, u, d, s) => Undoing(e, v, f, s)
       PROVE  QuitReplies(e, v, f, s)
  <2>. SUFFICES ASSUME NEW j \in DOMAIN f, NEW w \in e.waiting, w.type \notin Entering, Wins(f[j], w)
                PROVE  s.id = 0 \/ Undoing(e, v, f, s) \/ ~Still(e, f, j)
    BY DEF QuitReplies
  <2>1. j + 1 \in DOMAIN d /\ f[j] = d[j + 1] /\ j \in Nat BY <1>1
  <2>. QED BY <1>5, <1>12, <2>1 DEF QuitReplies
<1>. QED BY <1>6, <1>7, <1>9, <1>10, <1>11, <1>12

\* The rest of the mail decides as much as all of it did.
LEMMA ReadsCertain ==
  ASSUME NEW c, NEW d, NEW f, Rest(d, f), NEW e, \A w \in e.waiting : w \in c.waiting,
         \A v \in c.lost : v \in e.lost, Certain(e, f)
  PROVE  Certain(c, d)
<1>1. \A m : Covers(e, m) => Covers(c, m) BY Zenon DEF Covers
<1>. QED BY <1>1 DEF Certain, Rest

\* A message that tells the tab where it is.
LEMMA ReadNews ==
  ASSUME NEW t, NEW c, NEW u, NEW d, NEW q, NEW s, Seen(t, c, u, d, q, s), NEW f, Rest(d, f), NEW e,
         \A w \in e.waiting : w \in c.waiting,
         \A w \in c.waiting : w \in e.waiting \/ \A j \in DOMAIN d : 1 < j => ~Wins(d[j], w),
         e.socket = c.socket, Informs(c, d[1]), ~OwnEnd(d[1]), ~Outdated(c, d[1], s),
         Same(Value(d[1]), s) => Same(e.room, s), Certain(e, f) => Certain(c, d)
  PROVE  Seen(t, e, u, f, q, s)
<1>. SUFFICES ASSUME Certain(e, f)
              PROVE  Claim(e, u, f, s) /\ QuitReplies(e, u, f, s) /\ QuitsOK(t, e, u, q, s)
  BY DEF Seen
<1>1. Claim(c, u, d, s) /\ QuitReplies(c, u, d, s) /\ QuitsOK(t, c, u, q, s) BY DEF Seen
<1>2. /\ Still(c, d, 1) <=> Still(e, f, 0)
      /\ ~Still(c, d, 0)
      /\ Late(c, d, s) => Late(e, f, s)
      /\ Latest(c, d, s) => Latest(e, f, s) \/ (Still(c, d, 1) /\ Same(Value(d[1]), s))
      /\ Overlooked(c, d) => Overlooked(e, f)
      /\ QuitReplies(c, u, d, s) /\ (Undoing(c, u, d, s) => Undoing(e, u, f, s))
           => QuitReplies(e, u, f, s)
  BY Reads
<1>3. Undoing(c, u, d, s) => Undoing(e, u, f, s) BY <1>2 DEF Undoing
<1>4. Shows(c, d, s) => Shows(e, f, s) BY <1>2 DEF Shows
<1>5. Ignores(c, d) => Ignores(e, f) BY <1>2, Zenon DEF Ignores
<1>6. Claim(e, u, f, s) BY <1>1, <1>3, <1>4, <1>5 DEF Claim
<1>7. QuitsOK(t, e, u, q, s) BY <1>1 DEF QuitsOK, Own
<1>. QED BY <1>1, <1>2, <1>3, <1>6, <1>7

\* A message that does not, or the late success of an attempt, which is undone.
LEMMA ReadNothing ==
  ASSUME NEW t, NEW c, NEW u, NEW d, NEW q, NEW s, Seen(t, c, u, d, q, s), NEW f, Rest(d, f), NEW e,
         NEW v,
         \A w \in e.waiting : w \in c.waiting,
         \A w \in c.waiting : w \in e.waiting \/ \A j \in DOMAIN d : 1 < j => ~Wins(d[j], w),
         e.socket = c.socket, ~Informs(c, d[1]), Sent(u, s) => Sent(v, s),
         s.id # 0 /\ Outdated(c, d[1], s) => Sent(v, s), QuitsOK(t, c, u, q, s) => QuitsOK(t, c, v, q, s),
         e.room = c.room, c.blind => e.blind, OwnEnd(d[1]) => e.blind \/ c.room.id = 0,
         Certain(e, f) => Certain(c, d)
  PROVE  Seen(t, e, v, f, q, s)
<1>. SUFFICES ASSUME Certain(e, f)
              PROVE  Claim(e, v, f, s) /\ QuitReplies(e, v, f, s) /\ QuitsOK(t, e, v, q, s)
  BY DEF Seen
<1>1. Claim(c, u, d, s) /\ QuitReplies(c, u, d, s) /\ QuitsOK(t, c, v, q, s) BY DEF Seen
<1>2. /\ Still(c, d, 1) <=> Still(e, f, 0)
      /\ Still(c, d, 0) => Still(e, f, 0)
      /\ Late(c, d, s) => Late(e, f, s) \/ Outdated(c, d[1], s)
      /\ Latest(c, d, s) => Latest(e, f, s)
      /\ Overlooked(c, d) => Overlooked(e, f) \/ (OwnEnd(d[1]) /\ Still(c, d, 1))
      /\ QuitReplies(c, u, d, s) /\ (Undoing(c, u, d, s) => Undoing(e, v, f, s))
           => QuitReplies(e, v, f, s)
  BY Reads
<1>3. Undoing(c, u, d, s) => Undoing(e, v, f, s) BY <1>2 DEF Undoing
<1>4. Shows(c, d, s) => Shows(e, f, s) BY <1>2 DEF Shows
<1>5. s.id = 0 /\ Ignores(c, d) => Ignores(e, f) \/ Shows(e, f, s)
  <2>. SUFFICES ASSUME s.id = 0, Ignores(c, d) PROVE Ignores(e, f) \/ Shows(e, f, s) OBVIOUS
  <2>1. CASE c.blind /\ Still(c, d, 0) BY <1>2, <2>1, Zenon DEF Ignores
  <2>2. CASE Overlooked(e, f) BY <2>2, Zenon DEF Ignores
  <2>3. CASE OwnEnd(d[1]) /\ Still(c, d, 1)
    <3>1. CASE c.room.id = 0 BY <3>1, <1>2, <2>3 DEF Same, Shows
    <3>2. CASE e.blind BY <1>2, <2>3, <3>2, Zenon DEF Ignores
    <3>. QED BY <2>3, <3>1, <3>2, Zenon
  <2>. QED BY <1>2, <2>1, <2>2, <2>3, Zenon DEF Ignores
<1>6. Claim(e, v, f, s) BY <1>1, <1>3, <1>4, <1>5 DEF Claim
<1>7. QuitsOK(t, e, v, q, s) BY <1>1 DEF QuitsOK, Own
<1>. QED BY <1>1, <1>2, <1>3, <1>6, <1>7

\* The answer to a tab that quits: it shows no room, and there is none.
LEMMA ReadQuit ==
  ASSUME NEW t, NEW c, NEW u, NEW d, NEW q, NEW s, Seen(t, c, u, d, q, s), NEW f, Rest(d, f), NEW e,
         \A w \in e.waiting : w \in c.waiting,
         \A w \in c.waiting : w \in e.waiting \/ \A j \in DOMAIN d : 1 < j => ~Wins(d[j], w),
         e.socket = c.socket, ~Informs(c, d[1]), ~Outdated(c, d[1], s), ~OwnEnd(d[1]),
         NEW w \in c.waiting, w.type \notin Entering, Wins(d[1], w),
         e.room = Nowhere, Certain(e, f) => Certain(c, d)
  PROVE  Seen(t, e, u, f, q, s)
<1>. SUFFICES ASSUME Certain(e, f)
              PROVE  Claim(e, u, f, s) /\ QuitReplies(e, u, f, s) /\ QuitsOK(t, e, u, q, s)
  BY DEF Seen
<1>1. Claim(c, u, d, s) /\ QuitReplies(c, u, d, s) /\ QuitsOK(t, c, u, q, s) BY DEF Seen
<1>2. /\ Still(c, d, 1) <=> Still(e, f, 0)
      /\ Still(c, d, 0) => Still(e, f, 0)
      /\ Late(c, d, s) => Late(e, f, s)
      /\ Latest(c, d, s) => Latest(e, f, s)
      /\ Overlooked(c, d) => Overlooked(e, f)
      /\ QuitReplies(c, u, d, s) /\ (Undoing(c, u, d, s) => Undoing(e, u, f, s))
           => QuitReplies(e, u, f, s)
  BY Reads
<1>3. Undoing(c, u, d, s) => Undoing(e, u, f, s) BY <1>2 DEF Undoing
<1>4. s.id = 0 \/ Undoing(c, u, d, s) \/ ~Still(c, d, 1) BY <1>1 DEF Rest, QuitReplies
<1>5. s.id = 0 => Same(e.room, s) BY DEF Same, Nowhere, Shown
<1>6. Still(c, d, 0) => Still(c, d, 1) BY <1>2
<1>7. Shows(c, d, s) => Undoing(c, u, d, s) \/ Shows(e, f, s) BY <1>2, <1>4, <1>5, <1>6 DEF Shows
<1>8. s.id = 0 /\ Ignores(c, d) => Ignores(e, f) \/ Shows(e, f, s)
  <2>. SUFFICES ASSUME s.id = 0, Ignores(c, d) PROVE Ignores(e, f) \/ Shows(e, f, s) OBVIOUS
  <2>1. Overlooked(c, d) \/ Still(c, d, 0) BY Zenon DEF Ignores
  <2>2. Overlooked(e, f) => Ignores(e, f) BY Zenon DEF Ignores
  <2>. QED BY <1>2, <1>5, <2>1, <2>2 DEF Shows
<1>9. Claim(e, u, f, s) BY <1>1, <1>3, <1>7, <1>8 DEF Claim
<1>10. QuitsOK(t, e, u, q, s) BY <1>1 DEF QuitsOK, Own
<1>. QED BY <1>1, <1>2, <1>3, <1>9, <1>10

-----------------------------------------------------------------------------
(* What each step makes of it.                                             *)

Sights(t, c, u, d, q, k, s) ==
  /\ Linked(t, c, u, d, q, k) /\ Ties(t, c, u, d, q)
  /\ Attached(c, k) => Seen(t, c, u, d, q, s)
Sight(t) == Sights(t, tab[t], up[t], down[t], work, session[t].socket, Where(Now, t))

\* The view of a tab in the next state.
LEMMA SightThen ==
  ASSUME NEW t
  PROVE  Sight(t)' <=> Sights(t, tab'[t], up'[t], down'[t], work', session'[t].socket, Where(Now', t))
BY DEF Sight

\* The mail of a tab, in and out.
LEMMA SightMail ==
  ASSUME Inv, NEW t \in Tab
  PROVE  /\ IsSeq(up[t]) /\ IsSeq(down[t]) /\ IsSeq(work) /\ tab[t].asked \in Nat
         /\ DOMAIN up[t] \subseteq Nat \ {0} /\ DOMAIN down[t] \subseteq Nat \ {0}
         /\ \A i \in DOMAIN work : work[i].command.type \in {"join", "access"}
BY SeqShape DEF Inv, Sides

\* The socket is another one, or gone.
LEMMA LinkedAnew ==
  ASSUME NEW t, NEW c, NEW u, NEW d, NEW q, NEW k, Linked(t, c, u, d, q, k),
         NEW e, ~e.connected, e.waiting = {}, NEW v, NEW f, NEW p, NEW n,
         \/ e.socket = 0 /\ e.sockets = c.sockets /\ v = <<>>
         \/ e.socket = c.sockets + 1 /\ e.sockets = e.socket,
         \A i \in DOMAIN v : v[i].type = "hello" /\ v[i].n = 1,
         \A j \in DOMAIN f : ~Greets(f[j]),
         \A i \in DOMAIN p : p[i].tab = t => \E j \in DOMAIN q : p[i] = q[j],
         n \in {0, k}
  PROVE  Linked(t, e, v, f, p, n) /\ ~Attached(e, n) /\ \A i \in DOMAIN p : ~Own(t, e, p, i)
BY DEF Linked, Attached, Own

\* What a handler may add to the mail, apart from the reply to a command.
Tells(d, e) == e = d \/ \E reason : e = Append(d, Ended(reason))
Said(d, f, n) ==
  \A j \in DOMAIN f : (\E i \in DOMAIN d : f[j] = d[i]) \/ (f[j].type = "result" => f[j].n = n)

\* A handler's effect on the order of the mail.
LEMMA TieDealt ==
  ASSUME NEW t, NEW c, c.asked \in Nat, NEW v, NEW d, NEW p, IsSeq(d), Ties(t, c, v, d, p),
         NEW x,
         NEW r, NEW e, Tells(d, e),
         NEW code, code = "ok" => Settle(x, code, r),
         NEW f, f = e \/ (f = Append(e, Reply(x, code, r)) /\ Spare(t, c, v, d, p, x) /\ x.n # 0)
  PROVE  Ties(t, c, v, f, p) /\ Said(d, f, x.n)
<1>1. /\ Ties(t, c, v, e, p) /\ IsSeq(e) /\ (Spare(t, c, v, d, p, x) => Spare(t, c, v, e, p, x))
      /\ \A j \in DOMAIN e : (\E i \in DOMAIN d : e[j] = d[i]) \/ e[j].type # "result"
  <2>1. CASE e = d BY <2>1
  <2>2. CASE e # d
    <3>1. PICK reason : e = Append(d, Ended(reason)) BY <2>2 DEF Tells
    <3>2. Ended(reason).type # "result" BY DEF Ended
    <3>3. IsSeq(e) /\ \E n : Plus(d, Ended(reason), e, n) BY <3>1, AppendPlus
    <3>4. PICK n : Plus(d, Ended(reason), e, n) BY <3>3
    <3>6. \A j \in DOMAIN e : (\E i \in DOMAIN d : e[j] = d[i]) \/ e[j].type # "result"
      BY <3>2, <3>4 DEF Plus
    <3>. QED BY <3>3, <3>2, <3>4, PutEnded, <3>6
  <2>. QED BY <2>1, <2>2
<1>2. CASE f = e BY <1>1, <1>2 DEF Said
<1>3. CASE f = Append(e, Reply(x, code, r)) /\ Spare(t, c, v, d, p, x) /\ x.n # 0
  <2>. DEFINE m == Reply(x, code, r)
  <2>1. m.type = "result" /\ m.n = x.n /\ m.code = code /\ m.room = r.id /\ m.intent = r.intent
    BY DEF Reply
  <2>2. code = "ok" /\ x.type = "create" => m.host
    <3>1. code = "ok" /\ x.type = "create" => r.host BY DEF Settle, Entering
    <3>. QED BY <3>1, Zenon DEF Reply
  <2>. HIDE DEF m
  <2>4. f = Append(e, m) BY <1>3 DEF m
  <2>5. IsSeq(f) /\ \E n : Plus(e, m, f, n) BY <1>1, <2>4, AppendPlus
  <2>6. PICK n : Plus(e, m, f, n) BY <2>5
  <2>7. Ties(t, c, v, f, p) BY <1>1, <1>3, <2>1, <2>2, <2>6, PutReply DEF Settle
  <2>. QED BY <2>5, <2>7, <1>1, <2>1, <2>6 DEF Said, Plus
<1>. QED BY <1>2, <1>3

\* What others do to a tab.
LEMMA SightAside ==
  ASSUME Inv, NEW t \in Tab, Sight(t), Aside(t)
  PROVE  Sight(t)'
<1>. DEFINE c == tab[t] u == up[t] d == down[t] k == session[t].socket
            s == Where(Now, t) r == Where(Now', t) f == down'[t]
<1>1. IsSeq(d) /\ Linked(t, c, u, d, work, k) /\ Ties(t, c, u, d, work)
      /\ (Attached(c, k) => Seen(t, c, u, d, work, s))
  BY SightMail DEF Sight, Sights
<1>2. tab'[t] = c /\ up'[t] = u /\ session'[t].socket = k /\ Others(t, work, work') BY DEF Aside
<1>3. \/ r = s /\ f = d
      \/ r = Nowhere /\ \E reason : f = IF Hears(Now, t) THEN Append(d, Ended(reason)) ELSE d
  BY NowFields DEF Aside, Stays, Goes, Now
<1>4. Attached(c, k) => Hears(Now, t) BY DEF Attached, Hears, Now
<1>. HIDE DEF c, u, d, k, s, r, f
<1>5. Ties(t, c, u, d, work') BY <1>1, <1>2, TieOthers
<1>6. f = d \/ \E reason : f = Append(d, Ended(reason)) BY <1>3
<1>7. Ties(t, c, u, f, work') /\ \A j \in DOMAIN f : (\E i \in DOMAIN d : f[j] = d[i]) \/ ~Greets(f[j])
  <2>1. CASE f = d BY <1>5, <2>1
  <2>2. CASE f # d
    <3>1. PICK reason : f = Append(d, Ended(reason)) BY <1>6, <2>2
    <3>2. Ended(reason).type # "result" BY DEF Ended
    <3>3. PICK n : Plus(d, Ended(reason), f, n) BY <1>1, <3>1, AppendPlus
    <3>4. Ties(t, c, u, f, work') BY <1>5, <3>2, <3>3, PutEnded
    <3>. QED BY <3>2, <3>3, <3>4 DEF Plus, Greets
  <2>. QED BY <2>1, <2>2
<1>9. Linked(t, c, u, f, work', k) BY <1>1, <1>7, <1>2, LinkedStays DEF Others
<1>10. ASSUME Attached(c, k) PROVE Seen(t, c, u, f, work', r)
  BY <1>3, <1>4, <1>10, <1>1, <1>2, Beside
<1>11. Sights(t, c, u, f, work', k, r) BY <1>7, <1>9, <1>10 DEF Sights
<1>. QED BY <1>2, <1>11, SightThen DEF f, r

\* The state and the mail that are left of a command that was applied or refused.
Ruled(x, applied, code, s, r, d, e) ==
  /\ applied => Settle(x, code, r)
  /\ ~applied => r = s /\ e = d /\ code # "ok"
  /\ s.id = 0 /\ r.id # 0 => code = "ok"

\* The tab's part of a command: whose it is, and whether it is answered.
Commands(t, c, u, d, q, k, v, p, x, applied, replies) ==
  /\ replies => x.n # 0 /\ Spare(t, c, v, d, p, x)
  /\ Attached(c, k) =>
       \/ ~applied /\ ~replies /\ v = u
       \/ /\ Spare(t, c, v, d, p, x)
          /\ replies <=> x.n # 0
          /\ x.type \in Withdraws => applied
          /\ x.type \in Entering => c.connected
          /\ \/ Rest(u, v) /\ x = u[1]
             \/ v = u /\ x.type \in {"join", "access"}

\* The mail to the coordinator and the derivations hold nothing new, and the
\* tab gets its reply, if there is one.
Dwindles(t, c, u, q, v, p) ==
  /\ \A i \in DOMAIN v : \E j \in DOMAIN u : v[i] = u[j]
  /\ c.socket = 0 => v = u
  /\ \A i \in DOMAIN p : p[i].tab = t => \E j \in DOMAIN q : p[i] = q[j]
Answers(replies, x, code, r, e, f) ==
  f = IF replies THEN Append(e, Reply(x, code, r)) ELSE e

\* The handling of a command of its own, seen from a tab.
LEMMA DealtSights ==
  ASSUME NEW t, NEW c, NEW u, NEW d, NEW q, NEW k, NEW s, Sights(t, c, u, d, q, k, s),
         IsSeq(d), c.asked \in Nat,
         NEW x, x.n # 1, NEW applied \in BOOLEAN, NEW code, NEW replies \in BOOLEAN,
         NEW v, NEW p, Ties(t, c, v, d, p), Commands(t, c, u, d, q, k, v, p, x, applied, replies),
         Dwindles(t, c, u, q, v, p),
         NEW r, r = Shown(r.id, r.intent, r.host), NEW e, Ruled(x, applied, code, s, r, d, e),
         NEW hears \in BOOLEAN, Attached(c, k) => hears, Moved(x, hears, s, r, d, e),
         NEW f, Answers(replies, x, code, r, e, f)
  PROVE  Sights(t, c, v, f, p, k, r)
<1>1. Linked(t, c, u, d, q, k) /\ (Attached(c, k) => Seen(t, c, u, d, q, s)) BY DEF Sights
<1>2. /\ replies => x.n # 0 /\ Spare(t, c, v, d, p, x)
      /\ Attached(c, k) =>
           \/ ~applied /\ ~replies /\ v = u
           \/ /\ Spare(t, c, v, d, p, x)
              /\ (replies <=> x.n # 0) /\ (x.type \in Withdraws => applied)
              /\ x.type \in Entering => c.connected
              /\ \/ Rest(u, v) /\ x = u[1]
                 \/ v = u /\ x.type \in {"join", "access"}
  BY DEF Commands
<1>3. /\ code = "ok" => Settle(x, code, r)
      /\ Settle(x, code, r) \/ (~applied /\ r = s /\ e = d /\ code # "ok")
      /\ ~applied => r = s /\ e = d
      /\ s.id = 0 /\ r.id # 0 => code = "ok"
  BY DEF Ruled
<1>4. Ties(t, c, v, f, p) /\ Said(d, f, x.n) BY <1>2, <1>3, TieDealt DEF Answers, Moved, Tells
<1>6. Linked(t, c, v, f, p, k) BY <1>1, <1>4, LinkedStays DEF Dwindles, Greets, Said
<1>7. Narrows(t, c, q, p) BY DEF Own, Narrows, Dwindles
<1>8. ASSUME Attached(c, k) PROVE Seen(t, c, v, f, p, r)
  <2>1. CASE ~applied /\ ~replies /\ v = u
    BY <1>3, <2>1, <1>1, <1>7, <1>8, Unqueued DEF Answers, Narrows
  <2>2. CASE /\ Spare(t, c, v, d, p, x)
             /\ (replies <=> x.n # 0) /\ (x.type \in Withdraws => applied)
             /\ x.type \in Entering => c.connected
             /\ \/ Rest(u, v) /\ x = u[1]
                \/ v = u /\ x.type \in {"join", "access"}
    <3>1. x.type \in Entering => \A j \in DOMAIN d : ~Greets(d[j]) BY <1>1, <2>2 DEF Linked
    <3>2. Mailed(x, code, r, e, f) BY <2>2 DEF Mailed, Answers
    <3>3. Moved(x, TRUE, s, r, d, e) BY <1>8
    <3>4. \/ Settle(x, code, r)
          \/ r = s /\ e = d /\ code # "ok" /\ x.type \notin Withdraws
      BY <1>3, <2>2
    <3>5. Seen(t, c, u, d, q, s) BY <1>1, <1>8
    <3>6. Spare(t, c, v, d, p, x) /\ (\/ Rest(u, v) /\ x = u[1]
                                      \/ v = u /\ x.type \in {"join", "access"})
      BY <2>2
    <3>. HIDE DEF Entering
    <3>. QED BY <1>3, <1>7, <3>1, <3>2, <3>3, <3>4, <3>5, <3>6, Handled
  <2>. QED BY <1>2, <1>8, <2>1, <2>2
<1>. QED BY <1>4, <1>6, <1>8 DEF Sights

\* The handling of a command of its own by the coordinator.
LEMMA SightDealt ==
  ASSUME Inv, Inv', NEW t \in Tab, Sight(t), NEW x, Sound(x), x.type # "hello",
         NEW applied \in BOOLEAN, NEW code, NEW replies \in BOOLEAN,
         Dealt(t, x, applied, code, replies), tab'[t] = tab[t], Ties(t, tab[t], up'[t], down[t], work'),
         Commands(t, tab[t], up[t], down[t], work, session[t].socket, up'[t], work', x, applied, replies),
         Dwindles(t, tab[t], up[t], work, up'[t], work')
  PROVE  Sight(t)'
<1>1. PICK c : c = tab[t] OBVIOUS
<1>2. PICK u : u = up[t] OBVIOUS
<1>3. PICK d : d = down[t] OBVIOUS
<1>4. PICK k : k = session[t].socket OBVIOUS
<1>5. PICK s : s = Where(Now, t) OBVIOUS
<1>6. PICK r : r = Where(Now', t) OBVIOUS
<1>7. PICK v : v = up'[t] OBVIOUS
<1>8. PICK p : p = work' OBVIOUS
<1>9. PICK f : f = down'[t] OBVIOUS
<1>10. PICK hears \in BOOLEAN : hears = Hears(Now, t) BY DEF Hears
<1>11. PICK q : q = work OBVIOUS
<1>12. Sights(t, c, u, d, q, k, s) /\ IsSeq(d) /\ c.asked \in Nat
  BY <1>1, <1>2, <1>3, <1>4, <1>5, <1>11, SightMail DEF Sight
<1>13. x.n # 1 BY DEF Sound
<1>14. r = Shown(r.id, r.intent, r.host)
  <2>1. Agrees(Now') BY DEF Inv
  <2>2. PICK m : m = Now' OBVIOUS
  <2>3. Agrees(m) /\ r = Where(m, t) BY <1>6, <2>1, <2>2
  <2>. QED BY <2>3, WhereIs
<1>15. Attached(c, k) => hears BY <1>1, <1>4, <1>10 DEF Attached, Hears, Now
<1>16. /\ \E e : /\ Moved(x, hears, s, r, d, e)
                 /\ f = IF replies THEN Append(e, Reply(x, code, r)) ELSE e
                 /\ ~applied => e = d
       /\ applied => Settle(x, code, r)
       /\ ~applied => r = s /\ code # "ok"
       /\ s.id = 0 /\ r.id # 0 => code = "ok"
       /\ session'[t].socket = k
  BY <1>3, <1>4, <1>5, <1>6, <1>9, <1>10 DEF Dealt
<1>17. PICK e : /\ Moved(x, hears, s, r, d, e)
                /\ f = IF replies THEN Append(e, Reply(x, code, r)) ELSE e
                /\ ~applied => e = d
  BY <1>16
<1>18. Ruled(x, applied, code, s, r, d, e) BY <1>16, <1>17 DEF Ruled
<1>19. Ties(t, c, v, d, p) /\ Commands(t, c, u, d, q, k, v, p, x, applied, replies)
  BY <1>1, <1>2, <1>3, <1>4, <1>7, <1>8, <1>11
<1>20. Dwindles(t, c, u, q, v, p) BY <1>1, <1>2, <1>7, <1>8, <1>11
<1>21. Answers(replies, x, code, r, e, f) BY <1>17 DEF Answers
<1>23. Sights(t, c, v, f, p, k, r)
  BY <1>12, <1>13, <1>14, <1>15, <1>17, <1>18, <1>19, <1>20, <1>21, DealtSights
<1>. QED BY <1>1, <1>6, <1>7, <1>8, <1>9, <1>16, <1>23, SightThen

\* The first command is taken: it is answered on the socket it came from.
LEMMA HeadCommands ==
  ASSUME NEW t, NEW c, NEW u, NEW d, NEW q, NEW k, Linked(t, c, u, d, q, k), Ties(t, c, u, d, q),
         c.asked \in Nat, NEW v, Rest(u, v), NEW applied \in BOOLEAN, NEW replies \in BOOLEAN,
         u[1].type # "hello", NEW x, x = u[1],
         replies => x.n # 0, Attached(c, k) /\ x.n # 0 => replies,
         Attached(c, k) /\ x.type \in Withdraws => applied
  PROVE  /\ Commands(t, c, u, d, q, k, v, q, x, applied, replies)
         /\ Dwindles(t, c, u, q, v, q) /\ Ties(t, c, v, d, q) /\ Spare(t, c, v, d, q, x)
         /\ x.type \in {"join", "access"} => c.connected
BY TakeHead, NothingIsSeq DEF Rest, Linked, Entering, Dwindles, Commands

\* A derivation is over: it is answered on the socket it was asked for on.
LEMMA DerivedCommands ==
  ASSUME NEW t, NEW c, NEW u, NEW d, NEW q, NEW k, Linked(t, c, u, d, q, k), Ties(t, c, u, d, q),
         c.asked \in Nat, NEW i \in DOMAIN q, NEW p, Shortens(q, i, p), q[i].tab = t,
         NEW applied \in BOOLEAN, NEW replies \in BOOLEAN, NEW x, x = q[i].command,
         x.type \in {"join", "access"}, replies <=> x.n # 0 /\ c.socket = q[i].socket,
         applied => k = q[i].socket
  PROVE  /\ Commands(t, c, u, d, q, k, u, p, x, applied, replies)
         /\ Dwindles(t, c, u, q, u, p) /\ Ties(t, c, u, d, p)
<1>1. Ties(t, c, u, d, p) /\ (Own(t, c, q, i) => Spare(t, c, u, d, p, x)) BY TakeOwn
<1>2. Own(t, c, q, i) => c.connected BY DEF Linked
<1>3. Own(t, c, q, i) <=> c.socket = q[i].socket BY DEF Own
<1>4. Dwindles(t, c, u, q, u, p) BY DEF Dwindles, Shortens
<1>5. x.type \notin Withdraws BY DEF Withdraws
<1>6. Attached(c, k) => k = c.socket BY DEF Attached
<1>7. Commands(t, c, u, d, q, k, u, p, x, applied, replies)
  BY <1>1, <1>2, <1>3, <1>5, <1>6 DEF Commands
<1>. QED BY <1>1, <1>4, <1>7

\* A command begins to wait for its derivation.
LEMMA DeferSights ==
  ASSUME NEW t, NEW c, NEW u, NEW d, NEW q, NEW k, NEW s, Sights(t, c, u, d, q, k, s),
         c.asked \in Nat, NEW v, Rest(u, v), u[1].type \in {"join", "access"},
         IsSeq(q), NEW w, w.tab = t, w.socket = k, w.command = u[1]
  PROVE  Sights(t, c, v, d, Append(q, w), k, s)
<1>. DEFINE p == Append(q, w)
<1>1. PICK n : Plus(q, w, p, n) BY AppendPlus
<1>. HIDE DEF p
<1>2. Linked(t, c, u, d, q, k) /\ Ties(t, c, u, d, q) /\ (Attached(c, k) => Seen(t, c, u, d, q, s))
  BY DEF Sights
<1>3. 1 \in DOMAIN u /\ \A i \in DOMAIN v : i + 1 \in DOMAIN u /\ v[i] = u[i + 1] BY DEF Rest
<1>4. c.connected /\ c.socket # 0 BY <1>2, <1>3, NothingIsSeq DEF Linked
<1>5. Ties(t, c, v, d, q) /\ Spare(t, c, v, d, q, u[1]) BY <1>2, TakeHead
<1>6. Ties(t, c, v, d, p) BY <1>1, <1>5, PutOwn
<1>8. \A i \in DOMAIN v : \E j \in DOMAIN u : v[i] = u[j] BY <1>3
<1>9. Linked(t, c, v, d, p, k) BY <1>2, <1>4, <1>1, <1>8, LinkedStays DEF Plus
<1>10. u[1].type \notin Withdraws BY DEF Withdraws
<1>11. Attached(c, k) => Seen(t, c, v, d, p, s) BY <1>1, <1>2, <1>10, Deferred
<1>12. Sights(t, c, v, d, p, k, s) BY <1>6, <1>9, <1>11 DEF Sights
<1>. QED BY <1>12 DEF p

\* A command that is handled at once leaves the tab a true view.
LEMMA SightHandle ==
  ASSUME Inv, Inv', Recorded, NEW t \in Tab, Sight(t), Handle(t)
  PROVE  Sight(t)'
<1>. DEFINE x == Head(up[t])
<1>1. /\ up[t] # <<>> /\ up' = [up EXCEPT ![t] = Tail(up[t])] /\ tab' = tab /\ work' = work
      /\ Sound(x) /\ x.type # "hello" /\ x = up[t][1]
      /\ \E applied \in BOOLEAN : \E code :
           /\ Dealt(t, x, applied, code, x.n # 0)
           /\ applied => session[t].socket = tab[t].socket
           /\ session[t].socket = tab[t].socket /\ x.type \in Withdraws => applied
  BY HandleDealt
<1>2. PICK y : y = x OBVIOUS
<1>3. PICK replies \in BOOLEAN : replies = (x.n # 0) OBVIOUS
<1>10. PICK applied \in BOOLEAN : \E code :
         /\ Dealt(t, x, applied, code, x.n # 0)
         /\ session[t].socket = tab[t].socket /\ x.type \in Withdraws => applied
  BY <1>1
<1>4. PICK code : /\ Dealt(t, x, applied, code, x.n # 0)
                  /\ session[t].socket = tab[t].socket /\ x.type \in Withdraws => applied
  BY <1>10
<1>. HIDE DEF x
<1>5. /\ IsSeq(up[t]) /\ tab[t].asked \in Nat /\ DOMAIN up = Tab
      /\ Linked(t, tab[t], up[t], down[t], work, session[t].socket)
      /\ Ties(t, tab[t], up[t], down[t], work)
  BY SightMail, TabScreen DEF Sight, Sights
<1>6. up'[t] = Tail(up[t]) /\ Rest(up[t], up'[t]) BY <1>1, <1>5, TailRest
<1>7. y = up[t][1] /\ y.type # "hello" /\ Sound(y) /\ (replies <=> y.n # 0)
      /\ Dealt(t, y, applied, code, replies)
      /\ (Attached(tab[t], session[t].socket) /\ y.type \in Withdraws => applied)
  BY <1>1, <1>2, <1>3, <1>4 DEF Attached
<1>. QED BY <1>1, <1>7, <1>5, <1>6, HeadCommands, SightDealt

\* So does one that waits for a derivation, or for which there are too many.
LEMMA SightDefer ==
  ASSUME Inv, Inv', Recorded, NEW t \in Tab, Sight(t), Defer(t)
  PROVE  Sight(t)'
<1>. DEFINE x == Head(up[t]) b == x.n # 0 /\ tab[t].socket = session[t].socket
<1>1. /\ up[t] # <<>> /\ up' = [up EXCEPT ![t] = Tail(up[t])] /\ tab' = tab
      /\ Sound(x) /\ x.type \in {"join", "access"} /\ x = up[t][1]
      /\ \/ work' = work /\ \E code : Dealt(t, x, FALSE, code, b)
         \/ /\ UNCHANGED <<session, rooms, down>>
            /\ \E w : work' = Append(work, w) /\ w.tab = t /\ w.socket = session[t].socket
                      /\ w.command = x
  BY DeferDealt
<1>2. b \in BOOLEAN OBVIOUS
<1>3. PICK y : y = x OBVIOUS
<1>4. PICK replies \in BOOLEAN : replies = b BY <1>2
<1>5. replies => y.n # 0 BY <1>3, <1>4
<1>6. Attached(tab[t], session[t].socket) /\ y.n # 0 => replies BY <1>3, <1>4 DEF Attached
<1>. HIDE DEF x, b
<1>7. /\ IsSeq(up[t]) /\ IsSeq(work) /\ tab[t].asked \in Nat /\ DOMAIN up = Tab
      /\ Sights(t, tab[t], up[t], down[t], work, session[t].socket, Where(Now, t))
      /\ Linked(t, tab[t], up[t], down[t], work, session[t].socket)
      /\ Ties(t, tab[t], up[t], down[t], work)
  BY SightMail, TabScreen DEF Sight, Sights
<1>8. up'[t] = Tail(up[t]) /\ Rest(up[t], up'[t]) BY <1>1, <1>7, TailRest
<1>9. y = up[t][1] /\ Sound(y) /\ y.type \in {"join", "access"} /\ y.type # "hello"
      /\ y.type \notin Withdraws
  BY <1>1, <1>3 DEF Withdraws
<1>10. CASE work' = work /\ \E code : Dealt(t, x, FALSE, code, b)
  <2>1. PICK code : Dealt(t, x, FALSE, code, b) BY <1>10
  <2>2. PICK applied \in BOOLEAN : applied = FALSE OBVIOUS
  <2>3. Dealt(t, y, applied, code, replies) BY <1>3, <1>4, <2>1, <2>2
  <2>4. /\ Commands(t, tab[t], up[t], down[t], work, session[t].socket, up'[t], work, y, applied, replies)
        /\ Dwindles(t, tab[t], up[t], work, up'[t], work) /\ Ties(t, tab[t], up'[t], down[t], work)
    BY <1>5, <1>6, <1>7, <1>8, <1>9, HeadCommands
  <2>. QED BY <1>1, <1>9, <1>10, <2>3, <2>4, SightDealt
<1>11. CASE /\ UNCHANGED <<session, rooms, down>>
            /\ \E w : work' = Append(work, w) /\ w.tab = t /\ w.socket = session[t].socket
                      /\ w.command = x
  <2>1. PICK w : work' = Append(work, w) /\ w.tab = t /\ w.socket = session[t].socket /\ w.command = y
    BY <1>3, <1>11
  <2>2. Where(Now', t) = Where(Now, t) BY <1>11 DEF Where, Now
  <2>3. Sights(t, tab[t], up'[t], down[t], Append(work, w), session[t].socket, Where(Now, t))
    BY <1>7, <1>8, <1>9, <2>1, DeferSights
  <2>. QED BY <1>1, <1>11, <2>1, <2>2, <2>3, SightThen
<1>. QED BY <1>1, <1>10, <1>11

\* So does the end of a derivation, whoever has the tab's socket by then.
LEMMA SightDerived ==
  ASSUME Inv, Inv', Recorded, NEW i, Derived(i), NEW t \in Tab, t = work[i].tab, Sight(t)
  PROVE  Sight(t)'
<1>. DEFINE x == work[i].command
            b == x.n # 0 /\ tab[t].socket = work[i].socket
<1>1. /\ i \in DOMAIN work /\ tab' = tab /\ up' = up /\ Shortens(work, i, work')
      /\ Sound(x) /\ x.type \in {"join", "access"}
      /\ \E applied \in BOOLEAN : \E code :
           Dealt(t, x, applied, code, b) /\ (applied => session[t].socket = work[i].socket)
  BY DerivedDealt
<1>2. b \in BOOLEAN OBVIOUS
<1>3. PICK y : y = x OBVIOUS
<1>4. PICK replies \in BOOLEAN : replies = b BY <1>2
<1>12. PICK applied \in BOOLEAN : \E code :
         Dealt(t, x, applied, code, b) /\ (applied => session[t].socket = work[i].socket)
  BY <1>1
<1>5. PICK code : Dealt(t, x, applied, code, b) /\ (applied => session[t].socket = work[i].socket)
  BY <1>12
<1>6. replies <=> y.n # 0 /\ tab[t].socket = work[i].socket BY <1>3, <1>4
<1>7. y = work[i].command BY <1>3
<1>. HIDE DEF x, b
<1>8. Dealt(t, y, applied, code, replies) BY <1>3, <1>4, <1>5
<1>9. /\ tab[t].asked \in Nat
      /\ Linked(t, tab[t], up[t], down[t], work, session[t].socket)
      /\ Ties(t, tab[t], up[t], down[t], work)
  BY SightMail DEF Sight, Sights
<1>10. Sound(y) /\ y.type \in {"join", "access"} /\ y.type # "hello" BY <1>1, <1>3
<1>11. /\ Commands(t, tab[t], up[t], down[t], work, session[t].socket, up[t], work', y, applied, replies)
       /\ Dwindles(t, tab[t], up[t], work, up[t], work') /\ Ties(t, tab[t], up[t], down[t], work')
  BY <1>1, <1>5, <1>6, <1>7, <1>9, <1>10, DerivedCommands
<1>. QED BY <1>1, <1>8, <1>10, <1>11, SightDealt

\* A hello is answered.
LEMMA AttachSights ==
  ASSUME NEW t, NEW c, NEW u, NEW d, NEW q, NEW k, NEW s, Sights(t, c, u, d, q, k, s),
         c.asked \in Nat, IsSeq(d), NEW v, Rest(u, v), u[1].type = "hello", u[1].n = 1,
         \A i \in DOMAIN u : Sound(u[i]) /\ (u[i].type = "hello" => i = 1),
         \A j \in DOMAIN d : ~Greets(d[j]), s = Shown(s.id, s.intent, s.host), NEW code,
         NEW n, n = IF code = "ok" THEN c.socket ELSE k
  PROVE  Sights(t, c, v, Append(d, Reply(u[1], code, s)), q, n, s)
<1>. DEFINE m == Reply(u[1], code, s) f == Append(d, m)
<1>1. PICK z : Plus(d, m, f, z) BY AppendPlus
<1>2. m.type = "result" /\ m.n = 1 /\ m.code = code BY DEF Reply
<1>. HIDE DEF f, m
<1>3. Linked(t, c, u, d, q, k) /\ Ties(t, c, u, d, q) BY DEF Sights
<1>4. /\ 1 \in DOMAIN u
      /\ \A i \in DOMAIN v : i + 1 \in DOMAIN u /\ v[i] = u[i + 1] /\ i + 1 # 1
  BY DEF Rest
<1>5. ~c.connected /\ c.socket # 0 /\ c.waiting = {} BY <1>3, <1>4, NothingIsSeq DEF Linked
<1>6. \A i \in DOMAIN v : /\ v[i].type \in {"leave", "cancelCreate"} /\ v[i].n \in {0, 1}
                          /\ v[i].type # "hello" /\ v[i].n # 1
  <2>. SUFFICES ASSUME NEW i \in DOMAIN v
                PROVE  /\ v[i].type \in {"leave", "cancelCreate"} /\ v[i].n \in {0, 1}
                       /\ v[i].type # "hello" /\ v[i].n # 1
    OBVIOUS
  <2>1. i + 1 \in DOMAIN u /\ v[i] = u[i + 1] /\ i + 1 # 1 BY <1>4
  <2>2. v[i].type # "hello" /\ Sound(v[i]) BY <2>1
  <2>3. v[i].n # 1 BY <2>2 DEF Sound
  <2>. QED BY <2>2, <2>3, <1>3, <1>5, <2>1 DEF Linked
<1>7. Ties(t, c, v, f, q)
  <2>1. Ties(t, c, v, d, q) /\ Spare(t, c, v, d, q, u[1]) BY <1>3, TakeHead
  <2>2. u[1].type \notin Entering BY DEF Entering
  <2>3. PICK x : x = u[1] OBVIOUS
  <2>. QED BY <1>1, <1>2, <2>1, <2>2, <2>3, PutReply
<1>8. \A j \in DOMAIN f : Greets(f[j]) => f[j].code = code BY <1>1, <1>2 DEF Plus
<1>9. Linked(t, c, v, f, q, n) BY <1>3, <1>5, <1>6, <1>8 DEF Linked, Attached
<1>10. Seen(t, c, v, f, q, s)
  <2>1. \A j \in DOMAIN v : ~Quits(v[j]) BY <1>6 DEF Quits
  <2>2. PICK x : x = u[1] OBVIOUS
  <2>3. Plus(d, Reply(x, code, s), f, z) /\ x.n = 1 BY <1>1, <2>2 DEF m
  <2>. QED BY <1>5, <2>1, <2>3, Welcomed
<1>11. Sights(t, c, v, f, q, n, s) BY <1>7, <1>9, <1>10 DEF Sights
<1>. QED BY <1>11 DEF f, m

\* The coordinator sees that a socket is gone.
LEMMA DetachSights ==
  ASSUME NEW t, NEW c, NEW u, NEW d, NEW q, NEW k, NEW s, Sights(t, c, u, d, q, k, s), k # c.socket
  PROVE  Sights(t, c, u, d, q, 0, s)
BY DEF Attached, Sights, Linked

\* The socket is another one, or gone, and with it what was under way.
LEMMA AnewSights ==
  ASSUME NEW t, NEW c, NEW u, NEW d, NEW q, NEW k, NEW s, Sights(t, c, u, d, q, k, s),
         c.asked \in Nat, NEW e, e.asked = c.asked, e.lost = c.lost, ~e.connected, e.waiting = {},
         NEW v, NEW f, NEW p, NEW n, NEW r,
         \/ e.socket = 0 /\ e.sockets = c.sockets /\ v = <<>>
         \/ e.socket = c.sockets + 1 /\ e.sockets = e.socket,
         DOMAIN v \subseteq {1}, \A i \in DOMAIN v : v[i].type = "hello" /\ v[i].n = 1,
         DOMAIN f = {} \/ (v = <<>> /\ Rest(d, f) /\ \A j \in DOMAIN f : ~Greets(f[j])),
         p = q \/ DOMAIN p = {}, n \in {0, k}
  PROVE  Sights(t, e, v, f, p, n, r)
<1>1. Linked(t, c, u, d, q, k) /\ Ties(t, c, u, d, q) BY DEF Sights
<1>2. /\ \A j \in DOMAIN f : ~Greets(f[j])
      /\ \A i \in DOMAIN p : p[i].tab = t => \E j \in DOMAIN q : p[i] = q[j]
  OBVIOUS
<1>3. Linked(t, e, v, f, p, n) /\ ~Attached(e, n) /\ \A i \in DOMAIN p : ~Own(t, e, p, i)
  BY <1>1, <1>2, LinkedAnew
<1>4. v = <<>> => DOMAIN v = {} BY NothingIsSeq
<1>5. Ties(t, e, v, f, p) BY <1>1, <1>3, <1>4, TieEmpty
<1>. QED BY <1>3, <1>5 DEF Sights

\* The answer to a hello leaves the tab a true view.
LEMMA SightAttach ==
  ASSUME Inv, Recorded, NEW t \in Tab, Sight(t), Attach(t)
  PROVE  Sight(t)'
<1>. DEFINE x == Head(up[t])
<1>1. /\ up[t] # <<>> /\ up' = [up EXCEPT ![t] = Tail(up[t])] /\ tab' = tab /\ work' = work
      /\ x.type = "hello" /\ x.n = 1 /\ x = up[t][1] /\ 1 \in DOMAIN up[t]
      /\ Where(Now', t) = Where(Now, t)
      /\ \E code :
           /\ down'[t] = Append(down[t], Reply(x, code, Where(Now, t)))
           /\ session'[t].socket = IF code = "ok" THEN tab[t].socket ELSE session[t].socket
  BY AttachDealt
<1>2. PICK code :
        /\ down'[t] = Append(down[t], Reply(x, code, Where(Now, t)))
        /\ session'[t].socket = IF code = "ok" THEN tab[t].socket ELSE session[t].socket
  BY <1>1
<1>. HIDE DEF x
<1>3. /\ IsSeq(up[t]) /\ IsSeq(down[t]) /\ tab[t].asked \in Nat /\ DOMAIN up = Tab
      /\ Sights(t, tab[t], up[t], down[t], work, session[t].socket, Where(Now, t))
  BY SightMail, TabScreen DEF Sight
<1>4. up'[t] = Tail(up[t]) /\ Rest(up[t], up'[t]) BY <1>1, <1>3, TailRest
<1>5. /\ \A i \in DOMAIN up[t] : Sound(up[t][i]) /\ (up[t][i].type = "hello" => i = 1)
      /\ \A j \in DOMAIN down[t] : ~Greets(down[t][j])
  BY <1>1 DEF Inv, Sides, Greetings
<1>6. PICK s : s = Where(Now, t) OBVIOUS
<1>7. s = Shown(s.id, s.intent, s.host) BY <1>6, WhereIs DEF Inv
<1>8. PICK n : n = IF code = "ok" THEN tab[t].socket ELSE session[t].socket OBVIOUS
<1>9. Sights(t, tab[t], up'[t], Append(down[t], Reply(up[t][1], code, s)), work, n, s)
  BY <1>1, <1>3, <1>4, <1>5, <1>6, <1>7, <1>8, AttachSights
<1>. QED BY <1>1, <1>2, <1>6, <1>8, <1>9, SightThen

\* A tab whose socket is gone has nothing to hear of on it.
LEMMA SightDetach ==
  ASSUME Inv, NEW t \in Tab, Sight(t), Detach(t)
  PROVE  Sight(t)'
<1>1. /\ session'[t].socket = 0 /\ Stays(Now, Now', t)
      /\ tab' = tab /\ up' = up /\ work' = work
  BY DetachAside
<1>2. session[t].socket # tab[t].socket BY DEF Detach
<1>3. Where(Now', t) = Where(Now, t) /\ down'[t] = down[t] BY <1>1, NowFields DEF Stays, Now
<1>5. Sights(t, tab[t], up[t], down[t], work, 0, Where(Now, t)) BY <1>2, DetachSights DEF Sight
<1>. QED BY <1>1, <1>3, <1>5, SightThen

\* What a tab does by itself leaves the coordinator as it is.
LEMMA SightAlone ==
  ASSUME NEW t, Alone(t),
         Sights(t, tab'[t], up'[t], down'[t], work, session[t].socket, Where(Now, t))
  PROVE  Sight(t)'
BY SightThen DEF Alone

\* A tab that opens a socket, or loses it, has nothing under way.
LEMMA SightConnect ==
  ASSUME Inv, NEW t \in Tab, Sight(t), Connect(t) \/ Break(t)
  PROVE  Sight(t)'
<1>1. /\ tab[t].asked \in Nat
      /\ Sights(t, tab[t], up[t], down[t], work, session[t].socket, Where(Now, t))
      /\ Linked(t, tab[t], up[t], down[t], work, session[t].socket)
  BY SightMail DEF Sight, Sights
<1>2. PICK c : c = tab[t] OBVIOUS
<1>3. PICK e : e = tab'[t] OBVIOUS
<1>4. DOMAIN down'[t] = {} /\ Alone(t) /\ e.asked = c.asked /\ e.lost = c.lost /\ e.waiting = {}
  BY <1>2, <1>3, ConnectTab, BreakTab, NothingIsSeq
<1>5. /\ \/ e.socket = 0 /\ e.sockets = c.sockets /\ up'[t] = <<>>
         \/ e.socket = c.sockets + 1 /\ e.sockets = e.socket
      /\ ~e.connected
      /\ up'[t] = <<>> \/ up'[t] = <<Command("hello", 1, 0, 0, 0)>>
  <2>1. CASE Connect(t)
    <3>1. /\ c.socket = 0 /\ up'[t] = <<Command("hello", 1, 0, 0, 0)>>
          /\ e.socket = c.sockets + 1 /\ e.sockets = e.socket /\ e.connected = c.connected
      BY <1>2, <1>3, <2>1, ConnectTab
    <3>2. ~c.connected BY <1>1, <1>2, <3>1 DEF Linked
    <3>3. ~e.connected BY <3>1, <3>2, Zenon
    <3>. QED BY <3>1, <3>3
  <2>2. CASE Break(t)
    <3>1. e.connected = FALSE BY <1>3, <2>2, BreakTab
    <3>2. ~e.connected BY <3>1, Zenon
    <3>. QED BY <1>2, <1>3, <2>2, <3>2, BreakTab
  <2>. QED BY <2>1, <2>2
<1>7. PICK n : n = session[t].socket OBVIOUS
<1>8. PICK q : q = work OBVIOUS
<1>9. PICK v : v = up'[t] OBVIOUS
<1>10. PICK f : f = down'[t] OBVIOUS
<1>11. PICK s : s = Where(Now, t) OBVIOUS
<1>12. Sights(t, e, v, f, q, n, s)
  <2>1. PICK u : u = up[t] OBVIOUS
  <2>2. PICK d : d = down[t] OBVIOUS
  <2>3. Sights(t, c, u, d, q, n, s) /\ c.asked \in Nat BY <1>1, <1>2, <1>7, <1>8, <1>11, <2>1, <2>2
  <2>5. DOMAIN v \subseteq {1} /\ \A i \in DOMAIN v : v[i].type = "hello" /\ v[i].n = 1
    BY <1>5, NothingIsSeq, OneIsSeq, <1>9 DEF Command
  <2>6. DOMAIN f = {} /\ e.asked = c.asked /\ e.lost = c.lost /\ e.waiting = {} BY <1>4, <1>10
  <2>. QED BY <2>3, <1>5, <1>9, <2>5, <2>6, AnewSights
<1>. QED BY <1>3, <1>4, <1>7, <1>8, <1>9, <1>10, <1>11, <1>12, SightAlone

\* After a restart nothing is under way.
LEMMA SightRestart ==
  ASSUME Inv, NEW t \in Tab, Sight(t), Restart
  PROVE  Sight(t)'
<1>1. /\ tab[t].asked \in Nat /\ ScreenOK(tab[t])
      /\ Sights(t, tab[t], up[t], down[t], work, session[t].socket, Where(Now, t))
  BY SightMail, TabScreen DEF Sight
<1>2. PICK c : c = tab[t] OBVIOUS
<1>3. PICK e : e = Dropped(c) OBVIOUS
<1>5. /\ e.socket = 0 /\ e.sockets = c.sockets /\ e.asked = c.asked /\ e.lost = c.lost
      /\ e.waiting = {} /\ e.connected = FALSE
  BY <1>1, <1>2, <1>3 DEF Dropped, ScreenOK, Screen
<1>6. ~e.connected BY <1>5, Zenon
<1>7. PICK r : r = Where(Now', t) OBVIOUS
<1>8. PICK z : z = <<>> OBVIOUS
<1>9. DOMAIN z = {} BY <1>8, NothingIsSeq
<1>10. Sights(t, e, z, z, z, 0, r) BY <1>1, <1>2, <1>5, <1>6, <1>8, <1>9, AnewSights
<1>. QED BY <1>2, <1>3, <1>7, <1>8, <1>10, SightThen DEF Restart, Nobody

\* Some requests are not wanted any more.
LEMMA FadeSights ==
  ASSUME NEW t, NEW c, NEW u, NEW d, NEW q, NEW k, NEW s, Sights(t, c, u, d, q, k, s),
         DOMAIN d \subseteq Nat \ {0}, NEW e, Keeps(c, e), e.connected <=> c.connected,
         e.room = c.room, e.blind = c.blind, e.lost = c.lost, Fades(c.waiting, e.waiting)
  PROVE  Sights(t, e, u, d, q, k, s)
BY LinkedStays, TieFades, Fading DEF Sights, Keeps, Fades, Attached, Ties, Matches

\* A command to which the tab waits for no reply.
LEMMA SendSights ==
  ASSUME NEW t, NEW c, NEW u, NEW d, NEW q, NEW k, NEW s, Sights(t, c, u, d, q, k, s),
         c.asked \in Nat, c.socket # 0, IsSeq(u), NEW x, x.n = 0,
         x.type \in Withdraws \/ (c.connected /\ x.type \in {"remove", "access"})
  PROVE  Sights(t, c, Append(u, x), d, q, k, s) /\ IsSeq(Append(u, x))
<1>. DEFINE v == Append(u, x)
<1>1. IsSeq(v) /\ \E n : Plus(u, x, v, n) BY AppendPlus
<1>2. PICK n : Plus(u, x, v, n) BY <1>1
<1>. HIDE DEF v
<1>3. Linked(t, c, u, d, q, k) /\ Ties(t, c, u, d, q) /\ (Attached(c, k) => Seen(t, c, u, d, q, s))
  BY DEF Sights
<1>4. x.type \notin Entering /\ ~Quits(x) /\ x.type # "hello" BY DEF Entering, Quits, Withdraws
<1>6. Linked(t, c, v, d, q, k) BY <1>4, <1>2, <1>3, LinkedStays DEF Plus
<1>7. Ties(t, c, v, d, q) BY <1>2, <1>3, <1>4, TieSend
<1>8. Attached(c, k) => Seen(t, c, v, d, q, s) BY <1>2, <1>3, <1>4, Sending
<1>9. Sights(t, c, v, d, q, k, s) BY <1>6, <1>7, <1>8 DEF Sights
<1>. QED BY <1>1, <1>9 DEF v

\* A request is given up.
LEMMA TimeoutSights ==
  ASSUME NEW t, NEW c, NEW u, NEW d, NEW q, NEW k, NEW s, Sights(t, c, u, d, q, k, s),
         DOMAIN d \subseteq Nat, NEW e, Keeps(c, e), e.connected <=> c.connected,
         e.room = c.room, e.blind = c.blind, NEW w \in c.waiting, e.waiting = c.waiting \ {w},
         e.lost = IF w.type \in Entering THEN c.lost \cup {w} ELSE c.lost
  PROVE  Sights(t, e, u, d, q, k, s)
<1>1. Linked(t, c, u, d, q, k) /\ Ties(t, c, u, d, q) /\ (Attached(c, k) => Seen(t, c, u, d, q, s))
  BY DEF Sights
<1>2. e.socket = c.socket /\ e.sockets = c.sockets /\ e.asked = c.asked BY DEF Keeps
<1>3. c.connected /\ \A j \in DOMAIN d : ~Greets(d[j]) BY <1>1 DEF Linked
<1>4. Linked(t, e, u, d, q, k) BY <1>1, <1>2, <1>3, LinkedStays
<1>5. Ties(t, e, u, d, q) BY <1>1, <1>2, TieTimeout
<1>6. Waits(c) /\ Downward(c, d) BY <1>1 DEF Ties, Numbers, Matches
<1>7. Attached(c, k) => Seen(t, e, u, d, q, s) BY <1>1, <1>2, <1>3, <1>6, TimedOut
<1>8. Attached(e, k) => Attached(c, k) BY <1>2 DEF Attached
<1>. QED BY <1>4, <1>5, <1>7, <1>8 DEF Sights

\* The tab stays connected, and what it shows stays as good as it was.
Online(c, e) == c.connected /\ (e.connected <=> c.connected) /\ e.blind = c.blind

\* A request more, sent before it is waited for.
LEMMA RequestSights ==
  ASSUME NEW t, NEW c, NEW u, NEW d, NEW q, NEW k, NEW s, Sights(t, c, u, d, q, k, s),
         c.asked \in Nat, IsSeq(u),
         NEW e, e.socket = c.socket, e.sockets = c.sockets, Online(c, e),
         e.asked = c.asked + 1, e.room = c.room, e.lost = c.lost,
         NEW w, e.waiting = c.waiting \cup {w}, "stale" \in DOMAIN w,
         NEW x, x.type \in {"join", "create", "leave", "close"}, x.n = c.asked + 2,
         w.n = x.n, w.type = x.type, w.intent = x.intent,
         Quits(x) => c.waiting = {} /\ x.intent = c.room.intent
  PROVE  Sights(t, e, Append(u, x), d, q, k, s)
<1>0. c.connected /\ (e.connected <=> c.connected) BY DEF Online
<1>. DEFINE v == Append(u, x)
<1>1. PICK n : Plus(u, x, v, n) BY AppendPlus
<1>. HIDE DEF v
<1>2. Linked(t, c, u, d, q, k) /\ Ties(t, c, u, d, q) /\ (Attached(c, k) => Seen(t, c, u, d, q, s))
  BY DEF Sights
<1>3. c.socket # 0 /\ \A j \in DOMAIN d : ~Greets(d[j]) BY <1>0, <1>2 DEF Linked
<1>4. Linked(t, e, v, d, q, k) BY <1>0, <1>1, <1>2, <1>3, LinkedStays DEF Plus
<1>5. Ties(t, e, v, d, q) BY <1>1, <1>2, TieAsk
<1>6. Attached(e, k) => Seen(t, e, v, d, q, s)
  <2>. SUFFICES ASSUME Attached(e, k) PROVE Seen(t, e, v, d, q, s) OBVIOUS
  <2>1. Seen(t, c, u, d, q, s) BY <1>2 DEF Attached
  <2>2. \A j \in DOMAIN d : d[j].type = "result" => d[j].n # w.n BY <1>2 DEF Ties, Numbers, Downward
  <2>3. Seen(t, e, u, d, q, s)
    <3>1. e.blind = c.blind BY Zenon DEF Online
    <3>. QED BY <2>1, <2>2, <3>1, Waiting
  <2>4. CASE ~Quits(x) BY <1>1, <2>3, <2>4, Sending
  <2>5. CASE Quits(x)
    BY <2>5, <1>2, <1>1, <1>3, <2>3, Quitting DEF Quits, Entering, Ties, Matches, Fits, Own
  <2>. QED BY <2>4, <2>5
<1>7. Sights(t, e, v, d, q, k, s) BY <1>4, <1>5, <1>6 DEF Sights
<1>. QED BY <1>7 DEF v

\* A request, which may make earlier ones obsolete.
LEMMA AskSights ==
  ASSUME NEW t, NEW c, NEW u, NEW d, NEW q, NEW k, NEW s, Sights(t, c, u, d, q, k, s),
         ScreenOK(c), IsSeq(u), c.connected, DOMAIN d \subseteq Nat \ {0},
         NEW e, e.socket = c.socket, e.sockets = c.sockets, Online(c, e),
         e.asked = c.asked + 1, e.room = c.room, e.lost = c.lost,
         NEW w, NEW x, e.waiting = Superseded(c, x.type) \cup {w}, "stale" \in DOMAIN w,
         x.type \in {"join", "create", "leave", "close"}, x.n = c.asked + 2,
         w.n = x.n, w.type = x.type, w.intent = x.intent,
         Quits(x) => c.waiting = {} /\ x.intent = c.room.intent
  PROVE  Sights(t, e, Append(u, x), d, q, k, s)
<1>1. PICK b : b = [c EXCEPT !.waiting = Superseded(c, x.type)] OBVIOUS
<1>2. /\ b.socket = c.socket /\ b.sockets = c.sockets /\ b.asked = c.asked /\ b.room = c.room
      /\ b.lost = c.lost /\ b.waiting = Superseded(c, x.type) /\ c.asked \in Nat
      /\ b.connected = c.connected /\ b.blind = c.blind
  BY <1>1 DEF ScreenOK, Screen
<1>3. Waits(c) BY DEF Sights, Ties, Matches
<1>4. Fades(c.waiting, b.waiting) BY <1>2, <1>3, SupersededFades
<1>5. b.connected <=> c.connected BY <1>2, Zenon
<1>6. (e.connected <=> b.connected) /\ e.blind = b.blind
  <2>1. (e.connected <=> c.connected) /\ e.blind = c.blind BY Zenon DEF Online
  <2>. QED BY <1>2, <1>5, <2>1, Zenon
<1>7. Sights(t, b, u, d, q, k, s) BY <1>2, <1>4, <1>5, FadeSights DEF Keeps
<1>8. Quits(x) => b.waiting = {} /\ x.intent = b.room.intent BY <1>2 DEF Superseded
<1>9. b.connected BY <1>5
<1>. HIDE DEF Sights
<1>11. Online(b, e) BY <1>6, <1>9, Zenon DEF Online
<1>. QED BY <1>7, <1>8, <1>2, <1>11, RequestSights

\* What a tab asks for leaves its view a true one.
LEMMA SightAsk ==
  ASSUME Inv, NEW t \in Tab, Sight(t), tab[t].connected, NEW type \in {"join", "create", "leave", "close"},
         NEW intent, NEW r, NEW password, Ask(t, type, intent, r, password), UNCHANGED withdrawn,
         type = "leave" => tab[t].waiting = {} /\ intent = tab[t].room.intent
  PROVE  Sight(t)'
<1>1. PICK c : c = tab[t] OBVIOUS
<1>2. PICK e : e = tab'[t] OBVIOUS
<1>3. PICK x : x = Command(type, c.asked + 2, intent, r, password) OBVIOUS
<1>4. PICK w : w = [n |-> c.asked + 2, type |-> type, intent |-> intent, stale |-> FALSE] OBVIOUS
<1>5. /\ ScreenOK(c) /\ IsSeq(up[t]) /\ DOMAIN down[t] \subseteq Nat \ {0}
      /\ Sights(t, c, up[t], down[t], work, session[t].socket, Where(Now, t))
      /\ Linked(t, c, up[t], down[t], work, session[t].socket)
  BY <1>1, SightMail, TabScreen DEF Sight, Sights
<1>6. c.connected BY <1>1
<1>7. c.socket # 0 BY <1>5, <1>6 DEF Linked
<1>8. x.type = type /\ x.n = c.asked + 2 /\ x.intent = intent BY <1>3 DEF Command
<1>9. w.n = c.asked + 2 /\ w.type = type /\ w.intent = intent /\ "stale" \in DOMAIN w BY <1>4
<1>10. /\ Alone(t) /\ UNCHANGED down
       /\ up'[t] = IF tab[t].socket = 0 THEN up[t]
                   ELSE Append(up[t], Command(type, tab[t].asked + 2, intent, r, password))
       /\ tab'[t].socket = tab[t].socket /\ tab'[t].sockets = tab[t].sockets
       /\ tab'[t].room = tab[t].room /\ tab'[t].asked = tab[t].asked + 1 /\ tab'[t].lost = tab[t].lost
       /\ tab'[t].waiting = Superseded(tab[t], type) \cup {[n |-> tab[t].asked + 2, type |-> type,
                                                           intent |-> intent, stale |-> FALSE]}
  <2>. HIDE DEF Sight
  <2>. QED BY AskTab
<1>11. tab'[t].connected = tab[t].connected /\ tab'[t].blind = tab[t].blind BY AskTab, Zenon
<1>12. Online(c, e)
  <2>1. e.connected = c.connected /\ e.blind = c.blind BY <1>1, <1>2, <1>11, Zenon
  <2>. QED BY <1>6, <2>1, Zenon DEF Online
<1>13. /\ up'[t] = Append(up[t], x)
       /\ e.socket = c.socket /\ e.sockets = c.sockets
       /\ e.room = c.room /\ e.asked = c.asked + 1 /\ e.lost = c.lost
       /\ e.waiting = Superseded(c, x.type) \cup {w}
  BY <1>1, <1>2, <1>3, <1>4, <1>7, <1>8, <1>10
<1>14. Quits(x) => c.waiting = {} /\ x.intent = c.room.intent BY <1>1, <1>8 DEF Quits
<1>15. Sights(t, e, Append(up[t], x), down[t], work, session[t].socket, Where(Now, t))
  BY <1>8, <1>9, <1>5, <1>6, <1>12, <1>13, <1>14, AskSights
<1>16. down'[t] = down[t] BY <1>10
<1>. QED BY <1>2, <1>10, <1>13, <1>15, <1>16, SightAlone

\* Opening a room, entering one, leaving or closing it.
LEMMA SightRequest ==
  ASSUME Inv, NEW t \in Tab, Sight(t), Create(t) \/ Join(t) \/ Quit(t)
  PROVE  Sight(t)'
<1>1. tab[t].connected BY DEF Create, Join, Quit, Idle
<1>2. CASE Create(t)
  <2>1. PICK intent : Ask(t, "create", intent, 0, 0) BY <1>2 DEF Create
  <2>. QED BY <1>1, <2>1, SightAsk DEF Ask
<1>3. CASE Join(t)
  <2>1. PICK r, password : Ask(t, "join", tab[t].asked + 2, r, password) BY <1>3 DEF Join
  <2>. QED BY <1>1, <2>1, SightAsk DEF Ask
<1>4. CASE Quit(t) BY <1>4, <1>1, SightAsk DEF Quit, Ask
<1>. QED BY <1>2, <1>3, <1>4

\* What a host asks of its room moves the host nowhere.
LEMMA SightManage ==
  ASSUME Inv, NEW t \in Tab, Sight(t), Manage(t)
  PROVE  Sight(t)'
<1>1. PICK x : /\ Alone(t) /\ tab' = tab /\ down' = down /\ x.n = 0 /\ x.type \in {"remove", "access"}
               /\ up'[t] = IF tab[t].socket = 0 THEN up[t] ELSE Append(up[t], x)
  BY ManageTab
<1>2. /\ IsSeq(up[t]) /\ tab[t].asked \in Nat
      /\ Sights(t, tab[t], up[t], down[t], work, session[t].socket, Where(Now, t))
      /\ Linked(t, tab[t], up[t], down[t], work, session[t].socket)
  BY SightMail DEF Sight, Sights
<1>3. tab[t].connected BY DEF Manage
<1>4. tab[t].socket # 0 BY <1>2, <1>3 DEF Linked
<1>. QED BY <1>1, <1>4, <1>2, <1>3, SendSights, SightAlone

\* Attempts that are withdrawn are undone, should they succeed.
LEMMA SightWithdraw ==
  ASSUME Inv, NEW t \in Tab, Sight(t), WithdrawAttempt(t)
  PROVE  Sight(t)'
<1>1. PICK c : c = tab[t] OBVIOUS
<1>2. PICK e : e = tab'[t] OBVIOUS
<1>3. PICK x : x = Command("cancelCreate", 0, c.lobby, 0, 0) OBVIOUS
<1>4. PICK y : y = Command("leave", 0, c.joining, 0, 0) OBVIOUS
<1>5. PICK u : u = IF c.lobby = 0 THEN up[t] ELSE Append(up[t], x) OBVIOUS
<1>6. /\ IsSeq(up[t]) /\ DOMAIN down[t] \subseteq Nat \ {0} /\ c.asked \in Nat
      /\ Sights(t, c, up[t], down[t], work, session[t].socket, Where(Now, t))
  BY <1>1, SightMail DEF Sight
<1>7. /\ Alone(t) /\ down'[t] = down[t]
      /\ up'[t] = IF c.socket = 0 THEN up[t] ELSE IF c.joining = 0 THEN u ELSE Append(u, y)
      /\ e.socket = c.socket /\ e.sockets = c.sockets /\ e.connected = c.connected
      /\ e.room = c.room /\ e.asked = c.asked /\ e.lost = c.lost /\ e.blind = c.blind
      /\ e.waiting = Marked(c)
  BY <1>1, <1>2, <1>3, <1>4, <1>5, WithdrawTab
<1>8. Waits(c) BY <1>6 DEF Sights, Ties, Matches
<1>9. Fades(c.waiting, e.waiting) BY <1>7, <1>8, MarkedFades
<1>10. e.connected <=> c.connected BY <1>7, Zenon
<1>11. Keeps(c, e) BY <1>7 DEF Keeps
<1>12. Sights(t, e, up[t], down[t], work, session[t].socket, Where(Now, t))
  BY <1>6, <1>7, <1>9, <1>10, <1>11, FadeSights
<1>13. x.n = 0 /\ x.type \in Withdraws /\ y.n = 0 /\ y.type \in Withdraws
  BY <1>3, <1>4 DEF Command, Withdraws
<1>14. e.asked \in Nat BY <1>6, <1>7
<1>15. ASSUME c.socket # 0
       PROVE  IsSeq(u) /\ Sights(t, e, u, down[t], work, session[t].socket, Where(Now, t))
  BY <1>7, <1>15, <1>5, <1>6, <1>12, <1>13, <1>14, SendSights
<1>16. Sights(t, e, up'[t], down[t], work, session[t].socket, Where(Now, t))
  BY <1>7, <1>12, <1>15, <1>13, <1>14, SendSights
<1>. QED BY <1>2, <1>7, <1>16, SightAlone

\* A request that is given up is remembered as one that may have succeeded.
LEMMA SightTimeout ==
  ASSUME Inv, NEW t \in Tab, Sight(t), Timeout(t)
  PROVE  Sight(t)'
<1>1. PICK c : c = tab[t] OBVIOUS
<1>2. PICK e : e = tab'[t] OBVIOUS
<1>3. /\ Alone(t) /\ up' = up /\ down' = down
      /\ e.socket = c.socket /\ e.sockets = c.sockets /\ e.connected = c.connected
      /\ e.room = c.room /\ e.asked = c.asked /\ e.blind = c.blind
      /\ \E w \in c.waiting : /\ e.waiting = c.waiting \ {w}
                              /\ e.lost = IF w.type \in Entering THEN c.lost \cup {w} ELSE c.lost
  BY <1>1, <1>2, TimeoutTab
<1>4. DOMAIN down[t] \subseteq Nat
      /\ Sights(t, c, up[t], down[t], work, session[t].socket, Where(Now, t))
  BY <1>1, SightMail DEF Sight
<1>5. e.connected <=> c.connected BY <1>3, Zenon
<1>6. Keeps(c, e) BY <1>3 DEF Keeps
<1>7. PICK w \in c.waiting : /\ e.waiting = c.waiting \ {w}
                             /\ e.lost = IF w.type \in Entering THEN c.lost \cup {w} ELSE c.lost
  BY <1>3
<1>8. Sights(t, e, up[t], down[t], work, session[t].socket, Where(Now, t))
  BY <1>3, <1>4, <1>5, <1>6, <1>7, TimeoutSights
<1>. QED BY <1>2, <1>3, <1>8, SightAlone

\* A message read is one message less on its way.
LEMMA LinkedRest ==
  ASSUME NEW t, NEW c, NEW u, NEW d, NEW q, NEW k, Linked(t, c, u, d, q, k), NEW f, Rest(d, f),
         NEW e, e.socket = c.socket, e.sockets = c.sockets, e.connected <=> c.connected,
         \A w \in e.waiting : w \in c.waiting
  PROVE  Linked(t, e, u, f, q, k)
BY LinkedStays DEF Rest

\* The tab is told that it is out of its room.
LEMMA EndSights ==
  ASSUME NEW t, NEW c, NEW u, NEW d, NEW q, NEW k, NEW s, Sights(t, c, u, d, q, k, s),
         c.asked \in Nat, NEW f, Rest(d, f), NEW e, NEW v, TakesEnd(c, e, u, v, d[1])
  PROVE  Sights(t, e, v, f, q, k, s)
<1>1. Linked(t, c, u, d, q, k) /\ Ties(t, c, u, d, q) /\ (Attached(c, k) => Seen(t, c, u, d, q, s))
  BY DEF Sights
<1>2. /\ d[1].type = "ended" /\ v = u /\ e.waiting = c.waiting /\ e.lost = c.lost
      /\ e.socket = c.socket /\ e.sockets = c.sockets /\ e.asked = c.asked
  BY DEF TakesEnd, Keeps
<1>3. e.connected <=> c.connected BY DEF TakesEnd
<1>4. Linked(t, e, u, f, q, k) BY <1>1, <1>2, <1>3, LinkedRest
<1>5. Ties(t, e, u, f, q) BY <1>1, <1>2, TieRest
<1>7. ~Outdated(c, d[1], s) /\ ~Greets(d[1]) /\ ~Won(c, d[1])
  BY <1>2 DEF Outdated, Wins, Greets, Won
<1>8. ASSUME Seen(t, c, u, d, q, s) PROVE Seen(t, e, u, f, q, s)
  BY <1>7, <1>2, ReadsCertain, <1>8, ReadNothing, ReadNews DEF TakesEnd, Informs, Value, Same,
     Nowhere, Shown, OwnEnd
<1>9. Attached(e, k) => Attached(c, k) BY <1>2 DEF Attached
<1>. QED BY <1>1, <1>2, <1>4, <1>5, <1>8, <1>9 DEF Sights

\* The coordinator knows the tab, which shows where it is.
LEMMA WelcomeSights ==
  ASSUME NEW t, NEW c, NEW u, NEW d, NEW q, NEW k, NEW s, Sights(t, c, u, d, q, k, s),
         c.asked \in Nat, NEW f, Rest(d, f), Greets(d[1]), d[1].code = "ok",
         \A j \in DOMAIN f : ~Greets(f[j]),
         NEW e, e.asked = c.asked, e.sockets = c.sockets, e.socket = c.socket, e.connected,
         e.waiting = c.waiting, e.lost = {}, e.room = Shown(d[1].room, d[1].intent, d[1].host)
  PROVE  Sights(t, e, u, f, q, k, s)
<1>1. Linked(t, c, u, d, q, k) /\ Ties(t, c, u, d, q) /\ (Attached(c, k) => Seen(t, c, u, d, q, s))
  BY DEF Sights
<1>2. 1 \in DOMAIN d /\ ~c.connected /\ Attached(c, k) BY <1>1 DEF Linked, Rest
<1>3. /\ c.waiting = {}
      /\ \A i \in DOMAIN u : u[i].type \in {"hello", "leave", "cancelCreate"} /\ u[i].n \in {0, 1}
      /\ \A i \in DOMAIN q : ~Own(t, c, q, i)
  BY <1>1, <1>2 DEF Linked
<1>4. Linked(t, e, u, f, q, k) BY <1>1, <1>2 DEF Linked, Attached
<1>5. Ties(t, e, u, f, q) BY <1>1, TieRest, <1>3, TieGreet DEF Entering
<1>6. Seen(t, e, u, f, q, s)
  BY <1>2, <1>3, <1>1, ReadNews DEF Certain, Informs, OwnEnd, Outdated, Greets, Value
<1>. QED BY <1>4, <1>5, <1>6 DEF Sights

\* The coordinator does not know the tab, which starts again.
LEMMA StrangerSights ==
  ASSUME NEW t, NEW c, NEW u, NEW d, NEW q, NEW k, NEW s, Sights(t, c, u, d, q, k, s),
         c.asked \in Nat, NEW f, Rest(d, f), \A j \in DOMAIN f : ~Greets(f[j]),
         NEW e, e.asked = c.asked, e.sockets = c.sockets, e.socket = 0, ~e.connected,
         e.waiting = {}, e.lost = c.lost
  PROVE  Sights(t, e, <<>>, f, q, k, s)
<1>1. PICK v : v = <<>> OBVIOUS
<1>3. Sights(t, e, v, f, q, k, s) BY <1>1, AnewSights
<1>. QED BY <1>1, <1>3

\* A reply, and what the tab makes of it.
Answering(c, d, f, e, w) ==
  /\ Rest(d, f) /\ d[1].type = "result" /\ Keeps(c, e) /\ (e.connected <=> c.connected)
  /\ w \in c.waiting /\ w.n = d[1].n /\ e.waiting = c.waiting \ {w}

\* A reply is no other one, and its request no other either.
LEMMA AnswerOnly ==
  ASSUME NEW t, NEW c, NEW u, NEW d, NEW q, NEW f, NEW e, NEW w, Ties(t, c, u, d, q),
         Answering(c, d, f, e, w)
  PROVE  /\ \A y \in e.waiting : y \in c.waiting
         /\ \A y \in c.waiting : y \in e.waiting \/ \A j \in DOMAIN d : 1 < j => ~Wins(d[j], y)
         /\ \A y \in c.waiting : Wins(d[1], y) => y = w
         /\ ~OwnEnd(d[1]) /\ ~Greets(d[1]) /\ 1 \in DOMAIN d
BY DEF Answering, Rest, Ties, Numbers, Matches, Waits, Wins, Apart, Downward, Greets, OwnEnd

\* The order of the mail when a reply is read.
LEMMA AnswerTies ==
  ASSUME NEW t, NEW c, NEW u, NEW d, NEW q, NEW k, NEW f, NEW e, NEW w, Ties(t, c, u, d, q),
         Linked(t, c, u, d, q, k), c.asked \in Nat,
         \A i \in DOMAIN q : q[i].command.type \in {"join", "access"}, Answering(c, d, f, e, w),
         e.lost = c.lost \/ e.lost = {y \in c.lost : Outlives(y, w)}
  PROVE  Linked(t, e, u, f, q, k) /\ Ties(t, e, u, f, q)
BY LinkedRest, TieReply, TieRest DEF Answering, Rest, Keeps

\* An attempt that succeeded makes those before it obsolete.
LEMMA WonCertain ==
  ASSUME NEW t, NEW c, NEW u, NEW d, NEW q, NEW f, NEW e, NEW w, Ties(t, c, u, d, q),
         c.asked \in Nat, Answering(c, d, f, e, w), Wins(d[1], w), ~w.stale, w.type = "create",
         e.lost = {y \in c.lost : Outlives(y, w)}, Certain(e, f)
  PROVE  Certain(c, d)
<1>1. /\ 1 \in DOMAIN d /\ d[1].type = "result" /\ w \in c.waiting /\ w.n = d[1].n
      /\ e.waiting = c.waiting \ {w} /\ Rest(d, f)
  BY DEF Answering, Rest
<1>2. Downward(c, d) BY DEF Ties, Numbers
<1>3. CASE e.lost = {} BY <1>1, <1>3 DEF Covers, Certain
<1>4. CASE \E j \in DOMAIN f : Greets(f[j]) \/ Covers(e, f[j])
  <2>1. PICK j \in DOMAIN f : Greets(f[j]) \/ Covers(e, f[j]) BY <1>4
  <2>2. PICK i : i = j + 1 OBVIOUS
  <2>3. i \in DOMAIN d /\ d[i] = f[j] /\ 1 < i BY <1>1, <2>2 DEF Rest
  <2>4. CASE Covers(e, f[j])
    <3>1. PICK y \in e.waiting : /\ y.type = "create" /\ ~y.stale /\ Wins(f[j], y)
                                 /\ \A v \in e.lost : ~Outlives(v, y)
      BY <2>4 DEF Covers
    <3>2. y \in c.waiting /\ y.n = d[i].n /\ d[i].type = "result" BY <1>1, <2>3, <3>1 DEF Wins
    <3>3. d[1].n < d[i].n BY <1>1, <1>2, <2>3, <3>1, <3>2 DEF Downward
    <3>5. ASSUME NEW v \in c.lost PROVE ~Outlives(v, y)
      BY <3>1, <1>1, <3>2, <3>3, <1>2 DEF Outlives, Downward
    <3>6. Covers(c, d[i]) BY <2>3, <3>1, <3>2, <3>5 DEF Covers
    <3>. QED BY <2>3, <3>6 DEF Certain
  <2>. QED BY <2>1, <2>3, <2>4 DEF Certain
<1>. QED BY <1>3, <1>4 DEF Certain

\* What is left of the view when a reply is read.
LEMMA AnswerSights ==
  ASSUME NEW t, NEW c, NEW u, NEW d, NEW q, NEW k, NEW s, Sights(t, c, u, d, q, k, s),
         c.asked \in Nat, \A i \in DOMAIN q : q[i].command.type \in {"join", "access"},
         NEW f, NEW e, NEW w, Answering(c, d, f, e, w),
         e.lost = c.lost \/ e.lost = {y \in c.lost : Outlives(y, w)},
         Seen(t, c, u, d, q, s) => Seen(t, e, u, f, q, s)
  PROVE  Sights(t, e, u, f, q, k, s)
BY AnswerTies DEF Sights, Attached, Answering, Keeps

\* An attempt succeeded that is still wanted.
LEMMA WonSights ==
  ASSUME NEW t, NEW c, NEW u, NEW d, NEW q, NEW k, NEW s, Sights(t, c, u, d, q, k, s),
         c.asked \in Nat, \A i \in DOMAIN q : q[i].command.type \in {"join", "access"},
         NEW f, NEW e, NEW w, Answering(c, d, f, e, w), d[1].code = "ok",
         w.type \in Entering, ~w.stale, e.room = Shown(d[1].room, d[1].intent, d[1].host),
         \/ e.lost = c.lost
         \/ w.type = "create" /\ e.lost = {y \in c.lost : Outlives(y, w)}
  PROVE  Sights(t, e, u, f, q, k, s)
<1>1. Ties(t, c, u, d, q) BY DEF Sights
<1>2. w \in c.waiting /\ w.n = d[1].n /\ d[1].type = "result" /\ Rest(d, f) /\ e.socket = c.socket
  BY DEF Answering, Keeps
<1>3. Wins(d[1], w) BY <1>2 DEF Wins
<1>4. /\ \A y \in e.waiting : y \in c.waiting
      /\ \A y \in c.waiting : y \in e.waiting \/ \A j \in DOMAIN d : 1 < j => ~Wins(d[j], y)
      /\ \A y \in c.waiting : Wins(d[1], y) => y = w
      /\ ~OwnEnd(d[1])
  BY <1>1, AnswerOnly
<1>5. Informs(c, d[1]) /\ ~Outdated(c, d[1], s) BY <1>2, <1>3, <1>4 DEF Informs, Won, Outdated
<1>6. Same(Value(d[1]), s) => Same(e.room, s) BY <1>2 DEF Value
<1>7. Certain(e, f) => Certain(c, d) BY <1>2, <1>4, ReadsCertain, <1>1, <1>3, WonCertain
<1>8. Seen(t, c, u, d, q, s) => Seen(t, e, u, f, q, s) BY <1>2, <1>4, <1>5, <1>6, <1>7, ReadNews
<1>. QED BY <1>8, AnswerSights

\* A request was refused, or succeeded too late and is undone.
LEMMA VainSights ==
  ASSUME NEW t, NEW c, NEW u, NEW d, NEW q, NEW k, NEW s, Sights(t, c, u, d, q, k, s),
         c.asked \in Nat, \A i \in DOMAIN q : q[i].command.type \in {"join", "access"},
         NEW f, NEW e, NEW w, Answering(c, d, f, e, w), e.lost = c.lost,
         e.room = c.room, c.blind => e.blind,
         d[1].code # "ok" \/ (w.type \in Entering /\ w.stale),
         Attached(c, k) /\ s.id # 0 /\ Outdated(c, d[1], s) => Sent(u, s)
  PROVE  Sights(t, e, u, f, q, k, s)
<1>1. Ties(t, c, u, d, q) BY DEF Sights
<1>2. /\ w \in c.waiting /\ w.n = d[1].n /\ d[1].type = "result" /\ Rest(d, f)
      /\ e.socket = c.socket /\ e.sockets = c.sockets
  BY DEF Answering, Keeps
<1>3. /\ \A y \in e.waiting : y \in c.waiting
      /\ \A y \in c.waiting : y \in e.waiting \/ \A j \in DOMAIN d : 1 < j => ~Wins(d[j], y)
      /\ \A y \in c.waiting : Wins(d[1], y) => y = w
      /\ ~OwnEnd(d[1]) /\ ~Greets(d[1])
  BY <1>1, AnswerOnly
<1>4. ~Informs(c, d[1]) BY <1>2, <1>3 DEF Informs, Won, Wins
<1>5. Certain(e, f) => Certain(c, d) BY <1>2, <1>3, ReadsCertain
<1>6. Attached(c, k) => (Seen(t, c, u, d, q, s) => Seen(t, e, u, f, q, s))
  BY <1>2, <1>3, <1>4, <1>5, ReadNothing
<1>7. Linked(t, c, u, d, q, k) /\ (Attached(c, k) => Seen(t, c, u, d, q, s)) BY DEF Sights
<1>8. Linked(t, e, u, f, q, k) /\ Ties(t, e, u, f, q) BY <1>1, <1>7, AnswerTies
<1>9. Attached(e, k) => Attached(c, k) BY <1>2 DEF Attached
<1>. QED BY <1>6, <1>7, <1>8, <1>9 DEF Sights

\* A tab that quits is told that it is out.
LEMMA QuitSights ==
  ASSUME NEW t, NEW c, NEW u, NEW d, NEW q, NEW k, NEW s, Sights(t, c, u, d, q, k, s),
         c.asked \in Nat, \A i \in DOMAIN q : q[i].command.type \in {"join", "access"},
         NEW f, NEW e, NEW w, Answering(c, d, f, e, w), d[1].code = "ok",
         w.type \notin Entering, e.room = Nowhere, e.lost = c.lost
  PROVE  Sights(t, e, u, f, q, k, s)
<1>1. Ties(t, c, u, d, q) BY DEF Sights
<1>2. w \in c.waiting /\ w.n = d[1].n /\ d[1].type = "result" /\ Rest(d, f) /\ e.socket = c.socket
  BY DEF Answering, Keeps
<1>3. Wins(d[1], w) BY <1>2 DEF Wins
<1>4. /\ \A y \in e.waiting : y \in c.waiting
      /\ \A y \in c.waiting : y \in e.waiting \/ \A j \in DOMAIN d : 1 < j => ~Wins(d[j], y)
      /\ \A y \in c.waiting : Wins(d[1], y) => y = w
      /\ ~OwnEnd(d[1]) /\ ~Greets(d[1])
  BY <1>1, AnswerOnly
<1>5. ~Informs(c, d[1]) /\ ~Outdated(c, d[1], s) BY <1>2, <1>4 DEF Informs, Won, Outdated
<1>6. Certain(e, f) => Certain(c, d) BY <1>2, <1>4, ReadsCertain
<1>7. Seen(t, c, u, d, q, s) => Seen(t, e, u, f, q, s) BY <1>2, <1>3, <1>4, <1>5, <1>6, ReadQuit
<1>. QED BY <1>7, AnswerSights

\* A reply nobody waits for is dropped.
LEMMA UnaskedSights ==
  ASSUME NEW t, NEW c, NEW u, NEW d, NEW q, NEW k, NEW s, Sights(t, c, u, d, q, k, s),
         c.asked \in Nat, NEW f, Rest(d, f), d[1].type = "result", d[1].n # 1,
         \A w \in c.waiting : w.n # d[1].n,
         NEW e, Keeps(c, e), e.connected <=> c.connected, e.waiting = c.waiting, e.lost = c.lost,
         e.room = c.room, c.blind => e.blind
  PROVE  Sights(t, e, u, f, q, k, s)
<1>1. Linked(t, c, u, d, q, k) /\ Ties(t, c, u, d, q) /\ (Attached(c, k) => Seen(t, c, u, d, q, s))
  BY DEF Sights
<1>2. e.socket = c.socket /\ e.sockets = c.sockets /\ e.asked = c.asked BY DEF Keeps
<1>3. Linked(t, e, u, f, q, k) BY <1>1, <1>2, LinkedRest
<1>4. Ties(t, e, u, f, q) BY <1>1, <1>2, TieRest
<1>6. Certain(e, f) => Certain(c, d) BY ReadsCertain
<1>7. Seen(t, c, u, d, q, s) => Seen(t, e, u, f, q, s)
  BY <1>2, <1>6, ReadNothing DEF Informs, Won, Wins, Greets, Outdated, OwnEnd
<1>8. Attached(e, k) => Attached(c, k) BY <1>2 DEF Attached
<1>. QED BY <1>1, <1>3, <1>4, <1>7, <1>8 DEF Sights

\* The late success of an attempt is undone.
LEMMA LateSights ==
  ASSUME NEW t, NEW c, NEW u, NEW d, NEW q, NEW k, NEW s, Sights(t, c, u, d, q, k, s),
         c.asked \in Nat, IsSeq(u), \A i \in DOMAIN q : q[i].command.type \in {"join", "access"},
         NEW f, NEW e, NEW w, Answering(c, d, f, e, w), e.lost = c.lost,
         e.room = c.room, c.blind => e.blind, w.type \in Entering, w.stale,
         NEW x, x = Command(Goal(w), 0, w.intent, 0, 0),
         NEW v, v = IF c.socket = 0 THEN u ELSE Append(u, x)
  PROVE  Sights(t, e, v, f, q, k, s)
<1>1. Ties(t, c, u, d, q) BY DEF Sights
<1>2. \A y \in c.waiting : Wins(d[1], y) => y = w BY <1>1, AnswerOnly
<1>3. CASE c.socket = 0 BY <1>3, VainSights DEF Attached
<1>4. CASE c.socket # 0
  <2>1. /\ x.n = 0 /\ x.type \in Withdraws /\ x.intent = w.intent
        /\ x.type = "cancelCreate" => w.type = "create"
    BY DEF Command, Goal, Entering, Withdraws
  <2>2. v = Append(u, x) BY <1>4
  <2>3. Sights(t, c, v, d, q, k, s) BY <1>4, <2>1, <2>2, SendSights
  <2>4. \E i \in DOMAIN v : v[i] = x BY <2>2, AppendIsSeq
  <2>5. Outdated(c, d[1], s) => Undoes(x, s) BY <1>2, <2>1 DEF Outdated, Undoes
  <2>6. Outdated(c, d[1], s) => Sent(v, s) BY <2>4, <2>5 DEF Sent
  <2>. QED BY <2>3, <2>6, VainSights
<1>. QED BY <1>3, <1>4

\* The reply to a request.
LEMMA ReplySights ==
  ASSUME NEW t, NEW c, NEW u, NEW d, NEW q, NEW k, NEW s, Sights(t, c, u, d, q, k, s),
         c.asked \in Nat, IsSeq(u), \A i \in DOMAIN q : q[i].command.type \in {"join", "access"},
         NEW f, Rest(d, f), NEW e, NEW v, TakesReply(c, e, u, v, d[1])
  PROVE  Sights(t, e, v, f, q, k, s)
<1>. DEFINE m == d[1]
<1>1. d[1].type = "result" /\ Keeps(c, e) BY DEF TakesReply
<1>2. e.connected <=> c.connected BY DEF TakesReply
<1>3. CASE /\ \A w \in c.waiting : w.n # m.n
           /\ m.n # 1 /\ v = u /\ e.waiting = c.waiting /\ e.lost = c.lost
           /\ e.room = c.room /\ (e.blind <=> c.blind)
  BY <1>1, <1>2, <1>3, UnaskedSights
<1>4. ASSUME NEW w \in c.waiting, w.n = m.n, e.waiting = c.waiting \ {w},
             \/ /\ w.type \in Entering /\ m.code = "ok" /\ w.stale
                /\ v = IF c.socket = 0 THEN u ELSE Append(u, Command(Goal(w), 0, w.intent, 0, 0))
                /\ e.room = c.room /\ (e.blind <=> c.blind) /\ e.lost = c.lost
             \/ /\ w.type \in Entering /\ m.code = "ok" /\ ~w.stale
                /\ v = u /\ e.room = Shown(m.room, m.intent, m.host) /\ ~e.blind
                /\ e.lost = IF w.type = "create" THEN {y \in c.lost : Outlives(y, w)} ELSE c.lost
             \/ /\ w.type \notin Entering /\ m.code = "ok"
                /\ v = u /\ e.room = Nowhere /\ ~e.blind /\ e.lost = c.lost
             \/ /\ m.code # "ok"
                /\ v = u /\ e.room = c.room /\ (e.blind <=> c.blind) /\ e.lost = c.lost
      PROVE  Sights(t, e, v, f, q, k, s)
  BY <1>1, <1>2, <1>4, LateSights, WonSights, QuitSights, VainSights DEF Answering, Outdated, Wins
<1>. QED BY <1>3, <1>4 DEF TakesReply

\* A greeting is no second one.
LEMMA GreetedOnce ==
  ASSUME Inv, NEW t \in Tab, NEW d, d = down[t], NEW f, Rest(d, f), Greets(d[1])
  PROVE  \A j \in DOMAIN f : ~Greets(f[j])
BY DEF Inv, Greetings, Rest

\* A message that is read leaves the tab a true view.
LEMMA SightReceive ==
  ASSUME Inv, NEW t \in Tab, Sight(t), Receive(t)
  PROVE  Sight(t)'
<1>1. PICK c : c = tab[t] OBVIOUS
<1>2. PICK e : e = tab'[t] OBVIOUS
<1>3. PICK u : u = up[t] OBVIOUS
<1>4. PICK v : v = up'[t] OBVIOUS
<1>5. PICK d : d = down[t] OBVIOUS
<1>6. PICK f : f = down'[t] OBVIOUS
<1>7. /\ Alone(t) /\ Rest(down[t], down'[t])
      /\ \/ TakesEnd(tab[t], tab'[t], up[t], up'[t], down[t][1])
         \/ TakesGreeting(tab[t], tab'[t], up[t], up'[t], down[t][1])
         \/ TakesReply(tab[t], tab'[t], up[t], up'[t], down[t][1])
  BY ReceiveTab
<1>8. /\ Rest(d, f)
      /\ \/ TakesEnd(c, e, u, v, d[1])
         \/ TakesGreeting(c, e, u, v, d[1])
         \/ TakesReply(c, e, u, v, d[1])
  BY <1>1, <1>2, <1>3, <1>4, <1>5, <1>6, <1>7
<1>9. PICK s : s = Where(Now, t) OBVIOUS
<1>10. PICK k : k = session[t].socket OBVIOUS
<1>11. PICK q : q = work OBVIOUS
<1>12. /\ IsSeq(u) /\ c.asked \in Nat /\ \A i \in DOMAIN q : q[i].command.type \in {"join", "access"}
       /\ Sights(t, c, u, d, q, k, s)
  BY <1>1, <1>3, <1>5, <1>9, <1>10, <1>11, SightMail DEF Sight
<1>13. Sights(t, e, v, f, q, k, s)
  BY <1>8, <1>12, EndSights, ReplySights, <1>5, GreetedOnce, WelcomeSights, StrangerSights DEF
     TakesGreeting
<1>14. Sights(t, tab'[t], up'[t], down'[t], work, session[t].socket, Where(Now, t))
  BY <1>2, <1>4, <1>6, <1>9, <1>10, <1>11, <1>13
<1>. QED BY <1>7, <1>14, SightAlone

\* No step makes the view of a tab a false one.
LEMMA SightNext ==
  ASSUME Inv, Recorded, \A t \in Tab : Sight(t), [Next]_vars
  PROVE  \A t \in Tab : Sight(t)'
<1>1. Inv' BY NextInv
<1>2. ASSUME NEW t \in Tab,
             \/ Connect(t) \/ Break(t) \/ Create(t) \/ Join(t) \/ Quit(t) \/ Manage(t)
             \/ WithdrawAttempt(t) \/ Timeout(t) \/ Receive(t)
      PROVE  \A v \in Tab : Sight(v)'
  BY <1>2, SightConnect, SightRequest, SightManage, SightWithdraw, SightTimeout, SightReceive,
     ActsAloneOf, SightAside DEF Alone
<1>3. ASSUME NEW t \in Tab, Attach(t) \/ Detach(t) \/ Handle(t) \/ Defer(t)
      PROVE  \A v \in Tab : Sight(v)'
  <2>1. Sight(t)' BY <1>1, <1>3, SightAttach, SightDetach, SightHandle, SightDefer
  <2>2. \A v \in Tab \ {t} : Aside(v) BY <1>3, AttachDealt, DetachAside, HandleDealt, DeferDealt
  <2>. QED BY <2>1, <2>2, SightAside
<1>4. ASSUME NEW t \in Tab, Lapse(t) \/ Heartbeat(t) \/ Miss(t) PROVE \A v \in Tab : Sight(v)'
  BY <1>4, ClockAside, SightAside
<1>5. CASE (\E t \in Tab : Expire(t)) \/ Operator BY <1>5, OutAside, SightAside
<1>6. ASSUME NEW i, Derived(i) PROVE \A v \in Tab : Sight(v)'
  <2>1. work[i].tab \in Tab /\ \A v \in Tab \ {work[i].tab} : Aside(v) BY <1>6, DerivedDealt
  <2>2. PICK t \in Tab : t = work[i].tab BY <2>1
  <2>3. Sight(t)' BY <1>1, <1>6, <2>2, SightDerived
  <2>. QED BY <2>1, <2>2, <2>3, SightAside
<1>7. CASE Restart BY <1>7, SightRestart
<1>8. CASE UNCHANGED vars BY <1>8 DEF vars, Sight, Now
<1>. QED BY <1>2, <1>3, <1>4, <1>5, <1>6, <1>7, <1>8 DEF Next

\* A tab that was never connected has nothing under way.
LEMMA OfflineSights ==
  ASSUME NEW t, NEW c, c = Offline, NEW u, u = <<>>, NEW s
  PROVE  Sights(t, c, u, u, u, 0, s)
<1>1. /\ c.sockets = 0 /\ c.socket = 0 /\ ~c.connected /\ c.waiting = {} /\ c.lost = {}
      /\ DOMAIN u = {}
  BY DEF Offline
<1>2. Linked(t, c, u, u, u, 0) BY <1>1 DEF Linked, Attached
<1>3. Ties(t, c, u, u, u)
  BY <1>1 DEF Ties, Numbers, Upward, Ahead, Apart, Downward, Matches, Waits, Awards
<1>4. ~Attached(c, 0) BY DEF Attached
<1>. QED BY <1>2, <1>3, <1>4 DEF Sights

\* At first no tab is connected.
LEMMA SightInit ==
  ASSUME Init, NEW t \in Tab
  PROVE  Sight(t)
BY OfflineSights DEF Init, Nobody, Sight

\* What is under way explains every difference between a tab and its session.
LEMMA SightInvariant == Spec => [](Inv /\ \A t \in Tab : Sight(t))
<1>. DEFINE J == Inv /\ Recorded /\ \A t \in Tab : Kind(t) /\ Memory(t)
            S == \A t \in Tab : Sight(t)
<1>1. Init => S BY SightInit
<1>2. J /\ S /\ [Next]_vars => S'
  <2>. SUFFICES ASSUME Inv, Recorded, S, [Next]_vars PROVE S' OBVIOUS
  <2>. QED BY SightNext
<1>3. J => Inv OBVIOUS
<1>4. Spec => []J BY MemoryInvariant
<1>. HIDE DEF J, S
<1>5. Spec => [](Inv /\ S) BY <1>1, <1>2, <1>3, <1>4, PTL DEF Spec
<1>. QED BY <1>5 DEF S

\* A tab with nothing under way shows where it is.
LEMMA SettledSame ==
  ASSUME NEW t, NEW c, NEW u, u = <<>>, NEW q, NEW k, NEW s, Sights(t, c, u, u, q, k, s),
         c.connected, c.waiting = {}, c.lost = {}, ~c.blind
  PROVE  Same(c.room, s)
BY DEF Sights, Linked, Seen, Certain, Undoing, Sent, Late, Ignores, Overlooked, Claim, Shows, Latest

\* When nothing of a tab is under way, the tab shows the room the coordinator
\* has it in, with its attempt and whether it is the host: cancelled, superseded
\* and failed attempts, removals, reconnections and restarts leave no seat
\* behind that the guest does not see, and no room that is not there.  Excepted
\* are a lost reply to an attempt that was given up, and an unheeded notice.
THEOREM TabsAgree == Spec => []ViewsAgree
<1>1. (Inv /\ \A t \in Tab : Sight(t)) => ViewsAgree
  <2>. SUFFICES ASSUME Inv, NEW t \in Tab, Sight(t), Settled(t), ~tab[t].blind, tab[t].lost = {}
                PROVE  SameRoom(t)
    BY DEF ViewsAgree
  <2>1. PICK c : c = tab[t] OBVIOUS
  <2>2. PICK s : s = Where(Now, t) OBVIOUS
  <2>3. PICK u : u = up[t] OBVIOUS
  <2>4. u = <<>> /\ down[t] = u /\ c.connected /\ c.waiting = {} /\ c.lost = {} /\ ~c.blind
    BY <2>1, <2>3 DEF Settled
  <2>5. Sights(t, c, u, u, work, session[t].socket, s) BY <2>1, <2>2, <2>3, <2>4 DEF Sight
  <2>6. Same(c.room, s) BY <2>4, <2>5, SettledSame
  <2>8. /\ s.id = session[t].room
        /\ session[t].room # 0 => /\ s.intent = rooms[session[t].room].seat[t]
                                  /\ s.host <=> rooms[session[t].room].host = t
    BY <2>2, NowFields, WhereIs DEF Inv
  <2>. QED BY <2>1, <2>6, <2>8 DEF SameRoom, Same
<1>. QED BY <1>1, SightInvariant, PTL
=============================================================================
