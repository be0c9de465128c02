--------------------------- MODULE GameFilesProofs ---------------------------
(* No file of a room is forgotten on the disk, a guest loads what it asked   *)
(* for, and the host is told the truth about its selections, for any number  *)
(* of selections, uploads and downloads, and a store of any size.            *)
EXTENDS GameFiles, SequenceTheorems, TLAPS

\* What a handler works on has its parts.
Shape(st) ==
  /\ DOMAIN st = {"room", "store", "files", "used", "upload"}
  /\ "lease" \in DOMAIN st.room
  /\ DOMAIN st.store = {"entries", "pending"}
  /\ DOMAIN st.upload = Intent
  /\ \A i \in Intent : {"stage", "cut"} \subseteq DOMAIN st.upload[i]
  /\ st.files \subseteq Intent

\* A file is the room's or that of an upload under way.
Owned(st) ==
  \A i \in st.files : i \in {st.store.entries, st.store.pending} \/ st.upload[i].stage \in Underway

\* An upload that has the lease has its entry too, unless the entry was
\* discarded, and its file with it.
Leased(st) ==
  st.room.lease # 0 => \/ st.store.pending = st.room.lease
                       \/ st.store.pending = 0 /\ st.room.lease \notin st.files

Good(st) == Shape(st) /\ Owned(st) /\ Leased(st)

\* The file of a selection that has just begun is not sent yet.
Unsent ==
  /\ {"intent", "game", "phase", "revision", "tries", "waiting", "connected", "asked", "selections", "breaks"}
       \subseteq DOMAIN host
  /\ host.selections \in Nat
  /\ host.waiting # 0 => host.phase \in {"begin", "confirm"}
  /\ host.phase = "begin" => host.intent = host.selections
  /\ \A i \in Intent : i > host.selections \/ (i = host.intent /\ host.phase = "begin")
                       => upload[i].stage = "none"

Inv == Good(Now) /\ Unsent

SameStages(s, t) == \A i \in Intent : s.upload[i].stage = t.upload[i].stage

-----------------------------------------------------------------------------
(* RomStore and Rooms.                                                     *)

\* Discarding one of the store's entries gives its file up and touches nothing else.
LEMMA DiscardEntryGood ==
  ASSUME NEW st, Good(st), NEW place \in {"entries", "pending"}
  PROVE  LET n == DiscardEntry(st, place) IN
         /\ Good(n) /\ SameStages(n, st) /\ n.room = st.room /\ n.store[place] = 0
         /\ \A other \in {"entries", "pending"} \ {place} : n.store[other] = st.store[other]
<1> DEFINE i == st.store[place]
           n == [st EXCEPT !.store[place] = 0, !.used = @ - 1, !.files = @ \ {i},
                             !.upload[i].cut = @ \/ ~st.upload[i].committed]
<1>1. CASE i = 0 BY <1>1 DEF DiscardEntry, SameStages
<1>2. CASE i # 0
  <2>1. DiscardEntry(st, place) = n BY <1>2 DEF DiscardEntry
  <2>2. /\ DOMAIN n = DOMAIN st /\ n.room = st.room /\ n.files = st.files \ {i}
        /\ n.store = [st.store EXCEPT ![place] = 0]
        /\ n.upload = [st.upload EXCEPT ![i].cut = @ \/ ~st.upload[i].committed]
    BY DEF Good, Shape
  <2>3. /\ DOMAIN n.store = {"entries", "pending"} /\ n.store[place] = 0
        /\ \A other \in {"entries", "pending"} \ {place} : n.store[other] = st.store[other]
    BY <2>2 DEF Good, Shape
  <2>4. /\ DOMAIN n.upload = Intent
        /\ \A j \in Intent : n.upload[j].stage = st.upload[j].stage /\ {"stage", "cut"} \subseteq DOMAIN n.upload[j]
    BY <2>2 DEF Good, Shape
  <2> HIDE DEF n
  <2>5. Shape(n) BY <2>2, <2>3, <2>4 DEF Good, Shape
  <2>6. Owned(n) /\ Leased(n) BY <2>2, <2>3, <2>4 DEF Good, Shape, Owned, Leased
  <2>. QED BY <2>1, <2>2, <2>3, <2>4, <2>5, <2>6 DEF Good, SameStages
<1>. QED BY <1>1, <1>2

\* What becomes of a state whose room drops its lease.
LEMMA UnleasedGood ==
  ASSUME NEW st, Shape(st), Owned(st), NEW r, "lease" \in DOMAIN r, r.lease = 0
  PROVE  LET n == [st EXCEPT !.room = r] IN Good(n) /\ SameStages(n, st)
BY DEF Good, Shape, Owned, Leased, SameStages

\* Selecting a game forgets the pending upload and its lease.
LEMMA SelectGameGood ==
  ASSUME NEW st, Shape(st), Owned(st), NEW intent, NEW game, NEW content
  PROVE  LET n == SelectGame(st, intent, game, content) IN Good(n) /\ SameStages(n, st)
<1> DEFINE r == [st.room EXCEPT !.revision = @ + 1, !.game = game, !.content = content,
                         !.pending = NoSelection, !.lease = 0, !.selected = intent,
                         !.download = 0]
<1>1. SelectGame(st, intent, game, content) = [st EXCEPT !.room = r] BY Zenon DEF SelectGame
<1>2. "lease" \in DOMAIN r /\ r.lease = 0 BY DEF Shape
<1> HIDE DEF r
<1>3. LET n == [st EXCEPT !.room = r] IN Good(n) /\ SameStages(n, st) BY <1>2, UnleasedGood
<1>. QED BY <1>1, <1>3, Zenon

\* Forgetting a pending selection keeps the store accounted for.
LEMMA ForgetPendingGood ==
  ASSUME NEW st, Good(st)
  PROVE  LET n == ForgetPending(st) IN Good(n) /\ SameStages(n, st)
BY DEF ForgetPending, Good, Shape, Owned, Leased, SameStages

\* The selected file takes the place of the one before, which goes.
LEMMA PromoteOwned ==
  ASSUME NEW st, Good(st)
  PROVE  LET n == Promote(st) IN Shape(n) /\ Owned(n) /\ SameStages(n, st)
<1> DEFINE d == DiscardEntry(st, "entries")
           n == [d EXCEPT !.store = [entries |-> st.store.pending, pending |-> 0]]
<1>1. Good(d) /\ SameStages(d, st) /\ d.store.entries = 0 /\ d.store.pending = st.store.pending
  BY DiscardEntryGood
<1>2. Promote(st) = n BY DEF Promote
<1> HIDE DEF d
<1>3. Shape(n) /\ SameStages(n, st) BY <1>1 DEF Good, Shape, SameStages
<1>4. Owned(n) BY <1>1 DEF Good, Shape, Owned, Intent
<1>. QED BY <1>2, <1>3, <1>4

\* The commands of the host.
Keeps(n, st) == Good(n) /\ SameStages(n, st)

\* Two changes of the coordinator that each keep the files accounted for.
LEMMA KeepsTwice ==
  ASSUME NEW a, NEW b, NEW c, Keeps(b, a), Keeps(c, b)
  PROVE  Keeps(c, a)
BY DEF Keeps, SameStages

\* Discarding the pending upload keeps the files accounted for.
LEMMA DiscardPendingKeeps ==
  ASSUME NEW st, Good(st)
  PROVE  Keeps(DiscardPending(st), st)
BY DiscardEntryGood DEF DiscardPending, Keeps

\* Discarding a room's files keeps the rest accounted for.
LEMMA DiscardKeeps ==
  ASSUME NEW st, Good(st)
  PROVE  Keeps(Discard(st), st)
<1>1. Keeps(DiscardPending(st), st) BY DiscardPendingKeeps
<1>2. Keeps(DiscardEntry(DiscardPending(st), "entries"), DiscardPending(st))
  BY <1>1, DiscardEntryGood DEF Keeps
<1>. QED BY <1>1, <1>2, KeepsTwice, Zenon DEF Discard

\* Discarding the pending upload and forgetting its selection.
LEMMA ForgottenKeeps ==
  ASSUME NEW st, Good(st)
  PROVE  Keeps(ForgetPending(DiscardPending(st)), st)
<1>1. Keeps(DiscardPending(st), st) BY DiscardPendingKeeps
<1>2. Keeps(ForgetPending(DiscardPending(st)), DiscardPending(st))
  BY <1>1, ForgetPendingGood DEF Keeps
<1>. QED BY <1>1, <1>2, KeepsTwice, Zenon

\* The answer to the command that begins a selection.
LEMMA BeganKeeps ==
  ASSUME NEW st, Good(st), NEW c
  PROVE  Keeps(Began(st, c).st, st)
<1> DEFINE clean == IF st.room.pending.intent = 0 THEN st ELSE ForgetPending(DiscardPending(st))
           plays == SelectGame(clean, c.intent, c.game, 0)
           waits == [clean EXCEPT !.room.pending = [intent |-> c.intent, game |-> c.game, content |-> 0]]
<1>1. Keeps(st, st) BY DEF Keeps, SameStages
<1>2. Keeps(clean, st) BY <1>1, ForgottenKeeps
<1>3. Began(st, c).st \in {st, plays, Discard(plays), waits} BY DEF Began, Reply
<1> HIDE DEF clean
<1>4. Keeps(plays, clean) BY <1>2, SelectGameGood DEF Keeps, Good
<1>5. Keeps(plays, st) BY <1>2, <1>4, KeepsTwice
<1>6. Keeps(waits, clean) BY <1>2 DEF Keeps, Good, Shape, Owned, Leased, SameStages
<1>7. Keeps(waits, st) BY <1>2, <1>6, KeepsTwice
<1> HIDE DEF plays, waits
<1>8. Keeps(Discard(plays), st) BY <1>5, DiscardKeeps, KeepsTwice DEF Keeps
<1>. QED BY <1>1, <1>3, <1>5, <1>7, <1>8

\* The answer to the command that confirms a selection.
LEMMA ConfirmedKeeps ==
  ASSUME NEW st, Good(st), NEW c
  PROVE  Keeps(Confirmed(st, c).st, st)
<1> DEFINE n == SelectGame(Promote(st), c.intent, st.room.pending.game, st.room.pending.content)
<1>1. Keeps(st, st) BY DEF Keeps, SameStages
<1>2. Shape(Promote(st)) /\ Owned(Promote(st)) /\ SameStages(Promote(st), st) BY PromoteOwned
<1>3. Good(n) /\ SameStages(n, Promote(st)) BY <1>2, SelectGameGood
<1>4. Keeps(n, st) BY <1>2, <1>3 DEF Keeps, SameStages
<1>5. Confirmed(st, c).st \in {st, n} BY DEF Confirmed, Reply
<1>. QED BY <1>1, <1>4, <1>5

\* Every command of the host keeps the files accounted for.
LEMMA CommandKeeps ==
  ASSUME NEW st, Good(st), NEW c
  PROVE  Keeps(Command(st, c).st, st)
BY ForgottenKeeps, BeganKeeps, ConfirmedKeeps DEF Keeps, SameStages, Cancelled, Reply, Command

-----------------------------------------------------------------------------
(* What a step has to show.                                                *)

\* What a handler leaves behind becomes the coordinator's state.
LEMMA Installed ==
  ASSUME NEW st, Good(st), Install(st)
  PROVE  Good(Now)' /\ SameStages(Now', st)
BY DEF Install, Now, Good, Shape, Owned, Leased, SameStages

\* Neither the lease nor the store nor the files change, and no upload that is
\* under way ends.
LEMMA StoreSame ==
  ASSUME Good(Now), "lease" \in DOMAIN room', room'.lease = room.lease, UNCHANGED <<store, files>>,
         DOMAIN upload' = Intent, \A i \in Intent : {"stage", "cut"} \subseteq DOMAIN upload'[i],
         \A i \in Intent : upload[i].stage \in Underway => upload'[i].stage = upload[i].stage
  PROVE  Good(Now)'
BY DEF Now, Good, Shape, Owned, Leased

\* A step outside the coordinator leaves its files as they were.
LEMMA StoreUntouched ==
  ASSUME Good(Now), UNCHANGED <<room, store, files, upload>>
  PROVE  Good(Now)'
BY DEF Now, Good, Shape, Owned, Leased

\* What is not sent yet stays so, unless the host has it sent.
Moves == \A i \in Intent : upload[i].stage = "none" => upload'[i].stage = "none"

\* The intents the host has not used stay unsent while the host stays the same.
LEMMA UnsentSame ==
  ASSUME Unsent, host' = host, Moves
  PROVE  Unsent'
BY DEF Unsent, Moves

\* The intents the host has not used stay unsent while it uses no new one.
LEMMA UnsentHost ==
  ASSUME Unsent, DOMAIN host' = DOMAIN host, host'.selections = host.selections, host'.phase # "begin",
         host'.waiting # 0 => host'.phase = "confirm",
         \A i \in Intent : i > host.selections => upload'[i].stage = upload[i].stage
  PROVE  Unsent'
BY DEF Unsent

\* The host's selection is over.
LEMMA HostIdle ==
  ASSUME Unsent
  PROVE  LET h == Host(Idle) IN
         /\ DOMAIN h = DOMAIN host /\ h.selections = host.selections
         /\ h.phase = "idle" /\ h.waiting = 0
BY DEF Unsent, Host, Idle

\* Dropping the host's requests changes how uploads end, never what they store.
LEMMA DroppedInv ==
  ASSUME Inv, Dropped
  PROVE  /\ DOMAIN upload' = Intent
         /\ \A i \in Intent : {"stage", "cut"} \subseteq DOMAIN upload'[i] /\ upload'[i].stage = upload[i].stage
         /\ Unsent'
<1> DEFINE h == Host(Idle)
<1>1. /\ DOMAIN upload' = Intent
      /\ \A i \in Intent : {"stage", "cut"} \subseteq DOMAIN upload'[i] /\ upload'[i].stage = upload[i].stage
  BY DEF Dropped, Inv, Good, Shape, Now
<1>2. /\ DOMAIN h = DOMAIN host /\ h.selections = host.selections
      /\ h.phase = "idle" /\ h.waiting = 0
  BY HostIdle DEF Inv
<1>3. host' = [h EXCEPT !.connected = TRUE] BY DEF Dropped
<1> HIDE DEF h
<1>4. /\ DOMAIN host' = DOMAIN host /\ host'.selections = host.selections
      /\ host'.phase = "idle" /\ host'.waiting = 0
  BY <1>2, <1>3 DEF Inv, Unsent
<1>5. Unsent' BY <1>1, <1>4, UnsentHost DEF Inv
<1>. QED BY <1>1, <1>5

\* Giving a selection up starts no upload.
LEMMA GiveUpInv ==
  ASSUME Inv, GiveUp
  PROVE  Unsent' /\ UNCHANGED upload
BY HostIdle, UnsentHost DEF GiveUp, Inv

\* A command the host waits for, other than that of a new selection.
LEMMA RequestInv ==
  ASSUME Inv, NEW type, NEW tries, NEW intent, NEW game, NEW revision,
         Request(type, "confirm", tries, intent, game, revision), UNCHANGED upload
  PROVE  Unsent'
BY UnsentHost DEF Request, Inv, Unsent

-----------------------------------------------------------------------------
(* The steps of the coordinator.                                           *)

\* A handler that keeps the files accounted for preserves the invariant.
LEMMA KeepsInv ==
  ASSUME Inv, NEW st, Keeps(st, Now), Install(st), host' = host
  PROVE  Inv'
BY Installed, UnsentSame DEF Keeps, Moves, SameStages, Now, Inv

\* Every handler and timer of the coordinator preserves the invariant.
LEMMA CoordinatorInv ==
  ASSUME Inv, Handle \/ Expire \/ Change \/ Close
  PROVE  Inv'
<1>0. Good(Now) BY DEF Inv
<1>1. CASE Handle BY <1>0, <1>1, CommandKeeps, KeepsInv DEF Handle
<1>2. CASE Expire BY <1>0, <1>2, ForgottenKeeps, KeepsInv DEF Expire
<1>3. CASE Change BY <1>0, <1>3, StoreSame, UnsentSame DEF Change, Good, Shape, Now, Inv, Moves
<1>4. CASE Close
  <2> DEFINE d == Discard(Now)
             f == ForgetPending(d)
             n == [f EXCEPT !.room = [@ EXCEPT !.open = FALSE, !.content = 0, !.download = 0]]
  <2>1. Keeps(d, Now) /\ Keeps(f, d) BY <1>0, DiscardKeeps, ForgetPendingGood DEF Keeps
  <2>2. Keeps(f, Now) BY <2>1, KeepsTwice
  <2>3. Install(n) /\ host' = host BY <1>4 DEF Close
  <2> HIDE DEF d, f
  <2>4. Keeps(n, f) BY <2>1 DEF Keeps, Good, Shape, Owned, Leased, SameStages
  <2> HIDE DEF n
  <2>5. Keeps(n, Now) BY <2>2, <2>4, KeepsTwice
  <2>. QED BY <2>3, <2>5, KeepsInv
<1>. QED BY <1>1, <1>2, <1>3, <1>4

\* A failed upload removes its file, and the entry the room has by then.
LEMMA UploadFailedInv ==
  ASSUME Inv, NEW i \in Intent, upload[i].stage # "none", UploadFailed(i), host' = host
  PROVE  Inv'
<1> DEFINE d == DiscardPending(Now)
           n == [d EXCEPT !.room.lease = IF @ = i THEN 0 ELSE @, !.files = @ \ {i}, !.upload[i].stage = "failed"]
<1>1. Good(d) /\ SameStages(d, Now) /\ d.room = room /\ d.store.pending = 0
  BY DiscardEntryGood DEF DiscardPending, Inv, Now
<1>2. Install(n) BY DEF UploadFailed
<1> HIDE DEF d
<1>3. /\ DOMAIN n = DOMAIN d /\ n.store = d.store /\ n.files = d.files \ {i}
      /\ "lease" \in DOMAIN n.room /\ n.room.lease = IF room.lease = i THEN 0 ELSE room.lease
      /\ DOMAIN n.upload = Intent
      /\ \A j \in Intent : {"stage", "cut"} \subseteq DOMAIN n.upload[j]
      /\ \A j \in Intent \ {i} : n.upload[j].stage = upload[j].stage
  BY <1>1 DEF Good, Shape, SameStages, Now
<1> HIDE DEF n
<1>4. Good(n) BY <1>1, <1>3 DEF Good, Shape, Owned, Leased, SameStages, Now
<1>5. Good(Now)' /\ SameStages(Now', n) BY <1>2, <1>4, Installed
<1>6. Moves BY <1>3, <1>5 DEF Moves, SameStages, Now
<1>. QED BY <1>5, <1>6, UnsentSame DEF Inv

\* A step of an upload that goes on.
LEMMA UploadInv ==
  ASSUME Inv, NEW i \in Intent, upload[i].stage # "none", NEW n, Install(n), Good(n),
         \A j \in Intent \ {i} : n.upload[j].stage = upload[j].stage, host' = host
  PROVE  Inv'
BY Installed, UnsentSame DEF Moves, SameStages, Now, Inv

\* An upload request that arrives preserves the invariant.
LEMMA ArrivesInv ==
  ASSUME Inv, NEW i \in Intent, UploadArrives(i)
  PROVE  Inv'
<1>0. Good(Now) /\ i # 0 /\ host' = host /\ upload[i].stage = "sent"
  BY DEF Inv, UploadArrives, Intent
<1>1. CASE /\ room.lease = 0 /\ store.pending = 0
           /\ Install([Now EXCEPT !.room.lease = i, !.store.pending = i, !.used = @ + 1, !.upload[i].stage = "open"])
  <2> DEFINE n == [Now EXCEPT !.room.lease = i, !.store.pending = i, !.used = @ + 1, !.upload[i].stage = "open"]
  <2>1. /\ DOMAIN n = {"room", "store", "files", "used", "upload"} /\ n.files = files
        /\ n.room = [room EXCEPT !.lease = i] /\ n.store = [store EXCEPT !.pending = i]
        /\ n.upload = [upload EXCEPT ![i].stage = "open"]
    BY DEF Now
  <2> HIDE DEF n
  <2>2. Shape(n) /\ n.room.lease = i /\ n.store.pending = i /\ n.store.entries = store.entries
        /\ \A j \in Intent \ {i} : n.upload[j].stage = upload[j].stage
        /\ n.upload[i].stage = "open"
    BY <1>0, <2>1 DEF Good, Shape, Now
  <2>3. Good(n) BY <1>0, <1>1, <2>1, <2>2 DEF Good, Shape, Owned, Leased, Now, Underway, Intent
  <2>4. Install(n) BY <1>1 DEF n
  <2>. QED BY <1>0, <2>2, <2>3, <2>4, UploadInv
<1>2. CASE Install([Now EXCEPT !.upload[i].stage = "failed"])
  <2> DEFINE n == [Now EXCEPT !.upload[i].stage = "failed"]
  <2>1. /\ DOMAIN n = {"room", "store", "files", "used", "upload"} /\ n.files = files /\ n.room = room
        /\ n.store = store /\ n.upload = [upload EXCEPT ![i].stage = "failed"]
    BY DEF Now
  <2> HIDE DEF n
  <2>2. Shape(n) /\ \A j \in Intent \ {i} : n.upload[j].stage = upload[j].stage
    BY <1>0, <2>1 DEF Good, Shape, Now
  <2>3. Good(n) BY <1>0, <2>1, <2>2 DEF Good, Shape, Owned, Leased, Now, Underway
  <2>4. Install(n) BY <1>2 DEF n
  <2>. QED BY <1>0, <2>2, <2>3, <2>4, UploadInv
<1>. QED BY <1>1, <1>2 DEF UploadArrives

\* An upload whose temporary file opened preserves the invariant.
LEMMA OpensInv ==
  ASSUME Inv, NEW i \in Intent, UploadOpens(i)
  PROVE  Inv'
<1>0. Good(Now) /\ i # 0 /\ host' = host /\ upload[i].stage = "open" BY DEF Inv, UploadOpens, Intent
<1>1. CASE UploadFailed(i) BY <1>0, <1>1, UploadFailedInv
<1>2. CASE store.pending = i /\ Install([Now EXCEPT !.files = @ \cup {i}, !.upload[i].stage = "body"])
  <2> DEFINE n == [Now EXCEPT !.files = @ \cup {i}, !.upload[i].stage = "body"]
  <2>1. /\ DOMAIN n = {"room", "store", "files", "used", "upload"} /\ n.files = files \cup {i} /\ n.room = room
        /\ n.store = store /\ n.upload = [upload EXCEPT ![i].stage = "body"]
    BY DEF Now
  <2> HIDE DEF n
  <2>2. Shape(n) /\ \A j \in Intent \ {i} : n.upload[j].stage = upload[j].stage
    BY <1>0, <2>1 DEF Good, Shape, Now
  <2>3. Good(n) BY <1>0, <1>2, <2>1, <2>2 DEF Good, Shape, Owned, Leased, Now
  <2>4. Install(n) BY <1>2 DEF n
  <2>. QED BY <1>0, <2>2, <2>3, <2>4, UploadInv
<1>. QED BY <1>1, <1>2 DEF UploadOpens

\* The end of an upload's body, stored or refused, preserves the invariant.
LEMMA ReceivesInv ==
  ASSUME Inv, NEW i \in Intent, UploadReceives(i)
  PROVE  Inv'
<1>0. Good(Now) /\ host' = host /\ upload[i].stage = "body" BY DEF Inv, UploadReceives
<1>1. CASE UploadFailed(i) BY <1>0, <1>1, UploadFailedInv
<1>2. CASE Install([Now EXCEPT !.upload[i].stage = "sync"])
  <2> DEFINE n == [Now EXCEPT !.upload[i].stage = "sync"]
  <2>1. /\ DOMAIN n = {"room", "store", "files", "used", "upload"} /\ n.files = files /\ n.room = room
        /\ n.store = store /\ n.upload = [upload EXCEPT ![i].stage = "sync"]
    BY DEF Now
  <2> HIDE DEF n
  <2>2. /\ Shape(n) /\ \A j \in Intent \ {i} : n.upload[j].stage = upload[j].stage
        /\ n.upload[i].stage \in Underway
    BY <1>0, <2>1 DEF Good, Shape, Now, Underway
  <2>3. Good(n) BY <1>0, <2>1, <2>2 DEF Good, Shape, Owned, Leased, Now
  <2>4. Install(n) BY <1>2 DEF n
  <2>. QED BY <1>0, <2>2, <2>3, <2>4, UploadInv
<1>. QED BY <1>1, <1>2 DEF UploadReceives

\* A file is committed only while its upload holds the lease: its entry is there.
LEMMA CommitsInv ==
  ASSUME Inv, NEW i \in Intent, UploadCommits(i)
  PROVE  Inv'
<1>0. Good(Now) /\ i # 0 /\ host' = host /\ upload[i].stage = "sync"
  BY DEF Inv, UploadCommits, Intent
<1>1. CASE UploadFailed(i) BY <1>0, <1>1, UploadFailedInv
<1>2. CASE /\ i \in files /\ room.lease = i
           /\ Install([Now EXCEPT !.upload[i].stage = "done", !.upload[i].committed = TRUE,
                              !.room.pending.content = i, !.room.lease = 0])
  <2> DEFINE n == [Now EXCEPT !.upload[i].stage = "done", !.upload[i].committed = TRUE,
                              !.room.pending.content = i, !.room.lease = 0]
  <2>1. /\ DOMAIN n = {"room", "store", "files", "used", "upload"} /\ n.files = files /\ n.store = store
        /\ "lease" \in DOMAIN n.room /\ n.room.lease = 0
        /\ DOMAIN n.upload = Intent
        /\ \A j \in Intent : {"stage", "cut"} \subseteq DOMAIN n.upload[j]
        /\ \A j \in Intent \ {i} : n.upload[j].stage = upload[j].stage
    BY <1>0 DEF Now, Good, Shape
  <2> HIDE DEF n
  <2>2. store.pending = i BY <1>0, <1>2 DEF Good, Leased, Now
  <2>3. Good(n) BY <1>0, <2>1, <2>2 DEF Good, Shape, Owned, Leased, Now
  <2>4. Install(n) BY <1>2 DEF n
  <2>. QED BY <1>0, <2>1, <2>3, <2>4, UploadInv
<1>. QED BY <1>1, <1>2 DEF UploadCommits

\* An upload that is cut off removes its file and preserves the invariant.
LEMMA CutInv ==
  ASSUME Inv, NEW i \in Intent, UploadCut(i)
  PROVE  Inv'
BY StoreSame, UnsentSame DEF UploadCut, Inv, Good, Shape, Now, Moves

-----------------------------------------------------------------------------
(* The steps of the host.                                                  *)

\* A newly chosen file preserves the invariant.
LEMMA SelectInv ==
  ASSUME Inv, Select
  PROVE  Inv'
BY StoreUntouched DEF Select, Inv, Unsent, Intent

\* A withdrawn choice preserves the invariant.
LEMMA WithdrawInv ==
  ASSUME Inv, Withdraw
  PROVE  Inv'
BY StoreSame, HostIdle, UnsentHost DEF Withdraw, Inv, Good, Shape, Now

\* The file of a selection is sent once.
LEMMA PutInv ==
  ASSUME Inv, Put(host.intent), host.waiting # 0, ~Confirming, UNCHANGED <<room, store, files>>
  PROVE  Inv'
<1> DEFINE i == host.intent
<1>1. host.phase = "begin" /\ i = host.selections /\ (i \in Intent => upload[i].stage = "none")
  BY DEF Inv, Unsent, Confirming
<1>2. PICK data : upload' = [upload EXCEPT ![i].stage = "sent", ![i].game = host.game, ![i].data = data]
  BY DEF Put
<1>3. /\ DOMAIN upload' = Intent
      /\ \A j \in Intent : {"stage", "cut"} \subseteq DOMAIN upload'[j]
      /\ \A j \in Intent \ {i} : upload'[j].stage = upload[j].stage
  <2> HIDE DEF i
  <2>. QED BY <1>2 DEF Inv, Good, Shape, Now
<1>4. Good(Now)' BY <1>1, <1>3, StoreSame DEF Inv, Good, Shape, Now, Underway
<1>6. \A j \in Intent : j > host.selections => upload'[j].stage = upload[j].stage
  BY <1>1, <1>3 DEF Inv, Unsent, Intent
<1>7. Unsent' BY <1>6, UnsentHost DEF Inv, Put, Unsent
<1>. QED BY <1>4, <1>7 DEF Inv

\* A lost connection of the host preserves the invariant.
LEMMA DroppedAll ==
  ASSUME Inv, Dropped, UNCHANGED <<room, store, files>>
  PROVE  Inv'
BY DroppedInv, StoreSame DEF Inv, Good, Shape, Now

\* Every other step of the host's client preserves the invariant.
LEMMA HostInv ==
  ASSUME Inv, Receive \/ Timeout \/ Uploaded \/ Retry \/ Reconcile \/ Overdue
  PROVE  Inv'
<1>0. UNCHANGED <<room, store, files>> BY DEF Receive, Timeout, Uploaded, Retry, Reconcile, Overdue
<1>1. ASSUME UNCHANGED upload PROVE Good(Now)' BY <1>0, <1>1, StoreUntouched DEF Inv
<1>2. CASE GiveUp BY <1>1, <1>2, GiveUpInv DEF Inv
<1>3. CASE Succeed BY <1>1, <1>3, HostIdle, UnsentHost DEF Succeed, Inv
<1>4. CASE Receive
  BY <1>0, DroppedAll, <1>1, UnsentSame, PutInv, <1>2, <1>3, <1>4 DEF Inv, Moves, Receive
<1>5. CASE Timeout BY <1>5, <1>1, UnsentHost, <1>2 DEF Timeout, NoReply, Inv, Unsent
<1>6. CASE Uploaded BY <1>1, RequestInv, UnsentHost, <1>2, <1>6 DEF Inv, Unsent, Uploaded
<1>7. CASE Retry \/ Reconcile BY <1>1, <1>7, RequestInv DEF Retry, Reconcile, Inv
<1>8. CASE Overdue BY <1>8, <1>1, UnsentHost DEF Overdue, Inv, Unsent
<1>. QED BY <1>4, <1>5, <1>6, <1>7, <1>8

\* What the loss of the socket leaves of the selection.
LEMMA LinkLostInv ==
  ASSUME Inv, LinkLost, Moves
  PROVE  Unsent'
<1> DEFINE fails == host.waiting # 0 /\ ~Confirming
           h == IF fails THEN Host(Idle) ELSE host
<1>1. /\ DOMAIN h = DOMAIN host /\ h.selections = host.selections
      /\ ~fails => h = host
  BY HostIdle DEF Inv
<1>2. host' = [h EXCEPT !.connected = FALSE, !.breaks = IF @ < MaxBreaks THEN @ + 1 ELSE @, !.waiting = 0,
                  !.phase = IF fails THEN "idle" ELSE IF host.waiting # 0 THEN "confirm" ELSE @]
  BY DEF LinkLost
<1> HIDE DEF h
<1>3. /\ DOMAIN host' = DOMAIN host /\ host'.selections = host.selections /\ host'.waiting = 0
      /\ host'.intent = h.intent
      /\ host'.phase = "begin" => host.phase = "begin" /\ ~fails
  BY <1>1, <1>2 DEF Inv, Unsent
<1>. QED BY <1>1, <1>3 DEF Inv, Unsent, Moves

\* A break, a reconnection and a restart preserve the invariant.
LEMMA LinkInv ==
  ASSUME Inv, Break \/ Reconnect \/ Restart
  PROVE  Inv'
<1>1. CASE Break BY <1>1, StoreUntouched, LinkLostInv DEF Break, Moves, Inv
<1>2. CASE Reconnect BY <1>2, StoreUntouched, DroppedAll DEF Inv, Unsent, Reconnect
<1>3. CASE Restart
  BY <1>3, LinkLostInv DEF Restart, Inv, Good, Shape, Now, Underway, Owned, Leased, Moves
<1>. QED BY <1>1, <1>2, <1>3

-----------------------------------------------------------------------------
(* The other steps, and the theorem.                                       *)

\* Extractions take only space, and downloads mark only the room.
LEMMA OtherInv ==
  ASSUME Inv, UNCHANGED <<store, files, upload, host>>, "lease" \in DOMAIN room', room'.lease = room.lease
  PROVE  Inv'
BY StoreSame, UnsentSame DEF Inv, Good, Shape, Now, Moves

\* Every step of a guest's download preserves the invariant.
LEMMA DownloadInv ==
  ASSUME Inv, Ask \/ DownloadBegins \/ DownloadOpens \/ DownloadEnds
  PROVE  Inv'
BY OtherInv DEF Inv, Good, Shape, Now, Ask, DownloadBegins, DownloadOpens, DownloadEnds, Ended

\* The initial state has the invariant.
LEMMA InitInv == Init => Inv
BY DEF Init, Inv, Good, Shape, Owned, Leased, Now, Unsent, Intent

\* Every step preserves the invariant.
LEMMA NextInv == Inv /\ [Next]_vars => Inv'
<1> SUFFICES ASSUME Inv, [Next]_vars PROVE Inv' OBVIOUS
<1>0. "lease" \in DOMAIN room BY DEF Inv, Good, Shape, Now
<1>1. ASSUME NEW i \in Intent,
             UploadArrives(i) \/ UploadOpens(i) \/ UploadReceives(i) \/ UploadCommits(i) \/ UploadCut(i)
      PROVE  Inv'
  BY <1>1, ArrivesInv, OpensInv, ReceivesInv, CommitsInv, CutInv
<1>2. ASSUME NEW x \in Extraction,
             ExtractionBegins(x) \/ ExtractionStores(x) \/ ExtractionUnpacks(x) \/ ExtractionEnds(x)
      PROVE  Inv'
  BY <1>2, <1>0, OtherInv DEF ExtractionBegins, ExtractionStores, ExtractionUnpacks, ExtractionEnds,
     Reserve
<1>3. CASE UNCHANGED vars BY <1>0, <1>3, OtherInv DEF vars
<1>. QED
  BY <1>1, <1>2, <1>3, CoordinatorInv, SelectInv, WithdrawInv, HostInv, LinkInv, DownloadInv DEF Next

\* No file outlives its use: each is the room's, or that of an upload that will
\* remove it, whatever selections, cancellations, failures and restarts come
\* between (rom-store.ts discardEntry, promote, upload; rooms.ts
\* confirmGameSelection).
THEOREM FilesAccounted == Spec => []NoFileLeft
<1>1. Inv => NoFileLeft BY DEF Inv, Good, Owned, Now, NoFileLeft
<1>. QED BY <1>1, InitInv, NextInv, PTL DEF Spec

-----------------------------------------------------------------------------
(* What the host is told of its selections.                                *)

IsSeq(s) == \E S : s \in Seq(S)

\* A command that may end with its game selected.
Selecting(c) == c.type = "confirm" \/ (c.type = "begin" /\ c.game \in Included)

Typed ==
  /\ DOMAIN room = {"open", "revision", "changes", "game", "content", "pending", "lease", "selected", "download"}
  /\ told \in [Intent -> {"nothing", "selected", "failed"}]
  /\ host.selections \in 0..MaxSelect /\ host.intent \in {0, host.selections}
  /\ host.asked \in Nat /\ host.waiting \in 0..host.asked
  /\ host.phase = "idle" <=> host.intent = 0

\* What was told is true, what failed is not tried any more, and a selection
\* that is being confirmed and was made already is the room's.
Known ==
  /\ selected \subseteq 1..host.selections
  /\ room.selected \in selected \cup {0}
  /\ \A i \in Intent : told[i] # "nothing" => i <= host.selections
  /\ \A i \in Intent : told[i] = "selected" => i \in selected
  /\ \A i \in Intent : told[i] = "failed" => i \notin selected /\ i # host.intent
  /\ host.intent \in selected => Confirming /\ room.selected = host.intent

\* The commands on their way: only the selection that is being confirmed can
\* still be made, what begins one comes first, and the last is waited for.
Orders ==
  /\ IsSeq(up)
  /\ \A k \in DOMAIN up : up[k].n \in 0..host.asked /\ up[k].intent \in 0..host.selections
  /\ \A k \in DOMAIN up : room.open /\ Selecting(up[k]) => Confirming /\ up[k].intent = host.intent
  /\ \A k \in DOMAIN up : up[k].type = "begin" =>
       up[k].intent \notin selected /\ \A j \in 1..(k - 1) : up[j].intent # up[k].intent
  /\ \A k \in DOMAIN up : host.waiting # 0 /\ up[k].n = host.waiting =>
       k = Len(up) /\ up[k].intent = host.intent /\ up[k].type = host.phase /\ up[k].game = host.game

\* The reply that is waited for is true, or comes after the end of the room.
Truthful(k) ==
  \/ \E j \in 1..(k - 1) : down[j].code = "ended"
  \/ down[k].code = "ok" /\ (Confirming => host.intent \in selected)
  \/ down[k].code # "ok" /\ host.intent \notin selected
Answers ==
  /\ IsSeq(down)
  /\ \A k \in DOMAIN down : down[k].n \in 0..host.asked
  /\ \A k \in DOMAIN down : down[k].n = 0 <=> down[k].code = "ended"
  /\ \A k \in DOMAIN down : down[k].code = "ended" => ~room.open
  /\ \A k \in DOMAIN down : host.waiting # 0 /\ down[k].n = host.waiting => up = <<>> /\ Truthful(k)
  /\ ~room.open /\ host.connected /\ host.intent # 0 => \E k \in DOMAIN down : down[k].code = "ended"
Linked == ~host.connected => up = <<>> /\ down = <<>> /\ host.waiting = 0

Truth == Inv /\ Typed /\ Known /\ Orders /\ Answers /\ Linked

-----------------------------------------------------------------------------
(* The wires.                                                              *)

LEMMA SeqShape ==
  ASSUME NEW s, IsSeq(s)
  PROVE  Len(s) \in Nat /\ DOMAIN s = 1..Len(s) /\ (s = <<>> <=> Len(s) = 0)
<1>1. PICK S : s \in Seq(S) BY DEF IsSeq
<1>. QED BY <1>1, LenProperties, EmptySeq

LEMMA NothingIsSeq == IsSeq(<<>>) /\ DOMAIN <<>> = {}
BY EmptySeq DEF IsSeq

LEMMA AppendIsSeq ==
  ASSUME NEW s, NEW m, IsSeq(s)
  PROVE  /\ IsSeq(Append(s, m)) /\ Len(Append(s, m)) = Len(s) + 1
         /\ DOMAIN Append(s, m) = 1..(Len(s) + 1) /\ DOMAIN s = 1..Len(s) /\ Len(s) \in Nat
         /\ \A i \in 1..Len(s) : Append(s, m)[i] = s[i]
         /\ Append(s, m)[Len(s) + 1] = m
<1>1. PICK S : s \in Seq(S) BY DEF IsSeq
<1>2. s \in Seq(S \cup {m}) /\ m \in S \cup {m} BY <1>1, SeqMonotonic
<1>3. /\ Append(s, m) \in Seq(S \cup {m}) /\ Len(Append(s, m)) = Len(s) + 1
      /\ \A i \in 1..Len(s) : Append(s, m)[i] = s[i]
      /\ Append(s, m)[Len(s) + 1] = m
  BY <1>2, AppendProperties
<1>4. IsSeq(Append(s, m)) BY <1>3 DEF IsSeq
<1>. QED BY <1>3, <1>4, SeqShape

LEMMA TailIsSeq ==
  ASSUME NEW s, IsSeq(s), s # <<>>
  PROVE  /\ IsSeq(Tail(s)) /\ DOMAIN s = 1..Len(s) /\ Len(s) \in Nat \ {0} /\ Len(Tail(s)) = Len(s) - 1
         /\ DOMAIN Tail(s) = 1..(Len(s) - 1)
         /\ \A i \in 1..(Len(s) - 1) : Tail(s)[i] = s[i + 1]
         /\ \A i \in 1..(Len(s) - 1) : i + 1 \in 1..Len(s)
         /\ Head(s) = s[1] /\ 1 \in DOMAIN s
<1>1. PICK S : s \in Seq(S) BY DEF IsSeq
<1>2. Tail(s) \in Seq(S) /\ Len(Tail(s)) = Len(s) - 1 /\ \A i \in 1..Len(Tail(s)) : Tail(s)[i] = s[i + 1]
  BY <1>1, HeadTailProperties
<1>3. IsSeq(Tail(s)) BY <1>2 DEF IsSeq
<1>4. Len(s) \in Nat \ {0} /\ DOMAIN s = 1..Len(s) BY <1>1, EmptySeq, LenProperties
<1>5. DOMAIN Tail(s) = 1..(Len(s) - 1) BY <1>2, LenProperties
<1>. QED BY <1>2, <1>3, <1>4, <1>5

-----------------------------------------------------------------------------
(* The coordinator.                                                        *)

\* A step that leaves the host and the wires alone, and the room's selection.
LEMMA QuietTruth ==
  ASSUME Truth, Inv', UNCHANGED <<up, down, host, told, selected>>, DOMAIN room' = DOMAIN room,
         room'.open = room.open, room'.selected = room.selected
  PROVE  Truth'
BY DEF Truth, Typed, Known, Confirming, Orders, Answers, Truthful, Linked

\* A handler that gives files up, or a selection, without making another.
Apart(n, st) ==
  /\ DOMAIN n.room = DOMAIN st.room
  /\ n.room.open = st.room.open /\ n.room.selected = st.room.selected
Whole(st) == Good(st) /\ {"open", "pending", "lease", "selected"} \subseteq DOMAIN st.room

LEMMA DiscardApart ==
  ASSUME NEW st, Good(st)
  PROVE  DiscardPending(st).room = st.room /\ Discard(st).room = st.room
BY DiscardEntryGood DEF DiscardPending, Discard

LEMMA ForgetApart ==
  ASSUME NEW st, Whole(st)
  PROVE  LET n == ForgetPending(DiscardPending(st)) IN Apart(n, st) /\ Whole(n)
<1> DEFINE d == DiscardPending(st)
<1>1. Good(d) /\ d.room = st.room BY DiscardApart, DiscardPendingKeeps DEF Whole, Keeps
<1> HIDE DEF d
<1>. QED BY <1>1, ForgetPendingGood DEF Apart, Whole, d, ForgetPending, Good, Shape

\* What selecting a game makes of the room.
LEMMA SelectApart ==
  ASSUME NEW st, Whole(st), NEW intent, NEW game, NEW content
  PROVE  LET n == SelectGame(st, intent, game, content) IN
         DOMAIN n.room = DOMAIN st.room /\ n.room.open = st.room.open /\ n.room.selected = intent
BY DEF SelectGame, Whole, Good, Shape

\* What a command answers, and what it selects.
Outcome(r, st, c) ==
  /\ DOMAIN r.st.room = DOMAIN st.room /\ r.st.room.open = st.room.open
  /\ r.code # "ended"
  /\ \/ r.st.room.selected = st.room.selected
     \/ r.st.room.selected = c.intent /\ Selecting(c) /\ st.room.open
  /\ st.room.open /\ Selecting(c) /\ r.code = "ok" => r.st.room.selected = c.intent
  /\ st.room.open /\ c.type = "confirm" /\ r.code # "ok" => st.room.selected # c.intent
  /\ st.room.open /\ r.code # "ok" => r.st.room.selected = st.room.selected

LEMMA ReplyOutcome ==
  ASSUME NEW st, NEW c, NEW n, NEW code, code # "ended", DOMAIN n.room = DOMAIN st.room, n.room.open = st.room.open,
         \/ /\ n.room.selected = st.room.selected
            /\ st.room.open /\ Selecting(c) /\ code = "ok" => st.room.selected = c.intent
         \/ n.room.selected = c.intent /\ Selecting(c) /\ st.room.open /\ code = "ok",
         st.room.open /\ c.type = "confirm" /\ code # "ok" => st.room.selected # c.intent
  PROVE  Outcome(Reply(n, code), st, c)
BY DEF Reply, Outcome

LEMMA BeganOutcome ==
  ASSUME NEW st, Whole(st), st.room.open, NEW c, c.type = "begin"
  PROVE  Outcome(Began(st, c), st, c)
<1> DEFINE clean == IF st.room.pending.intent = 0 THEN st ELSE ForgetPending(DiscardPending(st))
           plays == SelectGame(clean, c.intent, c.game, 0)
           waits == [clean EXCEPT !.room.pending = [intent |-> c.intent, game |-> c.game, content |-> 0]]
<1>1. Apart(clean, st) /\ Whole(clean) BY ForgetApart DEF Apart
<1>2. \/ Began(st, c) = Reply(st, "room_changed")
      \/ c.game \in Included /\ (Began(st, c) = Reply(plays, "ok") \/ Began(st, c) = Reply(Discard(plays), "ok"))
      \/ c.game \notin Included /\ Began(st, c) = Reply(waits, "ok")
  BY DEF Began
<1> HIDE DEF clean
<1>3. DOMAIN plays.room = DOMAIN clean.room /\ plays.room.open = clean.room.open /\ plays.room.selected = c.intent
  BY <1>1, SelectApart
<1>4. Good(plays) BY <1>1, SelectGameGood DEF Whole, Good
<1>5. Discard(plays).room = plays.room BY <1>4, DiscardApart
<1>7. DOMAIN waits.room = DOMAIN clean.room /\ waits.room.open = clean.room.open /\ waits.room.selected = clean.room.selected
  BY <1>1 DEF Whole, Good, Shape
<1> HIDE DEF plays, waits
<1>8. Outcome(Reply(st, "room_changed"), st, c) BY ReplyOutcome
<1>9. c.game \in Included => Outcome(Reply(plays, "ok"), st, c) /\ Outcome(Reply(Discard(plays), "ok"), st, c)
  BY <1>1, <1>3, <1>5, ReplyOutcome DEF Apart, Selecting
<1>10. c.game \notin Included => Outcome(Reply(waits, "ok"), st, c)
  BY <1>1, <1>7, ReplyOutcome DEF Apart, Selecting
<1>. QED BY <1>2, <1>8, <1>9, <1>10, Zenon

LEMMA ConfirmedOutcome ==
  ASSUME NEW st, Whole(st), st.room.open, NEW c, c.type = "confirm"
  PROVE  Outcome(Confirmed(st, c), st, c)
<1> DEFINE n == SelectGame(Promote(st), c.intent, st.room.pending.game, st.room.pending.content)
<1>1. Good(DiscardEntry(st, "entries")) /\ DiscardEntry(st, "entries").room = st.room
  BY DiscardEntryGood DEF Whole
<1>2. Promote(st).room = st.room /\ Shape(Promote(st)) /\ Owned(Promote(st))
  BY <1>1, PromoteOwned DEF Promote, Whole, Good, Shape
<1>3. DOMAIN n.room = DOMAIN st.room /\ n.room.open = st.room.open /\ n.room.selected = c.intent
  BY <1>2 DEF SelectGame, Whole, Shape
<1>4. \/ st.room.selected = c.intent /\ Confirmed(st, c) = Reply(st, "ok")
      \/ st.room.selected # c.intent /\ Confirmed(st, c) = Reply(n, "ok")
      \/ /\ st.room.selected # c.intent
         /\ \E code \in {"room_changed", "game_selection_changed", "upload_required"} : Confirmed(st, c) = Reply(st, code)
  BY DEF Confirmed
<1> HIDE DEF n
<1>5. Outcome(Reply(n, "ok"), st, c) BY <1>3, ReplyOutcome DEF Selecting
<1>6. st.room.selected = c.intent => Outcome(Reply(st, "ok"), st, c) BY ReplyOutcome
<1>7. st.room.selected # c.intent =>
        \A code \in {"room_changed", "game_selection_changed", "upload_required"} : Outcome(Reply(st, code), st, c)
  BY ReplyOutcome
<1>. QED BY <1>4, <1>5, <1>6, <1>7, Zenon

LEMMA CommandOutcome ==
  ASSUME NEW st, Whole(st), NEW c
  PROVE  Outcome(Command(st, c), st, c)
<1>1. CASE ~st.room.open BY <1>1, ReplyOutcome DEF Command
<1>2. CASE st.room.open /\ c.type \notin {"begin", "confirm"}
  <2> DEFINE n == ForgetPending(DiscardPending(st))
  <2>1. Apart(n, st) BY ForgetApart
  <2>2. Command(st, c) = Reply(st, "ok") \/ Command(st, c) = Reply(n, "ok")
    BY <1>2 DEF Command, Cancelled
  <2> HIDE DEF n
  <2>3. Outcome(Reply(st, "ok"), st, c) /\ Outcome(Reply(n, "ok"), st, c)
    BY <1>2, <2>1, ReplyOutcome DEF Apart, Selecting
  <2>. QED BY <2>2, <2>3, Zenon
<1>3. CASE st.room.open /\ c.type = "begin" BY <1>3, BeganOutcome DEF Command
<1>4. CASE st.room.open /\ c.type = "confirm" BY <1>4, ConfirmedOutcome DEF Command
<1>. QED BY <1>1, <1>2, <1>3, <1>4

LEMMA NowWhole == Truth => Whole(Now) /\ Now.room = room
BY DEF Truth, Inv, Typed, Whole, Now

\* A reply at the end of the others.
LEMMA ReplyAnswers ==
  ASSUME Truth, NEW m, m.n \in 0..host.asked, (m.n = 0 <=> m.code = "ended"), m.code = "ended" => ~room'.open,
         room'.open => room.open, down' = Append(down, m), host' = host, up = <<>> => up' = <<>>, selected \subseteq selected',
         \A k \in DOMAIN down : host.waiting # 0 /\ down[k].n = host.waiting /\ down[k].code # "ok" /\ host.intent \in selected' =>
           host.intent \in selected,
         ~room'.open /\ host.connected /\ host.intent # 0 => m.code = "ended" \/ ~room.open,
         host.waiting # 0 /\ m.n = host.waiting =>
           up' = <<>> /\ (~room.open \/ (m.code = "ok" /\ (Confirming => host.intent \in selected'))
                                     \/ (m.code # "ok" /\ host.intent \notin selected'))
  PROVE  Answers'
<1>1. /\ IsSeq(down') /\ DOMAIN down' = 1..(Len(down) + 1) /\ DOMAIN down = 1..Len(down) /\ Len(down) \in Nat
      /\ \A k \in DOMAIN down : k \in DOMAIN down' /\ down'[k] = down[k]
      /\ down'[Len(down) + 1] = m
      /\ \A k \in DOMAIN down' : k \in DOMAIN down \/ k = Len(down) + 1
  BY AppendIsSeq DEF Truth, Answers
<1>2. ASSUME NEW k \in DOMAIN down PROVE \A j \in 1..(k - 1) : j \in DOMAIN down BY <1>1
<1>3. ASSUME NEW k \in DOMAIN down', host.waiting # 0, down'[k].n = host.waiting
      PROVE  up' = <<>> /\ Truthful(k)'
  <2>1. CASE k \in DOMAIN down BY <1>1, <1>3, <2>1, <1>2 DEF Truth, Answers, Truthful, Confirming
  <2>2. CASE k = Len(down) + 1
    <3>1. CASE room.open BY <1>1, <1>3, <2>2, <3>1 DEF Truthful, Confirming
    <3>2. CASE ~room.open
      <4>1. PICK j \in DOMAIN down : down[j].code = "ended"
        BY <1>3, <3>2 DEF Truth, Answers, Linked, Typed, Inv, Unsent
      <4>2. j \in 1..(k - 1) BY <1>1, <2>2
      <4>. QED BY <1>1, <1>3, <2>2, <4>1, <4>2 DEF Truthful
    <3>. QED BY <3>1, <3>2
  <2>. QED BY <1>1, <2>1, <2>2
<1>5. \A k \in DOMAIN down : /\ down[k].n \in 0..host.asked
                             /\ (down[k].n = 0 <=> down[k].code = "ended")
                             /\ down[k].code = "ended" => ~room.open
  BY DEF Truth, Answers
<1>. QED BY <1>1, <1>3, <1>5 DEF Answers, Truth

LEMMA HandleTruth ==
  ASSUME Truth, Handle
  PROVE  Truth'
<1> DEFINE c == Head(up)
           r == Command(Now, c)
<1>0. /\ Inv'
      /\ host.intent # 0 => host.intent \in 1..host.selections
      /\ host.waiting # 0 => host.phase \in {"begin", "confirm"} /\ host.intent # 0
  BY CoordinatorInv DEF Truth, Inv, Unsent, Typed
<1>1. /\ IsSeq(up') /\ DOMAIN up' = 1..(Len(up) - 1) /\ DOMAIN up = 1..Len(up) /\ Len(up) \in Nat \ {0}
      /\ Len(up') = Len(up) - 1 /\ \A k \in DOMAIN up' : up'[k] = up[k + 1] /\ k + 1 \in DOMAIN up
      /\ c = up[1] /\ 1 \in DOMAIN up
  BY TailIsSeq DEF Handle, Truth, Orders
<1>2. /\ DOMAIN room' = DOMAIN room /\ room'.open = room.open /\ r.code # "ended"
      /\ \/ room'.selected = room.selected
         \/ room'.selected = c.intent /\ Selecting(c) /\ room.open
      /\ room.open /\ Selecting(c) /\ r.code = "ok" => room'.selected = c.intent
      /\ room.open /\ c.type = "confirm" /\ r.code # "ok" => room.selected # c.intent
      /\ room.open /\ r.code # "ok" => room'.selected = room.selected
  <2>1. Outcome(r, Now, c) /\ Now.room = room BY NowWhole, CommandOutcome
  <2>2. room' = r.st.room BY DEF Handle, Install
  <2> HIDE DEF r
  <2>. QED BY <2>1, <2>2 DEF Outcome
<1>3. /\ selected' = selected \cup ({room'.selected} \ {0})
      /\ down' = IF c.n = 0 THEN down ELSE Append(down, [n |-> c.n, code |-> r.code])
      /\ UNCHANGED <<host, told>>
  BY DEF Handle, Install
<1> HIDE DEF c, r
<1>4. room.open /\ Selecting(c) => Confirming /\ c.intent = host.intent BY <1>1 DEF Truth, Orders
<1>5. /\ selected \subseteq selected' /\ room'.selected \in selected' \cup {0}
      /\ room'.selected = room.selected => selected' = selected
      /\ \A s \in selected' : s \in selected \/ (s = host.intent /\ s = c.intent /\ s # 0 /\ Confirming /\ room'.selected = s)
  BY <1>2, <1>3, <1>4 DEF Truth, Known
<1>6. Typed' BY <1>2, <1>3 DEF Truth, Typed
<1>7. Known' BY <1>0, <1>5, <1>2, <1>4, <1>3 DEF Truth, Known, Confirming
<1>8. Orders'
  <2>1. ASSUME NEW k \in DOMAIN up', up'[k].type = "begin"
        PROVE  up'[k].intent \notin selected' /\ \A j \in 1..(k - 1) : up'[j].intent # up'[k].intent
    <3>1. k + 1 \in DOMAIN up /\ up'[k] = up[k + 1] /\ 1 \in 1..((k + 1) - 1) /\ k \in Nat BY <1>1
    <3>2. up[k + 1].intent \notin selected /\ \A j \in 1..((k + 1) - 1) : up[j].intent # up[k + 1].intent
      BY <2>1, <3>1 DEF Truth, Orders
    <3>3. up[k + 1].intent # c.intent BY <1>1, <3>1, <3>2
    <3>4. ASSUME NEW j \in 1..(k - 1) PROVE up'[j].intent # up'[k].intent BY <1>1, <3>1, <3>2
    <3>. QED BY <1>5, <3>1, <3>2, <3>3, <3>4
  <2>2. ASSUME NEW k \in DOMAIN up', host.waiting # 0, up'[k].n = host.waiting
        PROVE  k = Len(up') /\ up'[k].intent = host.intent /\ up'[k].type = host.phase /\ up'[k].game = host.game
    BY <1>1, <2>2 DEF Truth, Orders
  <2>3. ASSUME NEW k \in DOMAIN up'
        PROVE  /\ up'[k].n \in 0..host.asked /\ up'[k].intent \in 0..host.selections
               /\ room.open /\ Selecting(up'[k]) => Confirming /\ up'[k].intent = host.intent
    BY <1>1 DEF Truth, Orders
  <2>. QED BY <1>1, <1>2, <1>3, <2>1, <2>2, <2>3 DEF Orders, Confirming
<1>9. Answers'
  <2>1. \A k \in DOMAIN down : ~(host.waiting # 0 /\ down[k].n = host.waiting)
    BY DEF Truth, Answers, Handle
  <2>2. CASE c.n = 0 BY <1>2, <1>3, <2>1, <2>2 DEF Truth, Answers
  <2>3. CASE c.n # 0
    <3> DEFINE m == [n |-> c.n, code |-> r.code]
    <3>1. m.n = c.n /\ m.code = r.code OBVIOUS
    <3>2. m.n \in 0..host.asked BY <1>1, <3>1 DEF Truth, Orders
    <3>3. (m.n = 0 <=> m.code = "ended") /\ m.code # "ended" BY <1>2, <2>3, <3>1
    <3>4. down' = Append(down, m) BY <1>3, <2>3
    <3>5. up # <<>> BY DEF Handle
    <3>6. ASSUME host.waiting # 0, m.n = host.waiting
          PROVE  up' = <<>> /\ (~room.open \/ (m.code = "ok" /\ (Confirming => host.intent \in selected'))
                                           \/ (m.code # "ok" /\ host.intent \notin selected'))
      BY <1>1, <3>1, <3>6, SeqShape, <1>0, <1>2, <1>3, <1>5 DEF Truth, Orders, Confirming,
         Selecting, Known
    <3> HIDE DEF m
    <3>. QED BY <1>2, <1>3, <1>5, <2>1, <3>2, <3>3, <3>4, <3>5, <3>6, ReplyAnswers
  <2>. QED BY <2>2, <2>3
<1>10. Linked' BY <1>3 DEF Truth, Linked, Handle
<1>. QED BY <1>0, <1>6, <1>7, <1>8, <1>9, <1>10 DEF Truth

LEMMA CloseTruth ==
  ASSUME Truth, Close
  PROVE  Truth'
<1> DEFINE d == ForgetPending(Discard(Now))
<1>1. /\ DOMAIN room' = DOMAIN room /\ ~room'.open /\ room'.selected = room.selected
  <2>1. Good(Discard(Now)) /\ Discard(Now).room = room
    BY NowWhole, DiscardApart, DiscardKeeps DEF Whole, Keeps
  <2>2. d.room = [room EXCEPT !.pending = NoSelection, !.lease = 0] /\ "room" \in DOMAIN d
    BY <2>1 DEF ForgetPending, Good, Shape
  <2>3. room' = [d.room EXCEPT !.open = FALSE, !.content = 0, !.download = 0]
    <3> HIDE DEF d
    <3>. QED BY <2>2 DEF Install, Close, d
  <2>. QED BY <2>2, <2>3 DEF Truth, Typed
<1>2. /\ room.open /\ UNCHANGED <<up, host, told, selected>>
      /\ down' = IF host.connected THEN Append(down, [n |-> 0, code |-> "ended"]) ELSE down
  BY DEF Close
<1>3. Typed' BY <1>1, <1>2 DEF Truth, Typed
<1>4. Known' BY <1>1, <1>2 DEF Truth, Known, Confirming
<1>5. Orders' BY <1>1, <1>2 DEF Truth, Orders, Confirming
<1>6. Answers'
  <2>1. CASE host.connected
    <3> DEFINE m == [n |-> 0, code |-> "ended"]
    <3>1. m.n = 0 /\ m.code = "ended" /\ 0 \in 0..host.asked BY DEF Truth, Typed
    <3>2. down' = Append(down, m) BY <1>2, <2>1
    <3> HIDE DEF m
    <3>. QED BY <1>1, <1>2, <3>1, <3>2, ReplyAnswers
  <2>2. CASE ~host.connected BY <1>1, <1>2, <2>2 DEF Truth, Answers, Truthful, Confirming
  <2>. QED BY <2>1, <2>2
<1>7. Linked' BY <1>2 DEF Truth, Linked
<1>8. Inv' BY CoordinatorInv DEF Truth
<1>. QED BY <1>3, <1>4, <1>5, <1>6, <1>7, <1>8 DEF Truth

\* What the other handlers and the transfers do to the room.
LEMMA TransferTruth ==
  ASSUME Truth, NEW i \in Intent,
         UploadArrives(i) \/ UploadOpens(i) \/ UploadReceives(i) \/ UploadCommits(i) \/ UploadCut(i)
  PROVE  Truth'
<1>0. Inv' BY ArrivesInv, OpensInv, ReceivesInv, CommitsInv, CutInv DEF Truth
<1>1. UNCHANGED <<up, down, host, told, selected>>
  BY DEF UploadArrives, UploadOpens, UploadReceives, UploadCommits, UploadCut
<1>3. CASE UploadFailed(i)
  <2> DEFINE d == DiscardPending(Now)
  <2>1. Good(d) /\ d.room = room
    BY NowWhole, DiscardApart, DiscardPendingKeeps DEF Keeps, Whole, Now
  <2>2. room' = [room EXCEPT !.lease = IF @ = i THEN 0 ELSE @]
    <3> HIDE DEF d
    <3>. QED BY <2>1, <1>3 DEF Install, Good, Shape, UploadFailed, d
  <2>. QED BY <1>0, <1>1, <2>2, QuietTruth DEF Truth, Typed
<1>4. CASE UploadArrives(i)
  BY <1>4, <1>0, <1>1, QuietTruth DEF UploadArrives, Install, Now, Truth, Typed
<1>5. CASE UploadOpens(i) /\ ~UploadFailed(i)
  BY <1>5, <1>0, <1>1, QuietTruth DEF UploadOpens, Install, Now, Truth, Typed
<1>6. CASE UploadReceives(i) /\ ~UploadFailed(i)
  BY <1>6, <1>0, <1>1, QuietTruth DEF UploadReceives, Install, Now, Truth, Typed
<1>7. CASE UploadCommits(i) /\ ~UploadFailed(i)
  <2>1. room' = [room EXCEPT !.pending.content = i, !.lease = 0]
    BY <1>7 DEF UploadCommits, Install, Now
  <2>. QED BY <1>0, <1>1, <2>1, QuietTruth DEF Truth, Typed
<1>8. CASE UploadCut(i) BY <1>8, <1>0, <1>1, QuietTruth DEF UploadCut, Truth, Typed
<1>. QED BY <1>3, <1>4, <1>5, <1>6, <1>7, <1>8

LEMMA ExpireTruth ==
  ASSUME Truth, Expire
  PROVE  Truth'
BY CoordinatorInv, NowWhole, ForgetApart, QuietTruth DEF Truth, Expire, Install, Apart

LEMMA AsideTruth ==
  ASSUME Truth, \/ Change \/ Ask \/ DownloadBegins \/ DownloadOpens \/ DownloadEnds \/ UNCHANGED vars
                \/ \E x \in Extraction : ExtractionBegins(x) \/ ExtractionStores(x) \/ ExtractionUnpacks(x) \/ ExtractionEnds(x)
  PROVE  Truth'
<1>1. Inv' BY NextInv DEF Truth, Next
<1>2. UNCHANGED <<up, down, host, told, selected>>
  BY DEF Change, Ask, DownloadBegins, DownloadOpens, DownloadEnds, vars, ExtractionBegins, ExtractionStores,
         ExtractionUnpacks, ExtractionEnds, Reserve
<1>3. \/ room' = room
      \/ room' = [room EXCEPT !.revision = @ + 1, !.changes = @ + 1]
      \/ \E n : room' = [room EXCEPT !.download = n]
  BY DEF Change, Ask, DownloadBegins, DownloadOpens, DownloadEnds, Ended, vars, ExtractionBegins, ExtractionStores,
         ExtractionUnpacks, ExtractionEnds, Reserve
<1>. QED BY <1>1, <1>2, <1>3, QuietTruth DEF Truth, Typed

-----------------------------------------------------------------------------
(* The host.                                                               *)

\* What the host still has of the wires when it waits for nothing: the replies
\* it has not read, and, at the end, the command that forgets a selection.
Fewer == /\ IsSeq(down') /\ \A k \in DOMAIN down' : \E j \in DOMAIN down : down'[k] = down[j]
         /\ down = <<>> => down' = <<>>

\* The host's selection is over: nothing on its way can make it any more.
LEMMA OverTruth ==
  ASSUME Truth, Inv', Fewer, UNCHANGED <<room, selected>>, host.intent # 0,
         \A k \in DOMAIN up : room.open => ~Selecting(up[k]),
         host'.selections = host.selections, host'.asked = host.asked, host'.connected = host.connected,
         host'.intent = 0, host'.phase = "idle", host'.waiting = 0,
         \/ told' = told
         \/ told' = [told EXCEPT ![host.intent] = "failed"] /\ host.intent \notin selected
         \/ told' = [told EXCEPT ![host.intent] = "selected"] /\ host.intent \in selected,
         \/ up' = up
         \/ \E c : up' = Append(up, c) /\ c.type = "cancel" /\ c.n = 0 /\ c.intent = host.intent /\ host.connected
  PROVE  Truth'
<1>1. host.intent \in 1..host.selections /\ host.intent \in Intent /\ host.selections \in Nat /\ host.asked \in Nat
  BY GameFilesAssumption DEF Truth, Typed, Intent
<1>2. Typed' BY <1>1 DEF Truth, Typed
<1>3. Known'
  <2>1. 0 \notin selected BY DEF Truth, Known
  <2>2. /\ selected \subseteq 1..host.selections /\ room.selected \in selected \cup {0}
        /\ told \in [Intent -> {"nothing", "selected", "failed"}]
        /\ \A i \in Intent : told[i] # "nothing" => i <= host.selections
        /\ \A i \in Intent : told[i] = "selected" => i \in selected
        /\ \A i \in Intent : told[i] = "failed" => i \notin selected
    BY DEF Truth, Known, Typed
  <2>3. \A i \in Intent : /\ told'[i] # "nothing" => i <= host.selections
                          /\ told'[i] = "selected" => i \in selected
                          /\ told'[i] = "failed" => i \notin selected
    BY <1>1, <2>2
  <2>. QED BY <2>1, <2>2, <2>3 DEF Known, Intent
<1> DEFINE Mere(u, k) == u[k].n \in 0..host.asked /\ u[k].intent \in 0..host.selections /\ (room.open => ~Selecting(u[k]))
           First(u, k) == u[k].type = "begin" =>
                            u[k].intent \notin selected /\ \A j \in 1..(k - 1) : u[j].intent # u[k].intent
<1>4. IsSeq(up') /\ \A k \in DOMAIN up' : Mere(up', k) /\ First(up', k)
  <2>1. CASE up' = up BY <2>1 DEF Truth, Orders
  <2>2. ASSUME NEW c, up' = Append(up, c), c.type = "cancel", c.n = 0, c.intent = host.intent 
        PROVE  IsSeq(up') /\ \A k \in DOMAIN up' : Mere(up', k) /\ First(up', k)
    <3>1. /\ IsSeq(up') /\ DOMAIN up' = 1..(Len(up) + 1) /\ DOMAIN up = 1..Len(up) /\ Len(up) \in Nat
          /\ \A k \in 1..Len(up) : up'[k] = up[k]
          /\ up'[Len(up) + 1] = c
      BY <2>2, AppendIsSeq DEF Truth, Orders
    <3>2. ASSUME NEW k \in DOMAIN up PROVE First(up', k) BY <3>1 DEF Truth, Orders
    <3>4. \A k \in DOMAIN up : Mere(up', k) BY <3>1 DEF Truth, Orders
    <3>5. c.n \in 0..host.asked /\ c.intent \in 0..host.selections /\ ~Selecting(c) /\ c.type # "begin"
      BY <1>1, <2>2 DEF Selecting
    <3>6. \A k \in DOMAIN up' : k = Len(up) + 1 => Mere(up', k) /\ First(up', k) BY <3>1, <3>5
    <3> HIDE DEF Mere, First
    <3>. QED BY <3>1, <3>2, <3>4, <3>6
  <2>. QED BY <2>1, <2>2
<1>5. Orders' BY <1>4 DEF Orders
<1>6. Answers' BY DEF Truth, Answers, Fewer
<1>7. Linked' BY DEF Truth, Linked, Fewer
<1>. QED BY <1>2, <1>3, <1>5, <1>6, <1>7 DEF Truth

\* Whether a selection under way is being confirmed, and what that means.
LEMMA HostFacts ==
  ASSUME Truth
  PROVE  /\ host.phase # "idle" <=> host.intent # 0
         /\ host.waiting # 0 => host.phase \in {"begin", "confirm"} /\ host.intent # 0 /\ host.connected
         /\ ~Confirming => host.intent \notin selected /\ \A k \in DOMAIN up : room.open => ~Selecting(up[k])
         /\ {"intent", "game", "phase", "revision", "tries", "waiting", "connected", "asked", "selections", "breaks"}
              \subseteq DOMAIN host
BY DEF Truth, Inv, Unsent, Typed, Known, Orders, Linked

LEMMA IdleHost ==
  ASSUME Truth
  PROVE  LET h == Host(Idle) IN
         /\ DOMAIN h = DOMAIN host /\ h.selections = host.selections /\ h.asked = host.asked /\ h.connected = host.connected
         /\ h.intent = 0 /\ h.phase = "idle" /\ h.waiting = 0
BY HostFacts DEF Host, Idle

LEMMA GiveUpTruth ==
  ASSUME Truth, Inv', Fewer, UNCHANGED <<room, selected>>, GiveUp, host.intent # 0, host.intent \notin selected,
         \A k \in DOMAIN up : room.open => ~Selecting(up[k])
  PROVE  Truth'
<1>2. \/ up' = up
      \/ \E c : up' = Append(up, c) /\ c.type = "cancel" /\ c.n = 0 /\ c.intent = host.intent /\ host.connected
  <2> DEFINE c == [type |-> "cancel", n |-> 0, intent |-> host.intent, game |-> host.game, revision |-> 0]
  <2>1. c.type = "cancel" /\ c.n = 0 /\ c.intent = host.intent OBVIOUS
  <2>2. up' = IF host.connected THEN Append(up, c) ELSE up BY DEF GiveUp, Send
  <2> HIDE DEF c
  <2>. QED BY <2>1, <2>2
<1>. QED BY <1>2, IdleHost, OverTruth DEF GiveUp, Tell

LEMMA SucceedTruth ==
  ASSUME Truth, Inv', Fewer, UNCHANGED <<room, selected>>, Succeed, host.intent \in selected,
         \A k \in DOMAIN up : room.open => ~Selecting(up[k])
  PROVE  Truth'
BY IdleHost, OverTruth DEF Succeed, Tell, Truth, Known

LEMMA WithdrawTruth ==
  ASSUME Truth, Withdraw
  PROVE  Truth'
<1>1. Inv' BY WithdrawInv DEF Truth
<1>2. UNCHANGED <<room, selected, down, told>> /\ host' = Host(Idle) /\ host.intent # 0 /\ ~Confirming BY DEF Withdraw
<1>3. \/ up' = up
      \/ \E c : up' = Append(up, c) /\ c.type = "cancel" /\ c.n = 0 /\ c.intent = host.intent /\ host.connected
  <2> DEFINE c == [type |-> "cancel", n |-> 0, intent |-> host.intent, game |-> host.game, revision |-> 0]
  <2>1. c.type = "cancel" /\ c.n = 0 /\ c.intent = host.intent OBVIOUS
  <2>2. up' = IF host.connected THEN Append(up, c) ELSE up BY DEF Withdraw, Send
  <2> HIDE DEF c
  <2>. QED BY <2>1, <2>2
<1>4. Fewer BY <1>2 DEF Fewer, Truth, Answers
<1>. QED BY <1>1, <1>2, <1>3, <1>4, HostFacts, IdleHost, OverTruth

\* A room that is over has no selection left to be made.
LEMMA DroppedTruth ==
  ASSUME Truth, Inv', Fewer, UNCHANGED <<room, selected, up, told>>, Dropped, ~room.open,
         ~host.connected => down' = down
  PROVE  Truth'
<1> DEFINE h == Host(Idle)
<1>1. host' = [h EXCEPT !.connected = TRUE] BY DEF Dropped
<1>2. /\ DOMAIN h = DOMAIN host /\ h.selections = host.selections /\ h.asked = host.asked
      /\ h.intent = 0 /\ h.phase = "idle" /\ h.waiting = 0
  BY IdleHost
<1> HIDE DEF h
<1>3. /\ host'.selections = host.selections /\ host'.asked = host.asked /\ host'.connected
      /\ host'.intent = 0 /\ host'.phase = "idle" /\ host'.waiting = 0
  BY <1>1, <1>2, HostFacts
<1>4. Typed' BY <1>3 DEF Truth, Typed
<1>5. Known' BY <1>3 DEF Truth, Known, Intent
<1>6. Orders' BY <1>3 DEF Truth, Orders
<1>7. Answers' BY <1>3 DEF Truth, Answers, Fewer
<1>8. Linked' BY <1>3 DEF Truth, Linked
<1>. QED BY <1>4, <1>5, <1>6, <1>7, <1>8 DEF Truth

\* The host goes on with its selection, and waits for nothing.
LEMMA OnTruth ==
  ASSUME Truth, Inv', Fewer, UNCHANGED <<room, selected, told, up>>, host.intent # 0,
         host'.intent = host.intent, host'.selections = host.selections, host'.asked = host.asked,
         host'.connected = host.connected, host'.phase # "idle", host'.waiting = 0,
         Confirming => Confirming',
         ~room.open /\ host.connected => \E k \in DOMAIN down' : down'[k].code = "ended"
  PROVE  Truth'
BY DEF Truth, Typed, Known, Orders, Answers, Fewer, Linked

LEMMA Shorter ==
  ASSUME Truth, down # <<>>, down' = Tail(down)
  PROVE  /\ Fewer /\ 1 \in DOMAIN down /\ Head(down) = down[1]
         /\ \A k \in DOMAIN down' : k + 1 \in DOMAIN down /\ down'[k] = down[k + 1] /\ k \in Nat
         /\ \A k \in DOMAIN down : k = 1 \/ (k - 1 \in DOMAIN down' /\ down'[k - 1] = down[k])
BY TailIsSeq DEF Truth, Answers, Fewer

\* A reply that is not waited for is dropped.
LEMMA IgnoreTruth ==
  ASSUME Truth, Inv', down # <<>>, down' = Tail(down), Head(down).code # "ended",
         UNCHANGED <<room, selected, told, up, host>>
  PROVE  Truth'
<1>1. Typed' BY DEF Truth, Typed
<1>2. Known' BY DEF Truth, Known, Confirming
<1>3. Orders' BY DEF Truth, Orders, Confirming
<1>4. Linked' BY DEF Truth, Linked
<1>5. Answers'
  <2>1. ASSUME NEW k \in DOMAIN down', host.waiting # 0, down'[k].n = host.waiting
        PROVE  up = <<>> /\ Truthful(k)'
    <3>1. k + 1 \in DOMAIN down /\ down'[k] = down[k + 1] /\ k \in Nat BY Shorter
    <3>2. up = <<>> /\ Truthful(k + 1) BY <2>1, <3>1 DEF Truth, Answers
    <3>3. ASSUME NEW j \in 1..((k + 1) - 1), down[j].code = "ended"
          PROVE  \E l \in 1..(k - 1) : down'[l].code = "ended"
      <4>1. DOMAIN down = 1..Len(down) /\ Len(down) \in Nat BY SeqShape DEF Truth, Answers
      <4>2. j \in DOMAIN down /\ j # 1 BY <3>1, <3>3, <4>1, Shorter
      <4>3. j - 1 \in 1..(k - 1) /\ down'[j - 1] = down[j] BY <3>1, <4>1, <4>2, Shorter
      <4>. QED BY <3>3, <4>3
    <3>. QED BY <3>1, <3>2, <3>3 DEF Truthful, Confirming
  <2>2. (\E k \in DOMAIN down : down[k].code = "ended") => \E k \in DOMAIN down' : down'[k].code = "ended"
    BY Shorter
  <2>3. Fewer BY Shorter
  <2>. QED BY <2>1, <2>2, <2>3 DEF Truth, Answers, Fewer
<1>. QED BY <1>1, <1>2, <1>3, <1>4, <1>5 DEF Truth

LEMMA ReceiveTruth ==
  ASSUME Truth, Receive
  PROVE  Truth'
<1> DEFINE reply == Head(down)
<1>0. Inv' /\ UNCHANGED <<room, selected>> /\ down # <<>> /\ down' = Tail(down)
  BY HostInv DEF Truth, Receive
<1>1. Fewer /\ 1 \in DOMAIN down /\ reply = down[1] BY <1>0, Shorter
<1>2. host.waiting # 0 /\ reply.n = host.waiting =>
        /\ up = <<>>
        /\ (reply.code = "ok" /\ (Confirming => host.intent \in selected)) \/ (reply.code # "ok" /\ host.intent \notin selected)
  BY <1>1 DEF Truth, Answers, Truthful
<1>3. (reply.n = 0 <=> reply.code = "ended") /\ (reply.code = "ended" => ~room.open) BY <1>1 DEF Truth, Answers
<1>4. up = <<>> => \A k \in DOMAIN up : room.open => ~Selecting(up[k]) BY NothingIsSeq
<1>5. CASE reply.code = "ended" /\ Dropped /\ UNCHANGED <<up, told>>
  BY <1>0, <1>1, <1>3, <1>5, DroppedTruth DEF Truth, Linked
<1>6. CASE reply.code # "ended" /\ UNCHANGED <<host, up, told>> BY <1>0, <1>6, IgnoreTruth
<1>7. CASE reply.n = host.waiting /\ reply.code \notin {"ok", "ended"} /\ GiveUp
  BY <1>3, <1>7, HostFacts, <1>0, <1>1, <1>2, <1>4, GiveUpTruth
<1>8. CASE host.waiting # 0 /\ reply.n = host.waiting /\ reply.code = "ok" /\ Confirming /\ Succeed
  BY <1>0, <1>1, <1>2, <1>4, <1>8, SucceedTruth
<1>9. CASE host.waiting # 0 /\ reply.n = host.waiting /\ reply.code = "ok" /\ ~Confirming /\ Put(host.intent)
  <2>1. host' = [host EXCEPT !.phase = "upload", !.waiting = 0] /\ UNCHANGED <<up, told>> BY <1>9 DEF Put
  <2>2. /\ host'.intent = host.intent /\ host'.selections = host.selections /\ host'.asked = host.asked
        /\ host'.connected = host.connected /\ host'.phase = "upload" /\ host'.waiting = 0 /\ host.intent # 0
    BY <1>9, <2>1, HostFacts
  <2>3. ~room.open /\ host.connected => \E k \in DOMAIN down' : down'[k].code = "ended"
    <3>1. reply.code # "ended" BY <1>9
    <3>2. ~room.open /\ host.connected => \E k \in DOMAIN down : down[k].code = "ended"
      BY <2>2 DEF Truth, Answers
    <3>. QED BY <1>0, <1>1, <3>1, <3>2, Shorter
  <2>. QED BY <1>0, <1>1, <1>9, <2>1, <2>2, <2>3, OnTruth
<1>. QED BY <1>5, <1>6, <1>7, <1>8, <1>9 DEF Receive

\* One more command, that asks for a reply of its own.
LEMMA AskTruth ==
  ASSUME Truth, Inv', UNCHANGED <<room, selected, told, down>>, NEW c, up' = Append(up, c), host.connected,
         c.n = host.asked + 1, c.intent = host'.intent, c.type = host'.phase, c.game = host'.game, host'.intent # 0,
         host'.phase \in {"begin", "confirm"}, host'.waiting = host.asked + 1, host'.asked = host.asked + 1, host'.connected,
         \/ /\ host'.intent = host.intent /\ host'.selections = host.selections
            /\ host'.phase = "confirm"
         \/ /\ host.intent = 0 /\ host'.intent = host.selections + 1 /\ host'.selections = host.selections + 1
            /\ room.open /\ host'.selections <= MaxSelect /\ host'.phase = "begin"
  PROVE  Truth'
<1>0. /\ host.asked \in Nat /\ host.selections \in Nat /\ host.intent \in 0..host.selections /\ host.waiting \in 0..host.asked
      /\ host.selections <= host'.selections /\ MaxSelect \in Nat /\ host'.intent \in 1..host'.selections
  BY GameFilesAssumption DEF Truth, Typed
<1>1. Typed' BY <1>0 DEF Truth, Typed
<1>2. Known' BY <1>0 DEF Truth, Known, Typed, Confirming, Intent
<1>3. Orders'
  <2>1. /\ IsSeq(up') /\ Len(up') = Len(up) + 1 /\ DOMAIN up' = 1..(Len(up) + 1) /\ DOMAIN up = 1..Len(up) /\ Len(up) \in Nat
        /\ \A k \in DOMAIN up : up'[k] = up[k]
        /\ up'[Len(up) + 1] = c
    BY AppendIsSeq DEF Truth, Orders
  <2>2. ASSUME NEW k \in DOMAIN up
        PROVE  /\ up'[k] = up[k] /\ up[k].n \in 0..host.asked /\ up[k].n # host'.waiting
               /\ up[k].intent \in 0..host.selections
               /\ room.open /\ Selecting(up[k]) => host'.intent = host.intent /\ up[k].intent = host.intent
               /\ up[k].type = "begin" => up[k].intent \notin selected /\ \A j \in 1..(k - 1) : up'[j].intent # up'[k].intent
    BY <2>1, <1>0 DEF Truth, Orders, Confirming, Typed
  <2>3. ASSUME NEW k \in DOMAIN up', k = Len(up) + 1
        PROVE  /\ up'[k] = c /\ k = Len(up')
               /\ c.type = "begin" => c.intent \notin selected /\ \A j \in 1..(k - 1) : up'[j].intent # c.intent
    <3>2. c.type = "begin" => c.intent = host.selections + 1 OBVIOUS
    <3>. QED BY <1>0, <2>1, <2>3, <2>2, <3>2 DEF Truth, Known
  <2>4. room.open /\ Selecting(c) => Confirming' BY DEF Selecting, Confirming
  <2>6. \A k \in DOMAIN up' : k \in DOMAIN up \/ k = Len(up) + 1 BY <2>1
  <2>7. \A k \in DOMAIN up' :
          /\ up'[k].n \in 0..host'.asked /\ up'[k].intent \in 0..host'.selections
          /\ room.open /\ Selecting(up'[k]) => Confirming' /\ up'[k].intent = host'.intent
    <3>1. ASSUME NEW k \in DOMAIN up
          PROVE  /\ up'[k].n \in 0..host'.asked /\ up'[k].intent \in 0..host'.selections
                 /\ room.open /\ Selecting(up'[k]) => Confirming' /\ up'[k].intent = host'.intent
      BY <2>2, <1>0 DEF Confirming
    <3>2. c.n \in 0..host'.asked /\ c.intent \in 0..host'.selections BY <1>0
    <3>. QED BY <2>3, <2>4, <2>6, <3>1, <3>2
  <2>9. \A k \in DOMAIN up' : up'[k].n = host'.waiting =>
          k = Len(up') /\ up'[k].intent = host'.intent /\ up'[k].type = host'.phase /\ up'[k].game = host'.game
    BY <2>2, <2>3, <2>6
  <2>. QED BY <2>1, <2>7, <2>2, <2>3, <2>6, <2>9 DEF Orders
<1>4. Answers' BY <1>0 DEF Truth, Answers
<1>5. Linked' BY DEF Linked
<1>. QED BY <1>1, <1>2, <1>3, <1>4, <1>5 DEF Truth

LEMMA RequestTruth ==
  ASSUME Truth, Inv', UNCHANGED <<room, selected, told, down>>, NEW tries, NEW revision, host.intent # 0,
         Request("confirm", "confirm", tries, host.intent, host.game, revision)
  PROVE  Truth'
<1> DEFINE c == [type |-> "confirm", n |-> host.asked + 1, intent |-> host.intent, game |-> host.game, revision |-> revision]
<1>1. c.type = "confirm" /\ c.n = host.asked + 1 /\ c.intent = host.intent /\ c.game = host.game OBVIOUS
<1>2. up' = Append(up, c) /\ host.connected BY DEF Request, Send
<1> HIDE DEF c
<1>3. /\ host'.intent = host.intent /\ host'.selections = host.selections /\ host'.phase = "confirm"
      /\ host'.waiting = host.asked + 1 /\ host'.asked = host.asked + 1 /\ host'.connected /\ host'.game = host.game
  BY HostFacts DEF Request
<1>. QED BY <1>1, <1>2, <1>3, AskTruth

LEMMA SelectTruth ==
  ASSUME Truth, Select
  PROVE  Truth'
<1>0. Inv' /\ UNCHANGED <<room, selected, told, down>> BY SelectInv DEF Truth, Select
<1>1. PICK game \in Game :
        /\ host' = [host EXCEPT !.selections = host.selections + 1, !.asked = @ + 1, !.waiting = host.asked + 1,
                      !.phase = "begin", !.tries = 0, !.intent = host.selections + 1, !.game = game,
                      !.revision = room.revision]
        /\ Send("begin", host.asked + 1, host.selections + 1, game, room.revision)
  BY DEF Select
<1> DEFINE c == [type |-> "begin", n |-> host.asked + 1, intent |-> host.selections + 1, game |-> game, revision |-> room.revision]
<1>2. c.type = "begin" /\ c.n = host.asked + 1 /\ c.intent = host.selections + 1 /\ c.game = game OBVIOUS
<1>3. up' = Append(up, c) /\ host.connected BY <1>1 DEF Select, Send
<1> HIDE DEF c
<1>4. /\ host'.intent = host.selections + 1 /\ host'.selections = host.selections + 1 /\ host'.phase = "begin"
      /\ host'.waiting = host.asked + 1 /\ host'.asked = host.asked + 1 /\ host'.connected /\ host'.game = game
  BY <1>1, <1>3, HostFacts
<1>5. /\ host.intent = 0 /\ room.open /\ host.selections + 1 <= MaxSelect /\ host.selections + 1 # 0
  BY GameFilesAssumption DEF Select, Truth, Typed
<1>. QED BY <1>0, <1>2, <1>3, <1>4, <1>5, AskTruth

LEMMA ClientTruth ==
  ASSUME Truth, Timeout \/ Uploaded \/ Retry \/ Reconcile \/ Overdue
  PROVE  Truth'
<1>0. Inv' /\ UNCHANGED <<room, selected, down>>
  BY HostInv DEF Truth, Timeout, Uploaded, Retry, Reconcile, Overdue
<1>1. Fewer BY <1>0 DEF Fewer, Truth, Answers
<1>2. ~room.open /\ host.connected /\ host.intent # 0 => \E k \in DOMAIN down' : down'[k].code = "ended"
  BY <1>0 DEF Truth, Answers
<1>3. host.intent # 0 BY HostFacts DEF Timeout, Uploaded, Retry, Reconcile, Overdue
<1>4. CASE GiveUp /\ ~Confirming BY <1>0, <1>1, <1>3, <1>4, HostFacts, GiveUpTruth
<1>5. ASSUME NEW phase \in {"confirm", "unknown"}, NEW tries, NEW revision, UNCHANGED <<told, up>>,
             host' = [host EXCEPT !.phase = phase, !.tries = tries, !.revision = revision, !.waiting = 0]
      PROVE  Truth'
  BY <1>5, HostFacts, <1>0, <1>1, <1>2, <1>3, OnTruth DEF Confirming
<1>6. CASE Timeout
  <2>1. CASE Confirming
    <3>1. PICK phase \in {"confirm", "unknown"} : host' = [host EXCEPT !.phase = phase, !.waiting = 0] /\ UNCHANGED <<told, up>>
      BY <1>6, <2>1 DEF Timeout, NoReply
    <3>2. /\ host'.intent = host.intent /\ host'.selections = host.selections /\ host'.asked = host.asked
          /\ host'.connected = host.connected /\ host'.phase = phase /\ host'.waiting = 0
      BY <3>1, HostFacts
    <3>3. Confirming' BY <3>2 DEF Confirming
    <3>. QED BY <1>0, <1>1, <1>2, <1>3, <3>1, <3>2, <3>3, OnTruth
  <2>2. CASE ~Confirming BY <1>4, <1>6, <2>2 DEF Timeout, NoReply
  <2>. QED BY <2>1, <2>2
<1>7. CASE Uploaded
  <2>1. host.phase = "upload" /\ ~Confirming BY <1>7 DEF Uploaded, Confirming
  <2>2. CASE Request("confirm", "confirm", 1, host.intent, host.game, room.revision) /\ UNCHANGED told
    BY <1>0, <1>3, <2>2, RequestTruth
  <2>3. CASE host' = [host EXCEPT !.phase = "confirm", !.tries = 1, !.revision = room.revision] /\ UNCHANGED <<up, told>>
    BY <2>1, HostFacts, <2>3, <1>0, <1>1, <1>2, <1>3, OnTruth DEF Confirming
  <2>. QED BY <1>4, <1>7, <2>1, <2>2, <2>3 DEF Uploaded
<1>8. CASE Retry BY <1>0, <1>3, <1>8, RequestTruth DEF Retry
<1>9. CASE Reconcile BY <1>0, <1>3, <1>9, RequestTruth DEF Reconcile
<1>10. CASE Overdue BY <1>10, HostFacts, <1>0, <1>1, <1>2, <1>3, OnTruth DEF Overdue, Confirming
<1>. QED BY <1>6, <1>7, <1>8, <1>9, <1>10

\* What a lost socket leaves of a selection.
LEMMA LostTruth ==
  ASSUME Truth, Inv', LinkLost, UNCHANGED selected, DOMAIN room' = DOMAIN room, room'.selected = room.selected
  PROVE  Truth'
<1> DEFINE fails == host.waiting # 0 /\ ~Confirming
           h == IF fails THEN Host(Idle) ELSE host
           phase == IF fails THEN "idle" ELSE IF host.waiting # 0 THEN "confirm" ELSE host.phase
<1>1. /\ DOMAIN h = DOMAIN host /\ h.selections = host.selections /\ h.asked = host.asked
      /\ fails => h.intent = 0
      /\ ~fails => h = host
  BY IdleHost
<1>2. /\ DOMAIN host' = DOMAIN host /\ host'.selections = host.selections /\ host'.asked = host.asked
      /\ ~host'.connected /\ host'.waiting = 0 /\ host'.phase = phase /\ host'.intent = h.intent /\ host'.game = h.game
  <2>1. host' = [h EXCEPT !.connected = FALSE, !.breaks = IF @ < MaxBreaks THEN @ + 1 ELSE @, !.waiting = 0, 
                          !.phase = IF fails THEN "idle" ELSE IF host.waiting # 0 THEN "confirm" ELSE @]
    BY DEF LinkLost
  <2> HIDE DEF h
  <2>2. h.phase = host.phase \/ fails BY <1>1
  <2>. QED BY <1>1, <2>1, <2>2, HostFacts
<1>3. up' = <<>> /\ down' = <<>> /\ told' = IF fails THEN [told EXCEPT ![host.intent] = "failed"] ELSE told
  BY DEF LinkLost
<1>4. /\ fails => host.intent \in Intent /\ host.intent \notin selected /\ host.intent <= host.selections
      /\ ~fails /\ Confirming => Confirming'
  BY HostFacts, GameFilesAssumption, <1>1, <1>2 DEF Truth, Typed, Intent, Confirming
<1> HIDE DEF h
<1>5. Typed' BY <1>1, HostFacts, <1>2, <1>3, <1>4 DEF Truth, Typed
<1>6. Known' BY <1>1, <1>3, <1>4, <1>2 DEF Truth, Known, Typed, Intent
<1>7. Orders' BY <1>3, NothingIsSeq DEF Orders
<1>8. Answers' BY <1>2, <1>3, NothingIsSeq DEF Answers
<1>9. Linked' BY <1>2, <1>3 DEF Linked
<1>. QED BY <1>5, <1>6, <1>7, <1>8, <1>9 DEF Truth

LEMMA LinkTruth ==
  ASSUME Truth, Break \/ Reconnect \/ Restart
  PROVE  Truth'
<1>0. Inv' BY LinkInv DEF Truth
<1>1. CASE Break BY <1>0, <1>1, LostTruth DEF Break
<1>2. CASE Restart BY <1>2, <1>0, LostTruth DEF Restart, Truth, Typed
<1>3. CASE Reconnect
  <2>0. ~host.connected /\ UNCHANGED <<room, selected, up, down, told>> BY <1>3 DEF Reconnect
  <2>1. CASE ~room.open BY <2>0, <1>0, <1>3, <2>1, DroppedTruth DEF Fewer, Truth, Answers, Reconnect
  <2>2. CASE room.open
    <3>1. host' = [host EXCEPT !.connected = TRUE] BY <1>3, <2>2 DEF Reconnect
    <3>2. /\ host'.intent = host.intent /\ host'.selections = host.selections /\ host'.asked = host.asked
          /\ host'.connected /\ host'.phase = host.phase /\ host'.waiting = host.waiting /\ host'.game = host.game
          /\ up = <<>> /\ down = <<>> /\ host.waiting = 0
      BY <2>0, <3>1, HostFacts DEF Truth, Linked
    <3>3. Confirming' <=> Confirming BY <3>2 DEF Confirming
    <3>4. Typed' BY <2>0, <3>2 DEF Truth, Typed
    <3>5. Known' BY <2>0, <3>2, <3>3 DEF Truth, Known
    <3>6. Orders' /\ Answers' BY <2>0, <2>2, <3>2, NothingIsSeq DEF Orders, Answers
    <3>7. Linked' BY <3>2 DEF Linked
    <3>. QED BY <1>0, <3>4, <3>5, <3>6, <3>7 DEF Truth
  <2>. QED BY <2>1, <2>2
<1>. QED BY <1>1, <1>2, <1>3

LEMMA InitTruth == Init => Truth
<1> SUFFICES ASSUME Init PROVE Truth OBVIOUS
<1>1. Inv BY InitInv
<1>2. Typed BY GameFilesAssumption DEF Init, Typed, Intent
<1>3. Known BY DEF Init, Known, Intent
<1>4. Orders /\ Answers /\ Linked BY NothingIsSeq DEF Init, Orders, Answers, Linked
<1>. QED BY <1>1, <1>2, <1>3, <1>4 DEF Truth

LEMMA NextTruth == Truth /\ [Next]_vars => Truth'
<1> SUFFICES ASSUME Truth, [Next]_vars PROVE Truth' OBVIOUS
<1>. QED
  BY HandleTruth, ExpireTruth, CloseTruth, TransferTruth, AsideTruth, SelectTruth, WithdrawTruth, ReceiveTruth,
     ClientTruth, LinkTruth DEF Next

\* What the host is told of a selection is true: a selection that was confirmed
\* was made, one that failed never is, whatever replies were lost or came late
\* and however often the confirmation was repeated (room-client.ts
\* selectLobbyGame, confirmSelection, reconcileGameSelection; rooms.ts
\* confirmGameSelection).
THEOREM ToldTheTruth == Spec => []SelectionTruthful
<1>1. Truth => SelectionTruthful BY DEF Truth, Known, SelectionTruthful
<1>. QED BY <1>1, InitTruth, NextTruth, PTL DEF Spec

-----------------------------------------------------------------------------
(* What a guest loads.                                                     *)

\* What the room offers is what it has selected; an upload is that of the
\* selection under way.
Offers(r) ==
  /\ {"content", "lease", "selected", "pending", "download", "open"} \subseteq DOMAIN r
  /\ {"intent", "content"} \subseteq DOMAIN r.pending
  /\ r.content # 0 => r.content = r.selected
  /\ r.pending.content # 0 => r.pending.content = r.pending.intent
  /\ r.lease # 0 => r.pending.intent = r.lease

\* What the guest asked for was selected before, what it reads not earlier.
Asked ==
  /\ {"phase", "expected", "file", "loaded", "asked", "wanted"} \subseteq DOMAIN guest
  /\ guest.wanted.selected \in Nat
  /\ guest.phase # "idle" => /\ guest.wanted.selected <= room.selected
                             /\ guest.wanted.game = guest.expected
  /\ guest.phase \in {"opening", "reading"} => /\ guest.file \in selected
                                               /\ guest.file >= guest.wanted.selected

Served == Truth /\ Offers(room) /\ Asked

LEMMA OffersForgotten ==
  ASSUME NEW st, Whole(st), Offers(st.room)
  PROVE  LET n == ForgetPending(DiscardPending(st)) IN Offers(n.room) /\ Whole(n) /\ n.room.content = st.room.content
<1> DEFINE d == DiscardPending(st)
<1>1. Good(d) /\ d.room = st.room BY DiscardApart, DiscardPendingKeeps DEF Whole, Keeps
<1> HIDE DEF d
<1>3. Offers(ForgetPending(d).room) /\ ForgetPending(d).room.content = st.room.content
  BY <1>1 DEF Offers, NoSelection, ForgetPending, Good, Shape
<1>. QED BY <1>3, ForgetApart DEF d

LEMMA OffersSelected ==
  ASSUME NEW st, Whole(st), Offers(st.room), NEW intent, NEW game, NEW content, content \in {0, intent}
  PROVE  Offers(SelectGame(st, intent, game, content).room)
<1> DEFINE r == [st.room EXCEPT !.revision = @ + 1, !.game = game, !.content = content,
                         !.pending = NoSelection, !.lease = 0, !.selected = intent,
                         !.download = 0]
<1>1. SelectGame(st, intent, game, content).room = r BY DEF SelectGame, Whole, Good, Shape
<1>2. Offers(r) BY DEF Offers, NoSelection
<1>. QED BY <1>1, <1>2, Zenon

LEMMA OffersBegun ==
  ASSUME NEW st, Whole(st), Offers(st.room), NEW c
  PROVE  Offers(Began(st, c).st.room)
<1> DEFINE clean == IF st.room.pending.intent = 0 THEN st ELSE ForgetPending(DiscardPending(st))
           plays == SelectGame(clean, c.intent, c.game, 0)
           chosen == [intent |-> c.intent, game |-> c.game, content |-> 0]
           waits == [clean EXCEPT !.room.pending = chosen]
<1>1. Offers(clean.room) /\ Whole(clean) /\ (clean.room.lease = 0)
  <2>1. CASE st.room.pending.intent = 0 BY <2>1 DEF Offers
  <2>2. CASE st.room.pending.intent # 0
    <3>1. clean = ForgetPending(DiscardPending(st)) BY <2>2
    <3>2. DiscardPending(st).room = st.room BY DiscardApart DEF Whole
    <3>3. ForgetPending(DiscardPending(st)).room.lease = 0
      BY <3>2, DiscardPendingKeeps DEF ForgetPending, Whole, Keeps, Good, Shape
    <3>. QED BY <3>1, <3>3, OffersForgotten
  <2>. QED BY <2>1, <2>2
<1>2. Began(st, c).st \in {st, plays, Discard(plays), waits} BY DEF Began, Reply
<1> HIDE DEF clean
<1>3. Offers(plays.room) BY <1>1, OffersSelected
<1>4. Good(plays) BY <1>1, SelectGameGood DEF Whole, Good
<1>5. Discard(plays).room = plays.room BY <1>4, DiscardApart
<1>7. Offers(waits.room) BY <1>1 DEF Offers, Whole, Good, Shape
<1> HIDE DEF plays, waits
<1>. QED BY <1>2, <1>3, <1>5, <1>7

LEMMA OffersConfirmed ==
  ASSUME NEW st, Whole(st), Offers(st.room), NEW c
  PROVE  Offers(Confirmed(st, c).st.room)
<1> DEFINE n == SelectGame(Promote(st), c.intent, st.room.pending.game, st.room.pending.content)
<1>1. Good(DiscardEntry(st, "entries")) /\ DiscardEntry(st, "entries").room = st.room
  BY DiscardEntryGood DEF Whole
<1>2. Promote(st).room = st.room /\ Shape(Promote(st)) /\ Owned(Promote(st))
  BY <1>1, PromoteOwned DEF Promote, Whole, Good, Shape
<1>3. Confirmed(st, c).st = st
      \/ (st.room.pending.intent = c.intent /\ st.room.pending.content # 0 /\ Confirmed(st, c).st = n)
  BY DEF Confirmed, Reply
<1>4. ASSUME st.room.pending.intent = c.intent, st.room.pending.content # 0
      PROVE  Offers(n.room)
  <2> DEFINE content == st.room.pending.content
             r == [st.room EXCEPT !.revision = @ + 1, !.game = st.room.pending.game, !.content = content,
                         !.pending = NoSelection, !.lease = 0, !.selected = c.intent, !.download = 0]
  <2>1. n.room = r BY <1>2 DEF SelectGame, Shape
  <2>2. content = c.intent BY <1>4 DEF Offers
  <2>3. Offers(r) BY <2>2 DEF Offers, NoSelection
  <2>. QED BY <2>1, <2>3, Zenon
<1> HIDE DEF n
<1>. QED BY <1>3, <1>4

LEMMA OffersAnswered ==
  ASSUME NEW st, Whole(st), Offers(st.room), NEW c
  PROVE  Offers(Command(st, c).st.room)
BY OffersBegun, OffersConfirmed, OffersForgotten DEF Cancelled, Reply, Command

\* The room's selections only grow, for the one that is confirmed is the last.
LEMMA SelectedNat ==
  ASSUME Truth
  PROVE  /\ room.selected \in Nat /\ room.selected <= host.selections /\ selected \subseteq Nat
         /\ host.selections \in Nat /\ (room.selected # 0 => room.selected \in selected)
         /\ Confirming => host.intent = host.selections
<1>1. host.selections \in Nat BY GameFilesAssumption DEF Truth, Typed
<1>2. selected \subseteq 1..host.selections /\ room.selected \in selected \cup {0}
  BY DEF Truth, Known
<1>3. Confirming => host.intent = host.selections BY DEF Truth, Typed, Confirming
<1>4. selected \subseteq Nat BY <1>1, <1>2
<1>5. room.selected = 0 \/ (room.selected \in 1..host.selections /\ room.selected \in selected)
  BY <1>2, Zenon
<1>6. room.selected \in Nat /\ room.selected <= host.selections BY <1>1, <1>5
<1>7. room.selected # 0 => room.selected \in selected BY <1>5
<1>. QED BY <1>1, <1>3, <1>4, <1>6, <1>7, Zenon

LEMMA AskedKept ==
  ASSUME Served, guest' = guest, selected \subseteq selected', room'.selected \in Nat, room.selected <= room'.selected
  PROVE  Asked'
BY SelectedNat DEF Served, Asked

\* A step that leaves the room's selection, its transfers and the guest alone.
LEMMA ServedQuietly ==
  ASSUME Served, Truth', guest' = guest, selected' = selected, Offers(room)', room'.selected = room.selected
  PROVE  Served'
BY AskedKept, SelectedNat DEF Served

LEMMA HandleServed ==
  ASSUME Served, Handle
  PROVE  Served'
<1> DEFINE c == Head(up)
           result == Command(Now, c)
<1>0. Truth' /\ Truth BY HandleTruth DEF Served
<1>1. Whole(Now) /\ Now.room = room BY <1>0, NowWhole
<1>2. Outcome(result, Now, c) /\ Offers(result.st.room)
  BY <1>1, CommandOutcome, OffersAnswered DEF Served
<1>3. up # <<>> /\ room' = result.st.room /\ selected \subseteq selected' /\ guest' = guest
  BY DEF Handle, Install
<1>4. room.open /\ Selecting(c) => c.intent = host.selections
  BY <1>0, <1>3, TailIsSeq, SelectedNat DEF Truth, Orders
<1> HIDE DEF result, c
<1>5. room'.selected \in Nat /\ room.selected <= room'.selected
  BY <1>0, <1>1, <1>2, <1>3, <1>4, SelectedNat DEF Outcome
<1>. QED BY <1>0, <1>2, <1>3, <1>5, AskedKept DEF Served

LEMMA TransferServed ==
  ASSUME Served, NEW i \in Intent,
         UploadArrives(i) \/ UploadOpens(i) \/ UploadReceives(i) \/ UploadCommits(i) \/ UploadCut(i)
  PROVE  Served'
<1>0. Truth /\ Offers(room) /\ i # 0 BY DEF Served, Intent
<1>1. guest' = guest /\ selected' = selected
  BY DEF UploadArrives, UploadOpens, UploadReceives, UploadCommits, UploadCut
<1>2. Truth' BY <1>0, TransferTruth
<1>3. CASE room' = room BY <1>0, <1>1, <1>2, <1>3, ServedQuietly DEF Offers
<1>4. CASE UploadFailed(i)
  BY <1>0, DiscardApart, DiscardPendingKeeps, NowWhole, <1>4, <1>1, <1>2, ServedQuietly DEF Whole,
     Keeps, UploadFailed, Install, Good, Shape, Offers
<1>5. CASE room.pending.intent = i /\ room' = [room EXCEPT !.lease = i]
  BY <1>0, <1>5, <1>1, <1>2, ServedQuietly DEF Offers
<1>6. CASE room.lease = i /\ room' = [room EXCEPT !.pending.content = i, !.lease = 0]
  BY <1>0, <1>6, <1>1, <1>2, ServedQuietly DEF Offers
<1>7. CASE UploadArrives(i) BY <1>3, <1>5, <1>7 DEF UploadArrives, Install, Now
<1>8. CASE UploadOpens(i) BY <1>3, <1>4, <1>8 DEF UploadOpens, Install, Now
<1>9. CASE UploadReceives(i) BY <1>3, <1>4, <1>9 DEF UploadReceives, Install, Now
<1>10. CASE UploadCommits(i) BY <1>4, <1>6, <1>10 DEF UploadCommits, Install, Now
<1>11. CASE UploadCut(i) BY <1>3, <1>11 DEF UploadCut
<1>. QED BY <1>7, <1>8, <1>9, <1>10, <1>11

LEMMA RoomServed ==
  ASSUME Served, Expire \/ Change \/ Close
  PROVE  Served'
<1>0. Truth /\ Offers(room) BY DEF Served
<1>1. Whole(Now) /\ Now.room = room BY <1>0, NowWhole
<1>2. guest' = guest /\ selected' = selected BY DEF Expire, Change, Close
<1>3. CASE Expire
  <2> DEFINE n == ForgetPending(DiscardPending(Now))
  <2>1. Offers(n.room) /\ Apart(n, Now) BY <1>0, <1>1, OffersForgotten, ForgetApart
  <2>2. room' = n.room BY <1>3 DEF Expire, Install
  <2> HIDE DEF n
  <2>. QED BY <1>0, <1>1, <1>2, <1>3, <2>1, <2>2, ExpireTruth, ServedQuietly DEF Apart
<1>4. CASE Change BY <1>0, <1>4, AsideTruth, <1>2, ServedQuietly DEF Change, Offers
<1>5. CASE Close
  <2> DEFINE d == Discard(Now)
             r == [d.room EXCEPT !.pending = NoSelection, !.lease = 0]
  <2>1. d.room = room /\ Good(d) BY <1>1, DiscardApart, DiscardKeeps DEF Whole, Keeps
  <2>2. room' = [ForgetPending(d).room EXCEPT !.open = FALSE, !.content = 0, !.download = 0]
    BY <2>1, <1>5 DEF ForgetPending, Good, Shape, Close, Install
  <2> HIDE DEF d
  <2>3. ForgetPending(d).room = r BY <2>1 DEF ForgetPending, Good, Shape
  <2>4. Offers(room') /\ room'.selected = room.selected
    BY <1>0, <2>1, <2>2, <2>3 DEF Offers, NoSelection
  <2>. QED BY <1>0, <1>2, <1>5, <2>4, CloseTruth, ServedQuietly
<1>. QED BY <1>3, <1>4, <1>5

\* The steps of the guest, and what it loads.
Loads ==
  guest'.loaded # guest.loaded =>
    /\ guest'.loaded \in selected
    /\ guest'.loaded >= guest.wanted.selected
    /\ upload[guest'.loaded].data = guest.wanted.game

LEMMA LetGo ==
  ASSUME Served, Guest(Resting), selected' = selected
  PROVE  Asked' /\ guest'.loaded = guest.loaded
BY DEF Guest, Resting, Served, Asked

LEMMA GuestServed ==
  ASSUME Served, Ask \/ DownloadBegins \/ DownloadOpens \/ DownloadEnds
  PROVE  Served' /\ Loads
<1>0. Truth /\ Offers(room) /\ Asked /\ selected' = selected
  BY DEF Served, Ask, DownloadBegins, DownloadOpens, DownloadEnds
<1>1. Truth' BY <1>0, AsideTruth
<1>2. room.selected \in Nat /\ (room.content # 0 => room.content = room.selected /\ room.content \in selected)
  BY <1>0, SelectedNat DEF Offers
<1>4. Offers(room') /\ room'.selected = room.selected
  BY <1>0 DEF Offers, Ask, DownloadBegins, DownloadOpens, DownloadEnds, Ended
<1>5. CASE Guest(Resting) BY <1>0, <1>1, <1>4, <1>5, LetGo DEF Served, Loads
<1>6. CASE Ask BY <1>0, <1>2, <1>6, <1>1, <1>4 DEF Ask, Asked, Served, Loads
<1>7. CASE guest.phase = "asked" /\ room.content # 0 /\ Guest([guest EXCEPT !.phase = "opening", !.file = room.content])
  BY <1>0, <1>7, <1>2, <1>4, <1>1 DEF Guest, Asked, Served, Loads
<1>8. CASE guest.phase = "opening" /\ Guest([guest EXCEPT !.phase = "reading"])
  BY <1>0, <1>8, <1>4, <1>1 DEF Guest, Asked, Served, Loads
<1>9. CASE guest.phase = "reading" /\ Verified /\ guest' = [guest EXCEPT !.phase = "idle", !.loaded = guest.file]
  BY <1>0, <1>4, <1>9, <1>1 DEF Asked, Verified, Loads, Served
<1>. QED BY <1>5, <1>6, <1>7, <1>8, <1>9 DEF DownloadBegins, DownloadOpens, DownloadEnds

LEMMA NextServed ==
  ASSUME Served, [Next]_vars
  PROVE  Served' /\ (guest' = guest \/ Loads)
<1>0. Truth /\ Truth' BY NextTruth DEF Served
<1>1. CASE UNCHANGED <<room, guest, selected>> BY <1>0, <1>1, ServedQuietly DEF Served, Offers
<1>2. CASE Handle \/ Expire \/ Change \/ Close
  BY <1>2, HandleServed, RoomServed DEF Handle, Expire, Change, Close
<1>3. CASE \E i \in Intent : UploadArrives(i) \/ UploadOpens(i) \/ UploadReceives(i)
                       \/ UploadCommits(i) \/ UploadCut(i)
  BY <1>3, TransferServed DEF UploadArrives, UploadOpens, UploadReceives, UploadCommits, UploadCut
<1>4. CASE \E x \in Extraction : ExtractionBegins(x) \/ ExtractionStores(x) \/ ExtractionUnpacks(x)
                           \/ ExtractionEnds(x)
  BY <1>1, <1>4 DEF ExtractionBegins, ExtractionStores, ExtractionUnpacks, ExtractionEnds, Reserve
<1>5. CASE Select \/ Withdraw \/ Receive \/ Timeout \/ Uploaded \/ Retry \/ Reconcile \/ Overdue \/ Break \/ Reconnect
  BY <1>1, <1>5 DEF Select, Withdraw, Receive, Timeout, Uploaded, Retry, Reconcile, Overdue, Break, Reconnect
<1>6. CASE Restart BY <1>6, LetGo, <1>0 DEF Restart, Served, Offers, NoSelection, Loads
<1>7. CASE UNCHANGED vars BY <1>1, <1>7 DEF vars
<1>8. CASE Ask \/ DownloadBegins \/ DownloadOpens \/ DownloadEnds BY <1>8, GuestServed
<1>. QED BY <1>2, <1>3, <1>4, <1>5, <1>6, <1>7, <1>8 DEF Next

\* What a guest loads was confirmed by the host, is no older than the selection
\* the guest asked about, and has the bytes of the game the room had then,
\* whatever was selected, uploaded, withdrawn or replaced meanwhile (rooms.ts
\* beginDownload, confirmGameSelection; rom-store.ts upload, promote;
\* rom-acquisition.ts acquireVerifiedRom).
THEOREM LoadedIsExpected == Spec => GuestGetsTheGame
<1>1. Init => Served
  <2> SUFFICES ASSUME Init PROVE Served OBVIOUS
  <2>1. Truth BY InitTruth
  <2>2. Offers(room) /\ Asked BY DEF Init, Offers, Asked, NoSelection
  <2>. QED BY <2>1, <2>2 DEF Served
<1>2. Served /\ [Next]_vars => Served' BY NextServed
<1>3. Served /\ [Next]_vars
      => [guest'.loaded # guest.loaded =>
            /\ guest'.loaded \in selected
            /\ guest'.loaded >= guest.wanted.selected
            /\ upload[guest'.loaded].data = guest.wanted.game]_vars
  BY NextServed DEF Loads
<1>. QED BY <1>1, <1>2, <1>3, PTL DEF Spec, GuestGetsTheGame

=============================================================================
