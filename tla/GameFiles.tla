------------------------------ MODULE GameFiles ------------------------------
(***************************************************************************)
(* How a game gets into a room that has not started: the host's RoomClient *)
(* selects it and uploads the file, Rooms keeps the selection, RomStore    *)
(* the bytes, extractZip unpacks archives in the same space, and a guest   *)
(* downloads what the room plays.                                          *)
(*                                                                         *)
(* The n-th selection has intent n, and its upload, if it comes to one,    *)
(* the file n.  Commands and replies share a WebSocket that delivers in    *)
(* order and may break; every upload has a request of its own.  Handlers   *)
(* of the coordinator are atomic, uploads and extractions stop at every    *)
(* await.  Every file has the size 1.  Rate limits only refuse and are     *)
(* left out, as is the change of the cartridge of a started room.          *)
(***************************************************************************)
EXTENDS Naturals, Sequences, FiniteSets, FiniteSetsExt, TLC

CONSTANTS
  Game,
  Included,     \* the games of the catalog, which need no upload
  Damaged,      \* what a file may turn out to be
  Extraction,   \* bound: the archives that are unpacked
  Total,        \* bytes the store holds
  Concurrent,   \* uploads and extractions at a time
  Output,       \* bytes an archive unpacks to
  MaxSelect,    \* bound on selections
  MaxRequests,  \* bound on the commands the host waits for
  MaxBreaks,    \* bound on broken sockets
  MaxDownloads, \* bound on downloads
  MaxChanges    \* bound on other changes of the room

ASSUME GameFilesAssumption ==
  /\ Included \subseteq Game /\ Damaged \notin Game
  /\ {Total, Concurrent, Output} \subseteq Nat \ {0}
  /\ {MaxSelect, MaxRequests, MaxBreaks, MaxDownloads, MaxChanges} \subseteq Nat

VARIABLES
  room,        \* the room's game, selection and transfers
  store,       \* the file the room plays and the one selected for it
  files,       \* the files on the disk
  used,        \* bytes the store has promised
  upload,      \* the upload of each selection
  extraction,  \* the archives
  host,        \* the host's RoomClient
  up, down,    \* commands and replies on their way
  guest,       \* the guest's download
  told,        \* history: what the host was told of each selection
  selected     \* history: the selections that were confirmed

vars == <<room, store, files, used, upload, extraction, host, up, down, guest, told, selected>>

Intent == 1..MaxSelect

-----------------------------------------------------------------------------
(* RomStore.                                                               *)

Now == [room |-> room, store |-> store, files |-> files, used |-> used, upload |-> upload]
Install(st) ==
  /\ room' = st.room
  /\ store' = st.store
  /\ files' = st.files
  /\ used' = st.used
  /\ upload' = st.upload

NoSelection == [intent |-> 0, game |-> Damaged, content |-> 0]

\* discardEntry: whatever the room has there goes; its request, if it is not
\* over, is cut off.
DiscardEntry(st, place) ==
  LET i == st.store[place] IN
  IF i = 0 THEN st
  ELSE [st EXCEPT !.store[place] = 0, !.used = @ - 1, !.files = @ \ {i},
                  !.upload[i].cut = @ \/ ~st.upload[i].committed]

DiscardPending(st) == DiscardEntry(st, "pending")
Discard(st) == DiscardEntry(DiscardPending(st), "entries")

\* Mutation: the file that was played before is forgotten, not removed.
PromoteOver(st) == [st EXCEPT !.store = [entries |-> @.pending, pending |-> 0]]
\* promote: the selected file takes the place of the one before.
Promote(st) ==
  LET i == st.store.pending IN
  [DiscardEntry(st, "entries") EXCEPT !.store = [entries |-> i, pending |-> 0]]

Underway == {"open", "body", "sync"}
InFlight ==
  Cardinality({x \in Extraction : extraction[x].stage \notin {"none", "released"}})
  + Cardinality({place \in {"entries", "pending"} :
                   store[place] # 0 /\ ~upload[store[place]].committed})

-----------------------------------------------------------------------------
(* Rooms: the selection.                                                   *)

Reply(st, code) == [st |-> st, code |-> code]

SelectGame(st, intent, game, content) ==
  [st EXCEPT !.room = [st.room EXCEPT !.revision = @ + 1, !.game = game, !.content = content,
                         !.pending = NoSelection, !.lease = 0, !.selected = intent,
                         !.download = 0]]

ForgetPending(st) == [st EXCEPT !.room.pending = NoSelection, !.room.lease = 0]

Began(st, c) ==
  LET clean == IF st.room.pending.intent = 0 THEN st ELSE ForgetPending(DiscardPending(st))
      plays == SelectGame(clean, c.intent, c.game, 0)
  IN IF st.room.revision # c.revision THEN Reply(st, "room_changed")
     ELSE IF c.game \in Included
     THEN Reply(IF st.room.content = 0 THEN plays ELSE Discard(plays), "ok")
     ELSE Reply([clean EXCEPT !.room.pending = [intent |-> c.intent, game |-> c.game,
                                                content |-> 0]], "ok")

\* Mutation: the revision is compared before the intent is recognized.
ConfirmedFresh(st, c) ==
  LET p == st.room.pending IN
  IF st.room.revision # c.revision THEN Reply(st, "room_changed")
  ELSE IF st.room.selected = c.intent THEN Reply(st, "ok")
  ELSE IF p.intent # c.intent THEN Reply(st, "game_selection_changed")
  ELSE IF p.content = 0 \/ st.store.pending = 0 THEN Reply(st, "upload_required")
  ELSE Reply(SelectGame(Promote(st), c.intent, p.game, p.content), "ok")
\* confirmGameSelection: what is already selected is confirmed again.
Confirmed(st, c) ==
  LET p == st.room.pending IN
  CASE st.room.selected = c.intent -> Reply(st, "ok")
    [] st.room.selected # c.intent ->
         IF st.room.revision # c.revision THEN Reply(st, "room_changed")
         ELSE IF p.intent # c.intent THEN Reply(st, "game_selection_changed")
         ELSE IF p.content = 0 \/ st.store.pending = 0 THEN Reply(st, "upload_required")
         ELSE Reply(SelectGame(Promote(st), c.intent, p.game, p.content), "ok")

Cancelled(st, c) ==
  Reply(IF st.room.pending.intent = c.intent THEN ForgetPending(DiscardPending(st)) ELSE st, "ok")

Command(st, c) ==
  IF ~st.room.open THEN Reply(st, "not_in_room")
  ELSE CASE c.type = "begin"   -> Began(st, c)
         [] c.type = "confirm" -> Confirmed(st, c)
         [] OTHER              -> Cancelled(st, c)

\* The coordinator handles the host's next command.
Handle ==
  /\ up # <<>>
  /\ LET c == Head(up) result == Command(Now, c) IN
     /\ Install(result.st)
     /\ down' = IF c.n = 0 THEN down ELSE Append(down, [n |-> c.n, code |-> result.code])
     /\ selected' = selected \cup ({result.st.room.selected} \ {0})
  /\ up' = Tail(up)
  /\ UNCHANGED <<extraction, host, guest, told>>

\* sweep: five minutes after a selection began it is given up.
Expire ==
  /\ room.pending.intent # 0
  /\ Install(ForgetPending(DiscardPending(Now)))
  /\ UNCHANGED <<extraction, host, up, down, guest, told, selected>>

\* Slots, names and members change the revision of the room too.
Change ==
  /\ room.open /\ room.changes < MaxChanges
  /\ room' = [room EXCEPT !.revision = @ + 1, !.changes = @ + 1]
  /\ UNCHANGED <<store, files, used, upload, extraction, host, up, down, guest, told, selected>>

\* close: the files go with the room, the host is told.
Close ==
  /\ room.open
  /\ Install([ForgetPending(Discard(Now)) EXCEPT
       !.room = [@ EXCEPT !.open = FALSE, !.content = 0, !.download = 0]])
  /\ down' = IF host.connected THEN Append(down, [n |-> 0, code |-> "ended"]) ELSE down
  /\ UNCHANGED <<extraction, host, up, guest, told, selected>>

-----------------------------------------------------------------------------
(* RomStore.upload, from await to await.                                   *)

\* Whether the upload may go on: uploadProgress and the entry both say so.
Current(i) == room.open /\ room.lease = i /\ store.pending = i

\* The catch of upload: it discards what the room has there by now.
UploadFailed(i) ==
  Install([DiscardPending(Now) EXCEPT !.room.lease = IF @ = i THEN 0 ELSE @,
                                      !.files = @ \ {i}, !.upload[i].stage = "failed"])

\* beginUpload and reserve.  The loss of the host's socket may be known or not.
UploadArrives(i) ==
  /\ upload[i].stage = "sent"
  /\ LET p == room.pending
         free == used < Total /\ InFlight < Concurrent
         may == room.open /\ p.intent = i /\ p.content = 0 /\ room.lease = 0
     IN \/ /\ may /\ store.pending = 0 /\ free
           /\ Install([Now EXCEPT !.room.lease = i, !.store.pending = i, !.used = @ + 1,
                                  !.upload[i].stage = "open"])
        \/ /\ ~may \/ store.pending # 0 \/ ~free \/ ~host.connected
           /\ Install([Now EXCEPT !.upload[i].stage = "failed"])
  /\ UNCHANGED <<extraction, host, up, down, guest, told, selected>>

\* open: the file exists from now on, whether it is still wanted or not.
UploadOpens(i) ==
  /\ upload[i].stage = "open"
  /\ IF store.pending = i
     THEN Install([Now EXCEPT !.files = @ \cup {i}, !.upload[i].stage = "body"])
     ELSE UploadFailed(i)
  /\ UNCHANGED <<extraction, host, up, down, guest, told, selected>>

\* The last of the body arrives; or the request breaks off, brings too much or
\* too little, or stays away for 30 seconds.
UploadReceives(i) ==
  /\ upload[i].stage = "body"
  /\ \/ UploadFailed(i)
     \/ /\ Current(i) /\ ~upload[i].cut
        /\ Install([Now EXCEPT !.upload[i].stage = "sync"])
  /\ UNCHANGED <<extraction, host, up, down, guest, told, selected>>

Matches(i) == upload[i].data = upload[i].game

\* Mutation: a file is offered to guests as soon as it is committed.
UploadCommitsAtOnce(i) ==
  /\ upload[i].stage = "sync"
  /\ IF Matches(i) /\ i \in files /\ room.open /\ room.lease = i
     THEN Install([Now EXCEPT !.upload[i].stage = "done", !.upload[i].committed = TRUE,
                              !.room.pending.content = i, !.room.content = i, !.room.lease = 0])
     ELSE UploadFailed(i)
  /\ UNCHANGED <<extraction, host, up, down, guest, told, selected>>
\* The file is on the disk: it is checked, renamed and committed.
UploadCommits(i) ==
  /\ upload[i].stage = "sync"
  /\ IF Matches(i) /\ i \in files /\ room.open /\ room.lease = i
     THEN Install([Now EXCEPT !.upload[i].stage = "done", !.upload[i].committed = TRUE,
                              !.room.pending.content = i, !.room.lease = 0])
     ELSE UploadFailed(i)
  /\ UNCHANGED <<extraction, host, up, down, guest, told, selected>>

\* The connection of an upload breaks, or its five minutes are over.
UploadCut(i) ==
  /\ upload[i].stage \in {"sent"} \cup Underway /\ ~upload[i].cut
  /\ upload' = [upload EXCEPT ![i].cut = TRUE]
  /\ UNCHANGED <<room, store, files, used, extraction, host, up, down, guest, told, selected>>

-----------------------------------------------------------------------------
(* extractZip.                                                             *)

\* The archive's length may be declared, or become known as it arrives.
ExtractionBegins(x) ==
  /\ extraction[x].stage = "none"
  /\ InFlight < Concurrent
  /\ \E declared \in {0, 1} :
       /\ used + declared <= Total
       /\ extraction' = [extraction EXCEPT ![x] = [stage |-> "archive", archive |-> declared,
                                                   output |-> 0]]
       /\ used' = used + declared
  /\ UNCHANGED <<room, store, files, upload, host, up, down, guest, told, selected>>

\* Mutation: what is reserved again is counted again.
ReservedTwice(x, part, bytes) == bytes
\* reserve: the space grows by what is not reserved yet.
Increase(x, part, bytes) ==
  IF bytes > extraction[x][part] THEN bytes - extraction[x][part] ELSE 0

Reserve(x, from, to, part, bytes) ==
  /\ extraction[x].stage = from
  /\ LET more == Increase(x, part, bytes) IN
     /\ used + more <= Total
     /\ used' = used + more
     /\ extraction' = [extraction EXCEPT ![x].stage = to, ![x][part] = IF @ > bytes THEN @ ELSE bytes]
  /\ UNCHANGED <<room, store, files, upload, host, up, down, guest, told, selected>>

\* The archive is stored, its game is chosen and unpacked.
ExtractionStores(x) == Reserve(x, "archive", "stored", "archive", 1)
ExtractionUnpacks(x) == Reserve(x, "stored", "output", "output", Output)

\* finally: sent, refused, expired or cut off, the extraction ends.
ExtractionEnds(x) ==
  /\ extraction[x].stage \notin {"none", "released"}
  /\ used' = used - extraction[x].archive - extraction[x].output
  /\ extraction' = [extraction EXCEPT ![x] = [stage |-> "released", archive |-> 0, output |-> 0]]
  /\ UNCHANGED <<room, store, files, upload, host, up, down, guest, told, selected>>

-----------------------------------------------------------------------------
(* The host: selectLobbyGame and confirmSelection.                         *)

Idle == [intent |-> 0, game |-> Damaged, phase |-> "idle", revision |-> 0, tries |-> 0,
         waiting |-> 0]
Host(h) == [host EXCEPT !.intent = h.intent, !.game = h.game, !.phase = h.phase,
                        !.revision = h.revision, !.tries = h.tries, !.waiting = h.waiting]

Send(type, n, intent, game, revision) ==
  up' = IF host.connected
        THEN Append(up, [type |-> type, n |-> n, intent |-> intent, game |-> game,
                         revision |-> revision])
        ELSE up

\* A command the host waits for; it carries the revision the host goes by.
Request(type, phase, tries, intent, game, revision) ==
  /\ host.connected /\ host.asked < MaxRequests
  /\ Send(type, host.asked + 1, intent, game, revision)
  /\ host' = [host EXCEPT !.asked = @ + 1, !.waiting = host.asked + 1, !.phase = phase,
                          !.tries = tries, !.intent = intent, !.game = game,
                          !.revision = revision]

Tell(i, what) == told' = [told EXCEPT ![i] = what]

\* An intent that is being confirmed cannot be given up.
Confirming ==
  \/ host.phase \in {"confirm", "unknown"}
  \/ host.phase = "begin" /\ host.game \in Included

\* selectLobbyGame: a new selection begins.
Select ==
  /\ host.phase = "idle" /\ host.selections < MaxSelect /\ host.connected /\ room.open
  /\ \E game \in Game :
       /\ host.asked < MaxRequests
       /\ LET i == host.selections + 1 IN
          /\ host' = [host EXCEPT !.selections = i, !.asked = @ + 1, !.waiting = host.asked + 1,
                        !.phase = "begin", !.tries = 0, !.intent = i, !.game = game,
                        !.revision = room.revision]
          /\ Send("begin", host.asked + 1, i, game, room.revision)
  /\ UNCHANGED <<room, store, files, used, upload, extraction, down, guest, told, selected>>

\* cancelGameSelection, before the selection is confirmed.
Withdraw ==
  /\ host.intent # 0 /\ ~Confirming
  /\ host' = Host(Idle)
  /\ Send("cancel", 0, host.intent, host.game, 0)
  /\ upload' = [upload EXCEPT ![host.intent].cut = TRUE]
  /\ UNCHANGED <<room, store, files, used, extraction, down, guest, told, selected>>

\* The file is sent; it may not be what its fingerprint says.
Put(i) ==
  /\ host' = [host EXCEPT !.phase = "upload", !.waiting = 0]
  /\ \E data \in {host.game, Damaged} :
       upload' = [upload EXCEPT ![i].stage = "sent", ![i].game = host.game, ![i].data = data]
  /\ UNCHANGED <<up, told>>

Succeed == host' = Host(Idle) /\ Tell(host.intent, "selected") /\ UNCHANGED <<up, upload>>

\* The catch of selectLobbyGame: the coordinator is told to forget it too.
GiveUp ==
  /\ host' = Host(Idle)
  /\ Tell(host.intent, "failed")
  /\ Send("cancel", 0, host.intent, host.game, 0)
  /\ UNCHANGED upload

\* Nothing came back.  A confirmation is tried three times in 24 seconds, then
\* its outcome is unknown; a selection that is not confirmed yet has failed.
NoReply ==
  IF ~Confirming THEN GiveUp
  ELSE /\ host' = [host EXCEPT !.phase = IF host.tries < 3 THEN "confirm" ELSE "unknown",
                               !.waiting = 0]
       /\ UNCHANGED <<up, told, upload>>

\* setRoom without a room: the selection is over, its upload is cut off.
Dropped ==
  /\ host' = [Host(Idle) EXCEPT !.connected = TRUE]
  /\ upload' = [i \in Intent |-> [upload[i] EXCEPT !.cut = @ \/ i = host.intent]]

\* A reply arrives; one that is not waited for is dropped.
Receive ==
  /\ down # <<>> /\ down' = Tail(down)
  /\ LET reply == Head(down) IN
     \/ reply.code = "ended" /\ Dropped /\ UNCHANGED <<up, told>>
     \/ reply.code # "ended" /\ reply.n # host.waiting /\ UNCHANGED <<host, up, told, upload>>
     \/ /\ reply.n = host.waiting /\ reply.code \notin {"ok", "ended"} /\ GiveUp
     \/ /\ host.waiting # 0 /\ reply.n = host.waiting /\ reply.code = "ok"
        /\ IF Confirming THEN Succeed ELSE Put(host.intent)
  /\ UNCHANGED <<room, store, files, used, extraction, guest, selected>>

\* Eight seconds without a reply.
Timeout ==
  /\ host.waiting # 0 /\ NoReply
  /\ UNCHANGED <<room, store, files, used, extraction, down, guest, selected>>

\* The upload is answered, or its connection is lost; then it is confirmed.
Uploaded ==
  /\ host.phase = "upload"
  /\ LET i == host.intent IN
     \/ /\ upload[i].stage = "done" /\ ~upload[i].cut
        /\ IF host.connected
           THEN Request("confirm", "confirm", 1, i, host.game, room.revision)
           ELSE /\ host' = [host EXCEPT !.phase = "confirm", !.tries = 1, !.revision = room.revision]
                /\ UNCHANGED up
        /\ UNCHANGED <<told, upload>>
     \/ (upload[i].stage = "failed" \/ upload[i].cut) /\ GiveUp
  /\ UNCHANGED <<room, store, files, used, extraction, down, guest, selected>>

\* The next attempt to confirm, with the revision of the first.
Retry ==
  /\ host.phase = "confirm" /\ host.waiting = 0 /\ host.tries < 3
  /\ Request("confirm", "confirm", host.tries + 1, host.intent, host.game, host.revision)
  /\ UNCHANGED <<room, store, files, used, upload, extraction, down, guest, told, selected>>

\* reconcileGameSelection: the host asks again what became of it.
Reconcile ==
  /\ host.phase = "unknown"
  /\ Request("confirm", "confirm", 1, host.intent, host.game, host.revision)
  /\ UNCHANGED <<room, store, files, used, upload, extraction, down, guest, told, selected>>

\* The 24 seconds are over before three attempts are.
Overdue ==
  /\ host.phase = "confirm" /\ host.waiting = 0
  /\ host' = [host EXCEPT !.phase = "unknown"]
  /\ UNCHANGED <<room, store, files, used, upload, extraction, up, down, guest, told, selected>>

\* The socket breaks: what is on the way is lost, the request has no reply.
LinkLost ==
  /\ up' = <<>> /\ down' = <<>>
  /\ host' = LET lost == host.waiting # 0
                 fails == lost /\ ~Confirming
             IN [(IF fails THEN Host(Idle) ELSE host) EXCEPT
                  !.connected = FALSE, !.breaks = IF @ < MaxBreaks THEN @ + 1 ELSE @, !.waiting = 0,
                  !.phase = IF fails THEN "idle" ELSE IF lost THEN "confirm" ELSE @]
  /\ told' = IF host.waiting # 0 /\ ~Confirming THEN [told EXCEPT ![host.intent] = "failed"] ELSE told
Break ==
  /\ host.connected /\ host.breaks < MaxBreaks /\ LinkLost
  /\ UNCHANGED <<room, store, files, used, upload, extraction, guest, selected>>

\* A new socket: a selection for a room that is gone is over.
Reconnect ==
  /\ ~host.connected
  /\ IF room.open THEN host' = [host EXCEPT !.connected = TRUE] /\ UNCHANGED upload
     ELSE Dropped
  /\ UNCHANGED <<room, store, files, used, extraction, up, down, guest, told, selected>>

-----------------------------------------------------------------------------
(* The guest: acquireMemberRom, and the download behind it.                *)

Resting == [phase |-> "idle", expected |-> Damaged, file |-> 0]
Guest(g) == guest' = [guest EXCEPT !.phase = g.phase, !.expected = g.expected, !.file = g.file]

\* The guest asks for the game of the room as it knows it; what the room has
\* selected by then is history.
Ask ==
  /\ guest.phase = "idle" /\ guest.asked < MaxDownloads
  /\ room.open /\ room.game \in Game \ Included
  /\ guest' = [guest EXCEPT !.phase = "asked", !.expected = room.game, !.asked = @ + 1,
                            !.wanted = [selected |-> room.selected, game |-> room.game]]
  /\ UNCHANGED <<room, store, files, used, upload, extraction, host, up, down, told, selected>>

\* beginDownload.
DownloadBegins ==
  /\ guest.phase = "asked"
  /\ \/ /\ room.open /\ room.content # 0 /\ room.download = 0
        /\ room' = [room EXCEPT !.download = guest.asked]
        /\ Guest([guest EXCEPT !.phase = "opening", !.file = room.content])
     \/ ~(room.open /\ room.content # 0 /\ room.download = 0) /\ Guest(Resting) /\ UNCHANGED room
  /\ UNCHANGED <<store, files, used, upload, extraction, host, up, down, told, selected>>

\* endDownload.
Ended == room' = [room EXCEPT !.download = IF @ = guest.asked THEN 0 ELSE @]

\* The file is opened; an open file outlives its name.
DownloadOpens ==
  /\ guest.phase = "opening"
  /\ IF guest.file \in files THEN Guest([guest EXCEPT !.phase = "reading"]) /\ UNCHANGED room
     ELSE Guest(Resting) /\ Ended
  /\ UNCHANGED <<store, files, used, upload, extraction, host, up, down, told, selected>>

Verified == upload[guest.file].data = guest.expected

\* The file is read and verified, and loaded; the guest gives up when the room
\* it sees has changed, which it may see late.
DownloadEnds ==
  /\ guest.phase = "reading" /\ Ended
  /\ \/ /\ room.download = guest.asked /\ Verified
        /\ guest' = [guest EXCEPT !.phase = "idle", !.loaded = guest.file]
     \/ /\ room.download # guest.asked \/ ~Verified \/ room.game # guest.expected
        /\ Guest(Resting)
  /\ UNCHANGED <<store, files, used, upload, extraction, host, up, down, told, selected>>

-----------------------------------------------------------------------------

\* The coordinator stops, and starts again with the same directory: no room is
\* kept, and what its transfers left on the disk is removed (RomStore).
Restart ==
  /\ room.open
  /\ room' = [room EXCEPT !.open = FALSE, !.content = 0, !.download = 0, !.pending = NoSelection, !.lease = 0]
  /\ store' = [entries |-> 0, pending |-> 0] /\ used' = 0 /\ files' = {}
  /\ upload' = [i \in Intent |-> IF upload[i].stage \in Underway
                                THEN [upload[i] EXCEPT !.stage = "failed", !.cut = TRUE] ELSE upload[i]]
  /\ extraction' = [x \in Extraction |-> [stage |-> IF extraction[x].stage = "none" THEN "none" ELSE "released",
                                          archive |-> 0, output |-> 0]]
  /\ Guest(Resting) /\ LinkLost /\ UNCHANGED selected

-----------------------------------------------------------------------------

Init ==
  /\ room = [open |-> TRUE, revision |-> 0, changes |-> 0, game |-> Damaged, content |-> 0,
             pending |-> NoSelection, lease |-> 0, selected |-> 0, download |-> 0]
  /\ store = [entries |-> 0, pending |-> 0]
  /\ files = {}
  /\ used = 0
  /\ upload = [i \in Intent |-> [stage |-> "none", game |-> Damaged, data |-> Damaged,
                                 cut |-> FALSE, committed |-> FALSE]]
  /\ extraction = [x \in Extraction |-> [stage |-> "none", archive |-> 0, output |-> 0]]
  /\ host = [intent |-> 0, game |-> Damaged, phase |-> "idle", revision |-> 0, tries |-> 0, waiting |-> 0,
             connected |-> TRUE, asked |-> 0, selections |-> 0, breaks |-> 0]
  /\ up = <<>>
  /\ down = <<>>
  /\ guest = [phase |-> "idle", expected |-> Damaged, file |-> 0, loaded |-> 0, asked |-> 0,
            wanted |-> [selected |-> 0, game |-> Damaged]]
  /\ told = [i \in Intent |-> "nothing"]
  /\ selected = {}

Next ==
  \/ Handle \/ Expire \/ Change \/ Close
  \/ \E i \in Intent : UploadArrives(i) \/ UploadOpens(i) \/ UploadReceives(i)
                       \/ UploadCommits(i) \/ UploadCut(i)
  \/ \E x \in Extraction : ExtractionBegins(x) \/ ExtractionStores(x) \/ ExtractionUnpacks(x)
                           \/ ExtractionEnds(x)
  \/ Select \/ Withdraw \/ Receive \/ Timeout \/ Uploaded \/ Retry \/ Reconcile \/ Overdue
  \/ Break \/ Reconnect \/ Restart
  \/ Ask \/ DownloadBegins \/ DownloadOpens \/ DownloadEnds

Spec == Init /\ [][Next]_vars

-----------------------------------------------------------------------------
(* Properties.                                                             *)

\* The space that is promised is the space of the files and archives that are
\* there, it never exceeds the store, and neither do the transfers under way.
BudgetExact ==
  /\ used = Cardinality({place \in {"entries", "pending"} : store[place] # 0})
            + MapThenSumSet(LAMBDA x : extraction[x].archive + extraction[x].output, Extraction)
  /\ used <= Total
  /\ InFlight <= Concurrent

\* No file outlives its use: it is the room's, or an upload will remove it.
NoFileLeft ==
  \A i \in files : i \in {store.entries, store.pending} \/ upload[i].stage \in Underway

\* What the host is told of a selection is true, whatever replies were lost:
\* a confirmed one was made, one that failed never is.
SelectionTruthful ==
  \A i \in Intent : /\ told[i] = "selected" => i \in selected
                    /\ told[i] = "failed" => i \notin selected

\* A guest loads a file that its host confirmed for the room, no older than the
\* selection it asked about, and with the bytes of the game the room had then:
\* never one that was uploaded but not confirmed, was withdrawn, or had been
\* replaced, whatever happens to the room while the guest waits and reads.
GuestGetsTheGame ==
  [][guest'.loaded # guest.loaded =>
       /\ guest'.loaded \in selected
       /\ guest'.loaded >= guest.wanted.selected
       /\ upload[guest'.loaded].data = guest.wanted.game]_vars
=============================================================================
