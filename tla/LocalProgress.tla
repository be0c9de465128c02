--------------------------- MODULE LocalProgress ---------------------------
(* What the tabs of a browser keep of one game in one database: its battery  *)
(* memory (client player.ts), the automatic captures of a host               *)
(* (host-recovery.ts) and the game file itself (rom-library.ts,              *)
(* rom-acquisition.ts), written through the transactions of saves.ts.        *)
(*                                                                           *)
(* Memory is the set of the marks of progress it holds.  A behaviour has one *)
(* of the three kinds of rows, which share only the generation that a clear  *)
(* raises; a host's game is there as long as its tab.  What is left out:     *)
(* manual save slots and preferences, a rewind or a loaded state, by which a *)
(* player takes progress back, and the preview of a game that is loaded.     *)
EXTENDS Integers, Sequences, FiniteSets, Functions

CONSTANTS
  Tab,         \* the open tabs
  None,        \* no record, no machine, no session
  MaxProgress, \* bound: marks of progress
  MaxWrites,   \* bound: records written
  MaxLoads,    \* bound: games loaded
  MaxRecoveries, \* bound: recoveries, and reads before a game is kept
  MaxLoading,  \* bound: tabs that load a game at the same time
  MaxClears    \* bound: clears and deletions

VARIABLES
  rows,    \* the kind of rows: "battery", "captures" or "games"
  store,   \* the database: the rows, the generation, the recovery revision, the deletions of the game
  tab,     \* each tab's player
  puts,    \* battery transactions that have not ended
  host,    \* each tab's recovery capture
  recover, \* each tab's recovery from a capture, or None
  keep,    \* the versions that each tab read before it stores the game, or None
  clear,   \* the generation each tab is clearing, or None
  used     \* how much of each bound is used

\* Memory as a machine exports it, its record, what a tab knows of it, and the
\* machine; there may be none of each.
Progress == SUBSET Nat
Export == [mem : Progress]
Record == [mem : Progress, savedAt : Nat, generation : Nat]
BatterySession ==
  [record : Record \cup {None}, generation : Nat, enabled : BOOLEAN, writing : {"no", "exporting", "putting"},
   out : Export \cup Record \cup {None}]
Emulator == [mem : Progress, session : BatterySession \cup {None}, issue : BOOLEAN]

ASSUME NoneAssumption == None \notin Export \cup Record \cup BatterySession \cup Emulator

vars == <<rows, store, tab, puts, host, recover, keep, clear, used>>

Player == [active |-> None, stage |-> "none", cand |-> None, prev |-> None, owed |-> {}, quitting |-> FALSE]
Machine(mem, session, issue) == [mem |-> mem, session |-> session, issue |-> issue]
NewSession(record, generation, enabled) ==
  [record |-> record, generation |-> generation, enabled |-> enabled, writing |-> "no", out |-> None]

\* A host's game is loaded with its room.
Opening == IF rows = "captures" THEN [Player EXCEPT !.active = Machine({}, None, FALSE)] ELSE Player
Empty(generation) ==
  [generation |-> generation, battery |-> None, recovery |-> None, revision |-> 0, game |-> None, deletions |-> 0]

Init ==
  /\ rows \in {"battery", "captures", "games"}
  /\ store = Empty(0)
  /\ tab = [t \in Tab |-> Opening]
  /\ puts = {}
  /\ host = [t \in Tab |-> None] /\ recover = [t \in Tab |-> None] /\ keep = [t \in Tab |-> None]
  /\ clear = [t \in Tab |-> None]
  /\ used = [progress |-> 0, writes |-> 0, loads |-> 0, clears |-> 0]

-----------------------------------------------------------------------------
(* Battery memory is written (player.ts).                                  *)

\* Only the session of the active machine is written, one write at a time, and
\* not while its cartridge may still be taken back.
MayPersist(x) ==
  /\ x.active # None /\ x.active.session # None /\ x.stage # "swapped"
  /\ x.active.session.enabled /\ x.active.session.writing = "no"
\* The worker exports what it holds when it is asked.
Persisting(x) == [x EXCEPT !.active.session.writing = "exporting", !.active.session.out = [mem |-> x.active.mem]]
Writing(x) == x.active # None /\ x.active.session # None /\ x.active.session.writing # "no"

Rested(session) == [session EXCEPT !.writing = "no", !.out = None]

Play(t) ==
  /\ tab[t].active # None /\ used.progress < MaxProgress
  /\ used' = [used EXCEPT !.progress = @ + 1]
  /\ tab' = [tab EXCEPT ![t].active.mem = @ \cup {used.progress + 1}]
  /\ UNCHANGED <<rows, recover, keep, store, puts, host, clear>>

\* Every ten seconds, and whenever the page loses the focus or is hidden.
Autosave(t) ==
  /\ MayPersist(tab[t]) /\ used.writes < MaxWrites
  /\ tab' = [tab EXCEPT ![t] = Persisting(@)]
  /\ UNCHANGED <<rows, recover, keep, store, puts, host, clear, used>>

\* The export has arrived, and the record is put; or it failed, and is shown.
Exported(t) ==
  /\ Writing(tab[t]) /\ tab[t].active.session.writing = "exporting"
  /\ LET session == tab[t].active.session
         record == [mem |-> session.out.mem, savedAt |-> used.writes + 1, generation |-> session.generation]
     IN \/ /\ used.writes < MaxWrites /\ used' = [used EXCEPT !.writes = @ + 1]
           /\ puts' = puts \cup {[tab |-> t, record |-> record, expected |-> session.record]}
           /\ tab' = [tab EXCEPT ![t].active.session = [session EXCEPT !.writing = "putting", !.out = record]]
        \/ /\ tab' = [tab EXCEPT ![t] = [tab[t] EXCEPT
                  !.active = [tab[t].active EXCEPT !.issue = TRUE, !.session = Rested([session EXCEPT !.enabled = FALSE])],
                  !.owed = {}]]
           /\ UNCHANGED <<puts, used>>
  /\ UNCHANGED <<rows, recover, keep, store, host, clear>>
\* The export of a machine that was replaced meanwhile is dropped.
ExportDropped(t) ==
  /\ tab[t].prev # None /\ tab[t].prev.session # None /\ tab[t].prev.session.writing = "exporting"
  /\ tab' = [tab EXCEPT ![t].prev.session = Rested(@)]
  /\ UNCHANGED <<rows, recover, keep, store, puts, host, clear, used>>

\* putBattery: nothing was cleared since the session was opened, and the record
\* is the one the session knows.
\* Mutation: a session that was opened before everything was cleared.
AcceptsOld(p) == store.battery = p.expected
Accepts(p) == p.record.generation = store.generation /\ store.battery = p.expected
\* The end of a put, for the session that waits for it.
Resolved(machine, p, done, shown) ==
  IF machine = None \/ machine.session = None THEN machine
  ELSE IF machine.session.writing # "putting" \/ machine.session.out # p.record THEN machine
  ELSE [machine EXCEPT !.session = Rested([machine.session EXCEPT !.record = IF done THEN p.record ELSE @,
                                                                  !.enabled = @ /\ done]),
                       !.issue = IF shown THEN ~done ELSE @]
Awaited(p) == Writing(tab[p.tab]) /\ tab[p.tab].active.session.out = p.record
Put(p) ==
  /\ \E done \in {Accepts(p), FALSE} :
       /\ store' = [store EXCEPT !.battery = IF done THEN p.record ELSE @]
       /\ tab' = [tab EXCEPT ![p.tab] = [tab[p.tab] EXCEPT
             !.active = Resolved(@, p, done, TRUE), !.prev = Resolved(@, p, done, FALSE),
             !.owed = IF done \/ ~Awaited(p) THEN @ ELSE {}]]
  /\ puts' = puts \ {p}
  /\ UNCHANGED <<rows, recover, keep, host, clear, used>>

\* retryBatteryPersistence: a record that the session does not know, or that it
\* could not restore, is never replaced.
\* Mutation: the record it could not restore is known, too.
RetriesKnown(session) == store.battery \in {None, session.record}
Retries(session) == store.battery = None \/ (store.battery = session.record /\ session.enabled)
Retry(t) ==
  /\ tab[t].active # None /\ tab[t].active.session # None /\ ~tab[t].quitting /\ used.writes < MaxWrites
  /\ Retries(tab[t].active.session)
  /\ LET x == [tab[t] EXCEPT !.active.session = [@ EXCEPT !.record = store.battery,
                                 !.generation = store.generation, !.enabled = TRUE]]
     IN tab' = [tab EXCEPT ![t] = IF MayPersist(x) THEN Persisting(x) ELSE x]
  /\ UNCHANGED <<rows, recover, keep, store, puts, host, clear, used>>

-----------------------------------------------------------------------------
(* A game is loaded beside the active one, and replaces it (load).         *)

\* rejectPending: an export that was asked for is given up.
Aborted(machine) ==
  IF machine = None \/ machine.session = None \/ machine.session.writing # "exporting" THEN machine
  ELSE [machine EXCEPT !.session = Rested(@)]
\* abandonCandidate: a cartridge that was swapped in is taken back.
Abandon(x, terminal) ==
  [x EXCEPT !.active = CASE x.stage = "swapped" /\ terminal -> None
                         [] x.stage = "swapped" /\ ~terminal -> x.prev
                         [] OTHER -> IF terminal THEN Aborted(@) ELSE @,
            !.stage = "none", !.cand = None, !.prev = None, !.owed = {}]

Step(t, x) == tab' = [tab EXCEPT ![t] = x] /\ UNCHANGED <<rows, recover, keep, store, puts, host, clear>>

Load(t) ==
  /\ rows = "battery" /\ used.loads < MaxLoads /\ ~tab[t].quitting
  /\ Cardinality({u \in Tab \ {t} : tab[u].stage # "none"}) < MaxLoading
  /\ used' = [used EXCEPT !.loads = @ + 1]
  /\ Step(t, [Abandon(tab[t], FALSE) EXCEPT !.stage = "reading"])
\* The candidate is ready: the active machine is flushed first.
Ready(t) ==
  /\ tab[t].stage = "reading" /\ used' = used
  /\ LET x == [tab[t] EXCEPT !.stage = "flushing"]
         saving == IF MayPersist(x) THEN Persisting(x) ELSE x
     IN Step(t, [saving EXCEPT !.owed = IF Writing(saving) THEN saving.active.session.out.mem ELSE {}])
\* Mutation: the flush is begun, and not awaited.
FlushBegun(t) == TRUE
Flushed(t) == ~Writing(tab[t])
\* prepareBattery: the record is read, or could not be.
Opened(t) ==
  /\ tab[t].stage = "flushing" /\ Flushed(t) /\ used' = used
  /\ \E machine \in {Machine({}, NewSession(None, 0, FALSE), TRUE), Machine({}, None, TRUE),
                     Machine({}, NewSession(store.battery, store.generation, store.battery = None), FALSE)} :
       Step(t, [tab[t] EXCEPT !.cand = machine,
                     !.stage = IF machine.session # None /\ machine.session.record # None THEN "importing" ELSE "ready"])
Imported(t) ==
  /\ tab[t].stage = "importing" /\ used' = used
  /\ \E ok \in BOOLEAN :
       Step(t, [tab[t] EXCEPT !.stage = "ready",
                  !.cand = IF ok THEN [tab[t].cand EXCEPT !.mem = @ \cup tab[t].cand.session.record.mem,
                                                          !.session.enabled = TRUE]
                           ELSE [@ EXCEPT !.issue = TRUE]])
\* commit: the former machine ends, whatever it was asked for.
Commit(t) ==
  /\ tab[t].stage = "ready" /\ used' = used
  /\ Step(t, [tab[t] EXCEPT !.active = tab[t].cand, !.cand = None, !.stage = "none", !.owed = {}])

\* A cartridge that all members of a room change together keeps the former
\* machine until all have it (prepareSharedSave, commitSharedSave, finishSharedSave).
Stage(t) == tab[t].stage = "ready" /\ used' = used /\ Step(t, [tab[t] EXCEPT !.stage = "staged"])
Swap(t) ==
  /\ tab[t].stage = "staged" /\ tab[t].active # None /\ used' = used
  /\ Step(t, [tab[t] EXCEPT !.active = tab[t].cand, !.prev = tab[t].active, !.cand = None, !.stage = "swapped", !.owed = {}])
Finish(t) == tab[t].stage = "swapped" /\ used' = used /\ Step(t, [tab[t] EXCEPT !.prev = None, !.stage = "none"])

\* The selection is cancelled or fails, or the room takes the change back; a
\* member that leaves the room gives up what it has swapped in.
Dropped(t) ==
  /\ tab[t].stage # "none" /\ used' = used
  /\ \E terminal \in BOOLEAN : Step(t, Abandon(tab[t], terminal))

\* The emulator stops, or the tab is reloaded.
Stopped(t) ==
  /\ rows = "battery" /\ tab[t].active # None /\ tab[t].stage # "swapped" /\ used' = used
  /\ Step(t, [tab[t] EXCEPT !.active = None, !.owed = {}, !.quitting = FALSE])
Reload(t) ==
  /\ <<tab[t], keep[t]>> # <<Opening, None>> /\ tab' = [tab EXCEPT ![t] = Opening]
  /\ host' = [host EXCEPT ![t] = None] /\ clear' = [clear EXCEPT ![t] = None]
  /\ recover' = [recover EXCEPT ![t] = None] /\ keep' = [keep EXCEPT ![t] = None]
  /\ UNCHANGED <<rows, store, puts, used>>
\* quit: the last write is awaited.
Quit(t) ==
  /\ rows = "battery" /\ tab[t].active # None /\ ~tab[t].quitting /\ used' = used
  /\ LET x == [Abandon(tab[t], TRUE) EXCEPT !.quitting = TRUE]
     IN Step(t, IF tab[t].stage # "swapped" /\ ~Writing(tab[t]) /\ MayPersist(x) THEN Persisting(x) ELSE x)
QuitEnds(t) ==
  /\ tab[t].quitting /\ ~Writing(tab[t]) /\ used' = used
  /\ Step(t, [tab[t] EXCEPT !.active = None, !.quitting = FALSE])

-----------------------------------------------------------------------------
(* The host's automatic captures (host-recovery.ts).                       *)

Host == [active |-> TRUE, current |-> TRUE, pending |-> FALSE, writing |-> "no",
         stored |-> [generation |-> store.generation, record |-> store.recovery], last |-> None, out |-> None]
Owns(h) == h.active /\ h.current
Halt(h) == IF h = None THEN None ELSE [h EXCEPT !.active = FALSE, !.pending = FALSE]
Capturing(t, h) == host' = [host EXCEPT ![t] = h] /\ UNCHANGED <<rows, recover, keep, tab, puts, clear>>
\* save has ended: drain takes what is pending.
Drained(h) ==
  IF h.pending /\ Owns(h) THEN [h EXCEPT !.pending = FALSE, !.writing = "exporting", !.out = None]
  ELSE [h EXCEPT !.writing = "no", !.out = None]
\* A failure ends the captures and is shown, as long as they are wanted.
Broken(h) == Drained(IF Owns(h) THEN Halt(h) ELSE h)

HostBegins(t) ==
  /\ rows = "captures" /\ tab[t].active # None /\ recover[t] = None
  /\ host[t] # None => ~host[t].active /\ host[t].writing = "no"
  /\ Capturing(t, Host) /\ UNCHANGED <<store, used>>
HostEnds(t) == host[t] # None /\ host[t].active /\ Capturing(t, Halt(host[t])) /\ UNCHANGED <<store, used>>
\* A load, a recovery, or a departure that is under way suspends it.
HostSuspends(t) ==
  /\ host[t] # None /\ host[t].active /\ recover[t] = None
  /\ Capturing(t, [host[t] EXCEPT !.current = ~@]) /\ UNCHANGED <<store, used>>
\* capture: every thirty seconds, and when the game is paused.
Capture(t) ==
  /\ host[t] # None /\ Owns(host[t]) /\ used.writes < MaxWrites
  /\ Capturing(t, IF host[t].writing = "no" THEN [host[t] EXCEPT !.writing = "exporting"] ELSE [host[t] EXCEPT !.pending = TRUE])
  /\ UNCHANGED <<store, used>>
\* The machine's state arrives: a state that was captured before is not stored.
Captured(t) ==
  /\ host[t] # None /\ host[t].writing = "exporting" /\ used.writes < MaxWrites
  /\ LET h == host[t]
         mem == IF tab[t].active = None THEN {} ELSE tab[t].active.mem
         known == h.last = mem \/ (h.stored.record # None /\ h.stored.record.captures[1] = mem)
     IN \/ Capturing(t, IF ~Owns(h) \/ mem = {} \/ known THEN Drained(h) ELSE [h EXCEPT !.writing = "putting", !.out = mem])
        \/ Capturing(t, Broken(h))
  /\ UNCHANGED <<store, used>>
\* changeRecovery: the row is the one that was read, in the same generation.
Unchanged(h) ==
  /\ h.stored.generation = store.generation
  /\ h.stored.record = None <=> store.recovery = None
  /\ store.recovery # None => h.stored.record.revision = store.recovery.revision
Stored(t) ==
  /\ host[t] # None /\ host[t].writing = "putting"
  /\ LET h == host[t]
         row == [revision |-> store.revision + 1, generation |-> h.stored.generation,
                 captures |-> IF h.stored.record = None THEN <<h.out>> ELSE <<h.out, h.stored.record.captures[1]>>]
     IN \/ /\ Owns(h) /\ Unchanged(h)
           /\ store' = [store EXCEPT !.recovery = row, !.revision = @ + 1]
           /\ used' = [used EXCEPT !.writes = @ + 1]
           /\ Capturing(t, [h EXCEPT !.writing = "stored", !.out = row])
        \/ Capturing(t, Broken(h)) /\ UNCHANGED <<store, used>>
\* The transaction has ended: an owner that is suspended by then forgets it.
Captures(t) ==
  /\ host[t] # None /\ host[t].writing = "stored"
  /\ LET h == host[t]
     IN Capturing(t, Drained(IF Owns(h) THEN [h EXCEPT !.stored.record = h.out, !.last = h.out.captures[1]] ELSE h))
  /\ UNCHANGED <<store, used>>

\* recoverLiveHost: a fresh game is to continue from one of the two captures.
StoredCurrent(r) ==
  store.generation = r.generation /\ store.recovery # None /\ store.recovery.revision = r.revision
RecoveryRead(t) ==
  /\ recover[t] = None /\ store.recovery # None /\ used.loads < MaxRecoveries
  /\ tab[t].active # None /\ tab[t].active.mem = {} /\ (host[t] # None => ~Owns(host[t]))
  /\ used' = [used EXCEPT !.loads = @ + 1]
  /\ \E capture \in Range(store.recovery.captures) :
       recover' = [recover EXCEPT ![t] = [generation |-> store.generation, revision |-> store.recovery.revision,
                                          mem |-> capture, committing |-> FALSE]]
  /\ UNCHANGED <<rows, store, tab, puts, host, keep, clear>>
\* The worker has prepared it, and its row is still the one that is stored when
\* the worker is told to commit (importPeerCheckpoint).
RecoveryCommitted(t) ==
  /\ recover[t] # None /\ ~recover[t].committing /\ StoredCurrent(recover[t])
  /\ recover' = [recover EXCEPT ![t].committing = TRUE]
  /\ UNCHANGED <<rows, store, tab, puts, host, keep, clear, used>>
\* The import ends, done or not; or what was prepared is refused or cancelled.
RecoveryEnded(t) ==
  /\ recover[t] # None /\ recover' = [recover EXCEPT ![t] = None]
  /\ \/ UNCHANGED tab
     \/ recover[t].committing /\ tab[t].active # None /\ tab' = [tab EXCEPT ![t].active.mem = recover[t].mem]
  /\ UNCHANGED <<rows, store, puts, host, keep, clear, used>>

-----------------------------------------------------------------------------
(* The game file is kept (saves.ts).                                       *)

Versions == [generation |-> store.generation, deletions |-> store.deletions]
\* readRom, before a file that the player added is kept, whether it was there or
\* not (rememberImport), or one that was not there is downloaded.
GameRead(t) ==
  /\ rows = "games" /\ keep[t] = None /\ used.loads < MaxRecoveries
  /\ used' = [used EXCEPT !.loads = @ + 1]
  /\ keep' = [keep EXCEPT ![t] = Versions]
  /\ UNCHANGED <<rows, store, tab, puts, host, recover, clear>>
\* putRom: nothing was cleared, and the game was not deleted, since then.
\* Mutation: only a clear is looked for.
KeepsDeleted(versions) == versions.generation = store.generation
Keeps(versions) == versions = Versions
GamePut(t) ==
  /\ keep[t] # None /\ keep' = [keep EXCEPT ![t] = None]
  /\ \E done \in {Keeps(keep[t]), FALSE} : store' = [store EXCEPT !.game = IF done THEN keep[t] ELSE @]
  /\ UNCHANGED <<rows, tab, puts, host, recover, clear, used>>
\* deleteRom.
GameDeleted ==
  /\ rows = "games" /\ used.writes < MaxWrites /\ used' = [used EXCEPT !.writes = @ + 1]
  /\ store' = [store EXCEPT !.game = None, !.deletions = @ + 1]
  /\ UNCHANGED <<rows, tab, puts, host, recover, keep, clear>>

-----------------------------------------------------------------------------
(* Local data is deleted (LocalData.tsx).                                  *)

\* beforeClear: what would write again by itself is stopped.
ClearAsked(t) ==
  /\ clear[t] = None /\ used.clears < MaxClears /\ used' = [used EXCEPT !.clears = @ + 1]
  /\ clear' = [clear EXCEPT ![t] = store.generation]
  /\ host' = [host EXCEPT ![t] = Halt(@)]
  /\ tab' = [tab EXCEPT ![t].active = IF @ = None \/ @.session = None THEN @ ELSE [@ EXCEPT !.session.enabled = FALSE]]
  /\ UNCHANGED <<rows, recover, keep, store, puts>>
Cleared(t) ==
  /\ clear[t] # None /\ clear' = [clear EXCEPT ![t] = None]
  /\ \/ /\ clear[t] = store.generation
        /\ store' = Empty(store.generation + 1)
        /\ tab' = [u \in Tab |-> [tab[u] EXCEPT !.owed = {}]]
     \/ UNCHANGED <<store, tab>>
  /\ UNCHANGED <<rows, recover, keep, puts, host, used>>
\* deleteBattery, or a recovery the player did not want.
Deleted ==
  /\ used.clears < MaxClears /\ used' = [used EXCEPT !.clears = @ + 1]
  /\ store.battery # None \/ store.recovery # None
  /\ store' = [store EXCEPT !.battery = None, !.recovery = None,
                            !.revision = IF store.recovery # None THEN @ + 1 ELSE @]
  /\ tab' = [u \in Tab |-> [tab[u] EXCEPT !.owed = {}]]
  /\ UNCHANGED <<rows, recover, keep, puts, host, clear>>

Next ==
  \/ \E t \in Tab : \/ Play(t) \/ Autosave(t) \/ Exported(t) \/ ExportDropped(t) \/ Retry(t)
                    \/ Load(t) \/ Ready(t) \/ Opened(t) \/ Imported(t) \/ Commit(t)
                    \/ Stage(t) \/ Swap(t) \/ Finish(t) \/ Dropped(t)
                    \/ Stopped(t) \/ Reload(t) \/ Quit(t) \/ QuitEnds(t)
                    \/ HostBegins(t) \/ HostEnds(t) \/ HostSuspends(t) \/ Capture(t) \/ Captured(t)
                    \/ Stored(t) \/ Captures(t) \/ ClearAsked(t) \/ Cleared(t)
                    \/ RecoveryRead(t) \/ RecoveryCommitted(t) \/ RecoveryEnded(t)
                    \/ GameRead(t) \/ GamePut(t)
  \/ Deleted \/ GameDeleted
  \/ \E p \in puts : Put(p)

Spec == Init /\ [][Next]_vars

-----------------------------------------------------------------------------
(* Properties.                                                             *)

\* However many tabs play the same game, progress that is stored is replaced
\* only by progress that continues it, and the capture before is kept.
NoLostUpdate ==
  [][/\ store.battery # None /\ store'.battery # None => store.battery.mem \subseteq store'.battery.mem
     /\ store.recovery # None /\ store'.recovery # None /\ store'.recovery # store.recovery
        => store'.recovery.captures[2] = store.recovery.captures[1]]_vars

\* What was deleted with all local data does not come back by itself: a record
\* is of a session that was opened, or retried by its player, since then.  Nor
\* does a game come back, deleted alone or with the rest, that a tab was still
\* downloading or adding.
ClearedStaysCleared ==
  /\ \A row \in {store.battery, store.recovery, store.game} \ {None} : row.generation = store.generation
  /\ store.game # None => store.game.deletions = store.deletions

\* A game that is selected again continues from what this tab had to save then,
\* unless the player is told that it could not.
OwnProgressRead ==
  \A t \in Tab : tab[t].stage \in {"ready", "staged"} /\ tab[t].cand.session # None
    => tab[t].cand.issue \/ tab[t].owed \subseteq tab[t].cand.mem
=============================================================================
