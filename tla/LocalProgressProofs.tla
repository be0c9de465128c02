------------------------- MODULE LocalProgressProofs -------------------------
(* What is cleared or deleted stays so, and progress that is kept is never   *)
(* lost, for any number of tabs and however long they run.                   *)
EXTENDS LocalProgress, TLAPS

\* The database has its six fields, and every row in it is of the generation,
\* and the game of the deletions, in force.
Kept ==
  /\ store = [generation |-> store.generation, battery |-> store.battery, recovery |-> store.recovery,
              revision |-> store.revision, game |-> store.game, deletions |-> store.deletions]
  /\ ClearedStaysCleared

\* An empty database has no row that could be an old one.
LEMMA EmptyKept ==
  ASSUME NEW generation, store = Empty(generation)
  PROVE  Kept
BY DEF Kept, ClearedStaysCleared, Empty

\* A step that leaves the database alone.
LEMMA KeptUnchanged ==
  ASSUME Kept, UNCHANGED store
  PROVE  Kept'
BY DEF Kept, ClearedStaysCleared

\* putBattery looks at the generation of the record it puts.
LEMMA PutKept ==
  ASSUME Kept, NEW p \in puts, Put(p)
  PROVE  Kept'
<1>1. PICK done \in {Accepts(p), FALSE} :
        store' = [store EXCEPT !.battery = IF done THEN p.record ELSE @]
  BY DEF Put
<1>2. CASE done BY <1>1, <1>2 DEF Accepts, Kept, ClearedStaysCleared
<1>3. CASE ~done BY <1>1, <1>3 DEF Kept, ClearedStaysCleared
<1>. QED BY <1>2, <1>3

\* changeRecovery writes a row of the generation its owner read, which is the
\* one in force (Unchanged).
LEMMA StoredKept ==
  ASSUME Kept, NEW t \in Tab, Stored(t)
  PROVE  Kept'
<1>1. CASE UNCHANGED store BY <1>1, KeptUnchanged
<1>2. ASSUME NEW row, store' = [store EXCEPT !.recovery = row, !.revision = @ + 1],
             row.generation = store.generation
      PROVE  Kept'
  BY <1>2 DEF Kept, ClearedStaysCleared
<1>3. QED BY <1>1, <1>2 DEF Stored, Unchanged

\* putRom compares both versions with the ones in force.
LEMMA GamePutKept ==
  ASSUME Kept, NEW t \in Tab, GamePut(t)
  PROVE  Kept'
<1>1. PICK done \in {Keeps(keep[t]), FALSE} :
        store' = [store EXCEPT !.game = IF done THEN keep[t] ELSE @]
  BY DEF GamePut
<1>2. CASE done
  <2>1. Keeps(keep[t]) BY <1>2
  <2>2. keep[t].generation = store.generation /\ keep[t].deletions = store.deletions
    BY <2>1 DEF Keeps, Versions
  <2>. QED BY <1>1, <1>2, <2>2 DEF Kept, ClearedStaysCleared
<1>3. CASE ~done BY <1>1, <1>3 DEF Kept, ClearedStaysCleared
<1>. QED BY <1>2, <1>3

\* A clear empties the database under the next generation.
LEMMA ClearedKept ==
  ASSUME Kept, NEW t \in Tab, Cleared(t)
  PROVE  Kept'
BY KeptUnchanged DEF Kept, ClearedStaysCleared, Empty, Cleared

\* The completions of a deletion preserve what is kept.
LEMMA DeletedKept ==
  ASSUME Kept, Deleted \/ GameDeleted
  PROVE  Kept'
BY DEF Kept, ClearedStaysCleared, Deleted, GameDeleted

\* The steps of the players, of the captures and of the recoveries that only
\* read the database.
LEMMA ReadersKept ==
  ASSUME Kept, NEW t \in Tab,
         \/ Play(t) \/ Autosave(t) \/ Exported(t) \/ ExportDropped(t) \/ Retry(t)
         \/ Load(t) \/ Ready(t) \/ Opened(t) \/ Imported(t) \/ Commit(t)
         \/ Stage(t) \/ Swap(t) \/ Finish(t) \/ Dropped(t)
         \/ Stopped(t) \/ Reload(t) \/ Quit(t) \/ QuitEnds(t)
         \/ HostBegins(t) \/ HostEnds(t) \/ HostSuspends(t) \/ Capture(t) \/ Captured(t)
         \/ Captures(t) \/ ClearAsked(t)
         \/ RecoveryRead(t) \/ RecoveryCommitted(t) \/ RecoveryEnded(t) \/ GameRead(t)
  PROVE  Kept'
<1>1. UNCHANGED store
  BY DEF Play, Autosave, Exported, ExportDropped, Retry, Load, Ready, Opened, Imported, Commit,
         Stage, Swap, Finish, Dropped, Stopped, Reload, Quit, QuitEnds, Step,
         HostBegins, HostEnds, HostSuspends, Capture, Captured, Captures, ClearAsked,
         RecoveryRead, RecoveryCommitted, RecoveryEnded, GameRead
<1>. QED BY <1>1, KeptUnchanged

\* Every step preserves it.
LEMMA KeptStep ==
  ASSUME Kept, [Next]_vars
  PROVE  Kept'
<1>1. ASSUME NEW t \in Tab, Stored(t) PROVE Kept' BY <1>1, StoredKept
<1>2. ASSUME NEW t \in Tab, Cleared(t) PROVE Kept' BY <1>2, ClearedKept
<1>3. ASSUME NEW t \in Tab, GamePut(t) PROVE Kept' BY <1>3, GamePutKept
<1>4. ASSUME NEW p \in puts, Put(p) PROVE Kept' BY <1>4, PutKept
<1>5. CASE Deleted \/ GameDeleted BY <1>5, DeletedKept
<1>6. CASE UNCHANGED vars BY <1>6, KeptUnchanged DEF vars
<1>. QED BY <1>1, <1>2, <1>3, <1>4, <1>5, <1>6, ReadersKept DEF Next

\* However many tabs write, clear and delete: a record, a capture or a game in
\* the database is always of the time since the last clear and its deletion.
THEOREM ClearedForever == Spec => []ClearedStaysCleared
<1>1. Init => Kept BY EmptyKept DEF Init
<1>2. Kept /\ [Next]_vars => Kept' BY KeptStep
<1>3. Kept => ClearedStaysCleared BY DEF Kept
<1>. QED BY <1>1, <1>2, <1>3, PTL DEF Spec

-----------------------------------------------------------------------------
(* Progress is not lost.                                                   *)

\* A machine holds what its session has read of the database, unless it could
\* not restore it and writes nothing; and what it is writing continues that.
SessionSound(session, mem) ==
  /\ session.record # None /\ (session.enabled \/ session.writing # "no") => session.record.mem \subseteq mem
  /\ session.writing # "no" => session.out # None /\ session.out.mem \subseteq mem
  /\ session.writing = "exporting" /\ session.record # None => session.record.mem \subseteq session.out.mem
  /\ session.writing = "putting" => session.out \in Record
  /\ session.writing = "exporting" => session.out \in Export
Sound(machine) ==
  machine \in Emulator /\ (machine.session # None => SessionSound(machine.session, machine.mem))

\* What a tab had to save is in the record it reads, or in the write that it
\* waits for; or that write is known to have failed, and it owes nothing.
Reads(x, battery) ==
  /\ x.stage = "flushing" /\ x.owed # {}
       => \/ battery # None /\ x.owed \subseteq battery.mem
          \/ Writing(x) /\ x.owed \subseteq x.active.session.out.mem
  /\ x.stage = "importing"
       => x.cand.session # None /\ x.cand.session.record # None /\ x.owed \subseteq x.cand.session.record.mem
  /\ x.stage \in {"ready", "staged"} /\ x.cand.session # None => x.cand.issue \/ x.owed \subseteq x.cand.mem

Shaped(x) ==
  x = [active |-> x.active, stage |-> x.stage, cand |-> x.cand, prev |-> x.prev, owed |-> x.owed, quitting |-> x.quitting]
Honest(x, battery) ==
  /\ Shaped(x)
  /\ x.active # None => Sound(x.active)
  /\ x.prev # None => Sound(x.prev)
  /\ x.stage \in {"importing", "ready", "staged"} => Sound(x.cand)
  /\ Reads(x, battery)

\* Only a game that a player loads has a session.
Idle(x) ==
  /\ Shaped(x) /\ x.stage = "none" /\ x.cand = None /\ x.prev = None
  /\ x.active # None => x.active = Machine(x.active.mem, None, x.active.issue)

\* A put continues the record that it expects.
PutsContinue ==
  \A p \in puts : /\ p.tab \in Tab /\ p.record \in Record
                  /\ p.expected # None => p.expected.mem \subseteq p.record.mem

\* A row that a host knows, and that is of this generation and revision, is the
\* one in the database.
Known(row, db) ==
  /\ row.generation \in Nat /\ row.revision \in Nat /\ row.generation =< db.generation
  /\ row.generation = db.generation =>
       /\ row.revision =< db.revision
       /\ db.recovery # None /\ db.recovery.revision = row.revision => row = db.recovery
Rows ==
  /\ store.generation \in Nat /\ store.revision \in Nat
  /\ store.battery \in Record \cup {None}
  /\ store.recovery # None => Known(store.recovery, store)
HostKnows(h, db) ==
  /\ h = [active |-> h.active, current |-> h.current, pending |-> h.pending, writing |-> h.writing,
          stored |-> h.stored, last |-> h.last, out |-> h.out]
  /\ h.stored = [generation |-> h.stored.generation, record |-> h.stored.record]
  /\ h.stored.generation \in Nat /\ h.stored.generation =< db.generation
  /\ h.stored.record # None => Known(h.stored.record, db) /\ h.stored.record.generation = h.stored.generation
  /\ h.writing = "stored" => Known(h.out, db) /\ h.out.generation = h.stored.generation

\* Marks and records are numbered.
Counts ==
  /\ used = [progress |-> used.progress, writes |-> used.writes, loads |-> used.loads, clears |-> used.clears]
  /\ used.progress \in Nat /\ used.writes \in Nat
\* Only one kind of rows is written.
OneKind ==
  /\ rows # "battery" => puts = {}
  /\ rows # "captures" => store.recovery = None /\ \A t \in Tab : host[t] = None /\ recover[t] = None

Continued ==
  /\ tab = [t \in Tab |-> tab[t]] /\ host = [t \in Tab |-> host[t]] /\ recover = [t \in Tab |-> recover[t]]
  /\ \A t \in Tab : IF rows = "battery" THEN Honest(tab[t], store.battery) ELSE Idle(tab[t])
  /\ \A t \in Tab : host[t] # None => HostKnows(host[t], store)
  /\ PutsContinue /\ Rows /\ OneKind /\ Counts

\* A step of one tab's player that leaves the database and the captures alone.
LEMMA TabOnly ==
  ASSUME Continued, NEW t \in Tab, NEW y, tab' = [tab EXCEPT ![t] = y],
         UNCHANGED <<rows, store, host, recover>>, PutsContinue', puts' = puts \/ rows = "battery", Counts',
         IF rows = "battery" THEN Honest(y, store.battery) ELSE Idle(y)
  PROVE  Continued'
BY DEF Continued, Rows, OneKind

\* A step of one tab's captures that leaves the database alone.
LEMMA HostOnly ==
  ASSUME Continued, NEW t \in Tab, NEW h, host' = [host EXCEPT ![t] = h],
         UNCHANGED <<rows, store, puts, tab, recover, used>>,
         rows = "captures", h # None => HostKnows(h, store)
  PROVE  Continued'
BY DEF Continued, PutsContinue, Rows, Counts, OneKind

-----------------------------------------------------------------------------
(* What the operators make of one player.                                  *)

\* Another active machine, which still answers for what the tab owes.
LEMMA WithActive ==
  ASSUME NEW x, NEW b, Honest(x, b), NEW m, m # None => Sound(m), NEW o, o \subseteq x.owed, NEW q,
         x.stage = "flushing" /\ o # {}
           => \/ b # None /\ o \subseteq b.mem
              \/ m # None /\ m.session # None /\ m.session.writing # "no" /\ o \subseteq m.session.out.mem
  PROVE  Honest([active |-> m, stage |-> x.stage, cand |-> x.cand, prev |-> x.prev, owed |-> o, quitting |-> q], b)
<1> DEFINE y == [active |-> m, stage |-> x.stage, cand |-> x.cand, prev |-> x.prev, owed |-> o, quitting |-> q]
<1>1. Reads(y, b) BY DEF Honest, Reads, Writing
<1>. QED BY <1>1 DEF Honest, Shaped

\* What the updates of a player and of a machine make of its fields.
LEMMA PlayerUpdate ==
  ASSUME NEW x, Shaped(x), NEW m
  PROVE  [x EXCEPT !.active = m] = [active |-> m, stage |-> x.stage, cand |-> x.cand, prev |-> x.prev,
                                    owed |-> x.owed, quitting |-> x.quitting]
BY DEF Shaped

LEMMA CandUpdate ==
  ASSUME NEW x, Shaped(x), NEW c, NEW stage
  PROVE  /\ [x EXCEPT !.cand = c, !.stage = stage]
              = [active |-> x.active, stage |-> stage, cand |-> c, prev |-> x.prev, owed |-> x.owed, quitting |-> x.quitting]
         /\ [x EXCEPT !.stage = stage, !.cand = c]
              = [active |-> x.active, stage |-> stage, cand |-> c, prev |-> x.prev, owed |-> x.owed, quitting |-> x.quitting]
<1> DEFINE y == [x EXCEPT !.cand = c]
<1> DEFINE z == [x EXCEPT !.stage = stage]
<1>1. y = [active |-> x.active, stage |-> x.stage, cand |-> c, prev |-> x.prev, owed |-> x.owed, quitting |-> x.quitting]
  BY DEF Shaped
<1>2. z = [active |-> x.active, stage |-> stage, cand |-> x.cand, prev |-> x.prev, owed |-> x.owed, quitting |-> x.quitting]
  BY DEF Shaped
<1> HIDE DEF y, z
<1>3. [y EXCEPT !.stage = stage]
        = [active |-> x.active, stage |-> stage, cand |-> c, prev |-> x.prev, owed |-> x.owed, quitting |-> x.quitting]
  BY <1>1
<1>4. [z EXCEPT !.cand = c]
        = [active |-> x.active, stage |-> stage, cand |-> c, prev |-> x.prev, owed |-> x.owed, quitting |-> x.quitting]
  BY <1>2
<1>. QED BY <1>3, <1>4 DEF y, z

LEMMA EnabledUpdate ==
  ASSUME NEW c \in Emulator, NEW mem
  PROVE  [c EXCEPT !.mem = mem, !.session.enabled = TRUE]
           = [mem |-> mem, session |-> [c.session EXCEPT !.enabled = TRUE], issue |-> c.issue]
<1> DEFINE d == [c EXCEPT !.mem = mem]
<1>1. d = [mem |-> mem, session |-> c.session, issue |-> c.issue] BY DEF Emulator
<1> HIDE DEF d
<1>2. [d EXCEPT !.session.enabled = TRUE] = [d EXCEPT !.session = [d.session EXCEPT !.enabled = TRUE]]
  OBVIOUS
<1> DEFINE n == [c.session EXCEPT !.enabled = TRUE]
<1>3. d.session = c.session BY <1>1
<1> HIDE DEF n
<1>4. [d EXCEPT !.session = n] = [mem |-> mem, session |-> n, issue |-> c.issue] BY <1>1
<1>. QED BY <1>2, <1>3, <1>4 DEF d, n

LEMMA IssueUpdate ==
  ASSUME NEW m \in Emulator, NEW i
  PROVE  [m EXCEPT !.issue = i] = [mem |-> m.mem, session |-> m.session, issue |-> i]
BY DEF Emulator

LEMMA EmulatorUpdate ==
  ASSUME NEW m \in Emulator, NEW i, NEW s
  PROVE  [m EXCEPT !.issue = i, !.session = s] = [mem |-> m.mem, session |-> s, issue |-> i]
<1> DEFINE n == [m EXCEPT !.issue = i]
<1>1. n = [mem |-> m.mem, session |-> m.session, issue |-> i] BY DEF Emulator
<1> HIDE DEF n
<1>2. [n EXCEPT !.session = s] = [mem |-> m.mem, session |-> s, issue |-> i] BY <1>1
<1>. QED BY <1>2 DEF n

\* A session of the active machine is set: the nested updates, one by one.
LEMMA SessionUpdate ==
  ASSUME NEW x, Shaped(x), x.active \in Emulator, NEW s
  PROVE  [x EXCEPT !.active.session = s]
           = [active |-> [mem |-> x.active.mem, session |-> s, issue |-> x.active.issue], stage |-> x.stage,
              cand |-> x.cand, prev |-> x.prev, owed |-> x.owed, quitting |-> x.quitting]
BY DEF Shaped, Emulator

LEMMA PersistedActive ==
  ASSUME NEW x, Shaped(x), x.active # None => Sound(x.active), MayPersist(x)
  PROVE  \E m \in Emulator : Sound(m) /\ Persisting(x) = [active |-> m, stage |-> x.stage, cand |-> x.cand, prev |-> x.prev,
                                                         owed |-> x.owed, quitting |-> x.quitting]
<1> DEFINE s == x.active.session
<1> DEFINE n == [s EXCEPT !.writing = "exporting", !.out = [mem |-> x.active.mem]]
<1> DEFINE m == [mem |-> x.active.mem, session |-> n, issue |-> x.active.issue]
<1>1. x.active # None /\ s # None /\ s.enabled /\ s.writing = "no" /\ ~Writing(x)
  BY DEF MayPersist, Writing
<1>2. x.active \in Emulator /\ s \in BatterySession /\ Sound(x.active) /\ SessionSound(s, x.active.mem) /\ Shaped(x)
  BY <1>1 DEF Sound, Emulator
<1>3. Persisting(x) = [x EXCEPT !.active.session = n]
  BY <1>2 DEF Persisting, Shaped, Emulator, BatterySession
<1>4. n \in BatterySession /\ n.record = s.record /\ n.writing = "exporting" /\ n.out = [mem |-> x.active.mem]
      /\ x.active.mem \in Progress
  BY <1>2 DEF BatterySession, Emulator, Export
<1>5. n.out # None BY <1>4, NoneAssumption DEF Export
<1>6. SessionSound(n, m.mem) BY <1>1, <1>2, <1>4, <1>5 DEF SessionSound, Export
<1>7. m \in Emulator /\ Sound(m) BY <1>4, <1>6, <1>2 DEF Sound, Emulator
<1>8. Persisting(x) = [active |-> m, stage |-> x.stage, cand |-> x.cand, prev |-> x.prev, owed |-> x.owed, quitting |-> x.quitting]
  BY <1>2, <1>3, SessionUpdate
<1>. QED BY <1>7, <1>8

LEMMA PersistedHonest ==
  ASSUME NEW x, NEW b, Honest(x, b), MayPersist(x)
  PROVE  Honest(Persisting(x), b)
<1>1. PICK m \in Emulator : Sound(m) /\ Persisting(x) = [active |-> m, stage |-> x.stage, cand |-> x.cand, prev |-> x.prev,
                                                        owed |-> x.owed, quitting |-> x.quitting]
  BY PersistedActive DEF Honest
<1>2. x.stage = "flushing" /\ x.owed # {} => b # None /\ x.owed \subseteq b.mem
  BY DEF Honest, Reads, MayPersist, Writing
<1>. QED BY <1>1, <1>2, WithActive

\* A write that ends leaves the session as it is.
LEMMA RestedSound ==
  ASSUME NEW s \in BatterySession, NEW mem, SessionSound(s, mem)
  PROVE  Rested(s) \in BatterySession /\ SessionSound(Rested(s), mem)
BY DEF SessionSound, Rested, BatterySession

LEMMA AbortedSound ==
  ASSUME NEW m, m # None => Sound(m)
  PROVE  Aborted(m) # None => Sound(Aborted(m))
BY RestedSound DEF Aborted, Sound, Emulator

LEMMA AbandonedHonest ==
  ASSUME NEW x, NEW terminal \in BOOLEAN, Shaped(x)
  PROVE  /\ \A b : Honest(x, b) => Honest(Abandon(x, terminal), b)
         /\ Idle(x) => Idle(Abandon(x, terminal))
         /\ Shaped(Abandon(x, terminal)) /\ Abandon(x, terminal).stage = "none" /\ Abandon(x, terminal).owed = {}
<1> DEFINE a == CASE x.stage = "swapped" /\ terminal -> None
                  [] x.stage = "swapped" /\ ~terminal -> x.prev
                  [] OTHER -> IF terminal THEN Aborted(x.active) ELSE x.active
<1>1. a = None \/ a = x.prev \/ a = x.active \/ a = Aborted(x.active) OBVIOUS
<1>2. ASSUME NEW b, Honest(x, b) PROVE a # None => Sound(a) BY <1>1, <1>2, AbortedSound DEF Honest
<1>3. Idle(x) => a = None \/ a = x.active BY <1>1 DEF Idle, Machine, Aborted
<1>4. Abandon(x, terminal) = [x EXCEPT !.active = a, !.stage = "none", !.cand = None, !.prev = None, !.owed = {}]
  BY DEF Abandon
<1> HIDE DEF a
<1>5. Abandon(x, terminal) = [active |-> a, stage |-> "none", cand |-> None, prev |-> None, owed |-> {}, quitting |-> x.quitting]
  BY <1>4 DEF Shaped
<1>6. Idle(x) => Idle(Abandon(x, terminal)) BY <1>3, <1>5 DEF Idle, Shaped
<1>7. ASSUME NEW b, Honest(x, b) PROVE Honest(Abandon(x, terminal), b)
  BY <1>2, <1>5, <1>7 DEF Honest, Shaped, Reads
<1>. QED BY <1>5, <1>6, <1>7 DEF Shaped

LEMMA OpeningHonest == Idle(Opening) /\ (rows = "battery" => \A b : Honest(Opening, b))
BY DEF Honest, Idle, Opening, Player, Shaped, Machine, Reads

-----------------------------------------------------------------------------
(* The steps of the players.                                               *)

LEMMA TheTab ==
  ASSUME Continued, NEW t \in Tab
  PROVE  /\ Shaped(tab[t])
         /\ IF rows = "battery" THEN Honest(tab[t], store.battery) ELSE Idle(tab[t])
         /\ tab[t].stage # "none" \/ tab[t].prev # None => rows = "battery"
         /\ tab[t].active # None /\ tab[t].active.session # None
              => /\ rows = "battery" /\ Sound(tab[t].active) /\ tab[t].active \in Emulator
                 /\ tab[t].active.session \in BatterySession /\ SessionSound(tab[t].active.session, tab[t].active.mem)
         /\ PutsContinue /\ Counts /\ Rows
         /\ tab = [u \in Tab |-> tab[u]]
BY DEF Continued, Honest, Idle, Machine, Sound, Emulator

LEMMA Resting ==
  ASSUME Continued
  PROVE  (puts' = puts => PutsContinue') /\ (used' = used => Counts')
BY DEF Continued, PutsContinue, Counts

\* A step of a game that is loaded: nothing but the tab changes.
LEMMA StepContinues ==
  ASSUME Continued, NEW t \in Tab, NEW y, Step(t, y), Counts',
         IF rows = "battery" THEN Honest(y, store.battery) ELSE Idle(y)
  PROVE  Continued'
BY TabOnly, Resting DEF Step

LEMMA PlayContinues ==
  ASSUME Continued, NEW t \in Tab, Play(t)
  PROVE  Continued'
<1> DEFINE x == tab[t]
<1> DEFINE mem == x.active.mem \cup {used.progress + 1}
<1> DEFINE y == [x EXCEPT !.active.mem = mem]
<1> DEFINE m == [x.active EXCEPT !.mem = mem]
<1>1. x.active # None /\ tab' = [tab EXCEPT ![t] = y] /\ UNCHANGED <<rows, store, host, recover, puts>>
  BY DEF Play
<1>2. Counts' BY TheTab DEF Play, Counts
<1>3. y = [active |-> m, stage |-> x.stage, cand |-> x.cand, prev |-> x.prev, owed |-> x.owed, quitting |-> x.quitting]
  <2>1. y = [x EXCEPT !.active = m] OBVIOUS
  <2> HIDE DEF m, y
  <2>. QED BY <2>1, TheTab, PlayerUpdate
<1>4. CASE rows = "battery"
  <2>1. Honest(x, store.battery) /\ Sound(x.active) /\ x.active \in Emulator
    BY <1>1, <1>4, TheTab DEF Honest, Sound
  <2>2. mem \in Progress BY <2>1, TheTab DEF Emulator, Progress, Counts
  <2>3. m \in Emulator /\ m.session = x.active.session /\ m.mem = mem BY <2>1, <2>2 DEF Emulator
  <2>4. x.active.mem \subseteq mem OBVIOUS
  <2> HIDE DEF mem, m
  <2>5. m.session # None => SessionSound(m.session, m.mem)
    BY <2>1, <2>3, <2>4 DEF Sound, SessionSound
  <2>6. Sound(m) /\ m # None BY <2>3, <2>5, NoneAssumption DEF Sound
  <2>7. Reads(x, store.battery) BY <2>1 DEF Honest
  <2>8. x.stage = "flushing" /\ x.owed # {}
          => \/ store.battery # None /\ x.owed \subseteq store.battery.mem
             \/ m.session # None /\ m.session.writing # "no" /\ x.owed \subseteq m.session.out.mem
    BY <2>3, <2>7 DEF Reads, Writing
  <2>9. Honest(y, store.battery) BY <1>3, <2>1, <2>6, <2>8, WithActive
  <2>. QED BY <1>1, <1>2, <1>4, <2>9, TabOnly, Resting
<1>5. CASE rows # "battery"
  <2>1. Idle(x) BY <1>5, TheTab
  <2>2. m = Machine(mem, None, x.active.issue) BY <1>1, <2>1 DEF Idle, Machine
  <2> HIDE DEF mem, m
  <2>3. Idle(y) BY <1>3, <2>1, <2>2 DEF Idle, Machine, Shaped
  <2>. QED BY <1>1, <1>2, <1>5, <2>3, TabOnly, Resting
<1>. QED BY <1>4, <1>5

LEMMA AutosaveContinues ==
  ASSUME Continued, NEW t \in Tab, Autosave(t)
  PROVE  Continued'
BY TheTab, PersistedHonest, TabOnly, Resting DEF Autosave, MayPersist

LEMMA ExportedContinues ==
  ASSUME Continued, NEW t \in Tab, Exported(t)
  PROVE  Continued'
<1> DEFINE x == tab[t]
<1> DEFINE s == x.active.session
<1> DEFINE record == [mem |-> s.out.mem, savedAt |-> used.writes + 1, generation |-> s.generation]
<1>1. x.active # None /\ s # None /\ s.writing = "exporting" /\ UNCHANGED <<rows, store, host, recover>>
  BY DEF Exported, Writing
<1>2. /\ rows = "battery" /\ Honest(x, store.battery) /\ x.active \in Emulator /\ s \in BatterySession
      /\ SessionSound(s, x.active.mem) /\ Shaped(x)
  BY <1>1, TheTab
<1>3. s.out \in Export /\ s.out.mem \subseteq x.active.mem BY <1>1, <1>2 DEF SessionSound
<1>4. record \in Record BY <1>2, <1>3, TheTab DEF Record, Export, BatterySession, Counts
<1>5. ASSUME used' = [used EXCEPT !.writes = @ + 1],
             puts' = puts \cup {[tab |-> t, record |-> record, expected |-> s.record]},
             tab' = [tab EXCEPT ![t].active.session = [s EXCEPT !.writing = "putting", !.out = record]]
      PROVE  Continued'
  <2> DEFINE n == [s EXCEPT !.writing = "putting", !.out = record]
  <2> DEFINE m == [mem |-> x.active.mem, session |-> n, issue |-> x.active.issue]
  <2> DEFINE y == [x EXCEPT !.active.session = n]
  <2>1. tab' = [tab EXCEPT ![t] = y] BY <1>5
  <2>2. n \in BatterySession /\ n.record = s.record /\ n.writing = "putting" /\ n.out = record
    BY <1>2, <1>4 DEF BatterySession
  <2>3. record.mem = s.out.mem OBVIOUS
  <2>4. PutsContinue'
    <3>1. s.record # None => s.record.mem \subseteq record.mem BY <1>1, <1>2 DEF SessionSound
    <3> HIDE DEF record
    <3>. QED BY <1>4, <1>5, <3>1, TheTab DEF PutsContinue
  <2>5. Counts' BY <1>5, TheTab DEF Counts
  <2> HIDE DEF record
  <2>6. SessionSound(n, m.mem)
    BY <1>1, <1>2, <1>3, <1>4, <2>2, <2>3, NoneAssumption DEF SessionSound
  <2>7. m \in Emulator /\ m # None /\ Sound(m)
    BY <1>2, <2>2, <2>6, NoneAssumption DEF Sound, Emulator
  <2>8. y = [active |-> m, stage |-> x.stage, cand |-> x.cand, prev |-> x.prev, owed |-> x.owed, quitting |-> x.quitting]
    BY <1>2, SessionUpdate
  <2>9. x.stage = "flushing" /\ x.owed # {}
          => (store.battery # None /\ x.owed \subseteq store.battery.mem) \/ x.owed \subseteq s.out.mem
    BY <1>2 DEF Honest, Reads
  <2>10. n # None /\ m.session = n BY <2>2, NoneAssumption
  <2> HIDE DEF n, m
  <2>11. x.stage = "flushing" /\ x.owed # {}
           => \/ store.battery # None /\ x.owed \subseteq store.battery.mem
              \/ m # None /\ m.session # None /\ m.session.writing # "no" /\ x.owed \subseteq m.session.out.mem
    BY <2>2, <2>3, <2>7, <2>9, <2>10
  <2>12. Honest(y, store.battery) BY <1>2, <2>7, <2>8, <2>11, WithActive
  <2>. QED BY <1>1, <1>2, <2>1, <2>4, <2>5, <2>12, TabOnly
<1>6. ASSUME UNCHANGED <<puts, used>>,
             tab' = [tab EXCEPT ![t] = [x EXCEPT
               !.active = [x.active EXCEPT !.issue = TRUE, !.session = Rested([s EXCEPT !.enabled = FALSE])],
               !.owed = {}]]
      PROVE  Continued'
  <2> DEFINE n == Rested([s EXCEPT !.enabled = FALSE])
  <2> DEFINE m == [mem |-> x.active.mem, session |-> n, issue |-> TRUE]
  <2> DEFINE y == [active |-> m, stage |-> x.stage, cand |-> x.cand, prev |-> x.prev, owed |-> {}, quitting |-> x.quitting]
  <2>1. n \in BatterySession /\ SessionSound(n, x.active.mem)
    BY <1>2 DEF SessionSound, Rested, BatterySession
  <2> HIDE DEF n
  <2>2. tab' = [tab EXCEPT ![t] = y]
    <3>1. tab' = [tab EXCEPT ![t] = [x EXCEPT !.active = [x.active EXCEPT !.issue = TRUE, !.session = n], !.owed = {}]]
      BY <1>6 DEF n
    <3>2. [x.active EXCEPT !.issue = TRUE, !.session = n] = m BY <1>2, EmulatorUpdate
    <3>3. [x EXCEPT !.active = m, !.owed = {}] = y
      <4> DEFINE z == [x EXCEPT !.active = m]
      <4>1. Shaped(x) BY <1>2
      <4> HIDE DEF x, m
      <4>2. z = [active |-> m, stage |-> x.stage, cand |-> x.cand, prev |-> x.prev, owed |-> x.owed, quitting |-> x.quitting]
        BY <4>1, PlayerUpdate
      <4> HIDE DEF z
      <4>3. [z EXCEPT !.owed = {}] = y BY <4>2
      <4>. QED BY <4>3 DEF z
    <3> HIDE DEF m
    <3>. QED BY <3>1, <3>2, <3>3
  <2>3. m \in Emulator /\ Sound(m) BY <1>2, <2>1 DEF Sound, Emulator
  <2>4. Honest(y, store.battery) BY <1>2, <2>3, WithActive
  <2>. QED BY <1>1, <1>2, <1>6, <2>2, <2>4, TabOnly, Resting
<1>. QED BY <1>5, <1>6 DEF Exported

\* The export of the former machine is given up.
LEMMA ExportDroppedContinues ==
  ASSUME Continued, NEW t \in Tab, ExportDropped(t)
  PROVE  Continued'
<1> DEFINE x == tab[t]
<1> DEFINE m == [x.prev EXCEPT !.session = Rested(x.prev.session)]
<1> DEFINE y == [x EXCEPT !.prev = m]
<1>1. x.prev # None /\ x.prev.session # None /\ tab' = [tab EXCEPT ![t] = y]
      /\ UNCHANGED <<rows, store, host, recover, puts, used>>
  BY DEF ExportDropped
<1>2. rows = "battery" /\ Honest(x, store.battery) BY <1>1, TheTab
<1>3. x.prev \in Emulator /\ x.prev.session \in BatterySession /\ SessionSound(x.prev.session, x.prev.mem)
  BY <1>1, <1>2 DEF Honest, Sound, Emulator
<1>4. Rested(x.prev.session) \in BatterySession /\ SessionSound(Rested(x.prev.session), x.prev.mem)
  BY <1>3, RestedSound
<1>5. m = [mem |-> x.prev.mem, session |-> Rested(x.prev.session), issue |-> x.prev.issue]
  BY <1>3 DEF Emulator
<1>6. Sound(m) BY <1>3, <1>4, <1>5 DEF Sound, Emulator
<1> HIDE DEF m
<1>7. y = [active |-> x.active, stage |-> x.stage, cand |-> x.cand, prev |-> m, owed |-> x.owed, quitting |-> x.quitting]
  BY <1>2 DEF Honest, Shaped
<1>8. Honest(y, store.battery) BY <1>2, <1>6, <1>7 DEF Honest, Shaped, Reads, Writing
<1>. QED BY <1>1, <1>2, <1>8, TabOnly, Resting

\* A record that its player retries is the one in the database, which the
\* machine continues, or none.
LEMMA RetryContinues ==
  ASSUME Continued, NEW t \in Tab, Retry(t)
  PROVE  Continued'
<1> DEFINE x == tab[t]
<1> DEFINE s == x.active.session
<1> DEFINE n == [s EXCEPT !.record = store.battery, !.generation = store.generation, !.enabled = TRUE]
<1> DEFINE y == [x EXCEPT !.active.session = n]
<1> DEFINE m == [mem |-> x.active.mem, session |-> n, issue |-> x.active.issue]
<1>1. x.active # None /\ s # None /\ Retries(s) /\ UNCHANGED <<rows, store, host, recover, puts, used>>
      /\ tab' = [tab EXCEPT ![t] = IF MayPersist(y) THEN Persisting(y) ELSE y]
  BY DEF Retry
<1>2. /\ rows = "battery" /\ Honest(x, store.battery) /\ x.active \in Emulator /\ s \in BatterySession
      /\ SessionSound(s, x.active.mem) /\ Shaped(x) /\ Rows
  BY <1>1, TheTab
<1>3. n \in BatterySession /\ n.record = store.battery /\ n.enabled /\ n.writing = s.writing /\ n.out = s.out
  BY <1>2 DEF BatterySession, Rows
<1>4. store.battery = None \/ (store.battery = s.record /\ s.enabled) BY <1>1 DEF Retries
<1> HIDE DEF n
<1>5. SessionSound(n, x.active.mem) BY <1>2, <1>3, <1>4 DEF SessionSound
<1>6. Sound(m) /\ m # None BY <1>2, <1>3, <1>5, NoneAssumption DEF Sound, Emulator
<1>7. y = [active |-> m, stage |-> x.stage, cand |-> x.cand, prev |-> x.prev, owed |-> x.owed, quitting |-> x.quitting]
  BY <1>2, SessionUpdate
<1>8. m.session = n /\ n # None BY <1>3, NoneAssumption
<1>9. x.stage = "flushing" /\ x.owed # {}
        => \/ store.battery # None /\ x.owed \subseteq store.battery.mem
           \/ s.writing # "no" /\ x.owed \subseteq s.out.mem
  BY <1>2 DEF Honest, Reads, Writing
<1> HIDE DEF m, y, s
<1>10. Honest(y, store.battery) BY <1>2, <1>3, <1>6, <1>7, <1>8, <1>9, WithActive
<1>11. Honest(IF MayPersist(y) THEN Persisting(y) ELSE y, store.battery) BY <1>10, PersistedHonest
<1>. QED BY <1>1, <1>2, <1>11, TabOnly, Resting

-----------------------------------------------------------------------------
(* A game is loaded.                                                       *)

\* What only the stage that is reached decides.
LEMMA StageHonest ==
  ASSUME NEW x, NEW b, Honest(x, b), NEW y, NEW stage,
         y = [x EXCEPT !.stage = stage], stage \in {"none", "reading", "swapped"} \/ (stage = "staged" /\ x.stage = "ready")
  PROVE  Honest(y, b)
BY DEF Honest, Shaped, Reads

LEMMA LoadContinues ==
  ASSUME Continued, NEW t \in Tab, Load(t)
  PROVE  Continued'
<1> DEFINE y == [Abandon(tab[t], FALSE) EXCEPT !.stage = "reading"]
<1>1. rows = "battery" /\ Step(t, y) /\ used' = [used EXCEPT !.loads = @ + 1] BY DEF Load
<1>2. Honest(tab[t], store.battery) /\ Counts' BY <1>1, TheTab DEF Counts
<1>3. Honest(Abandon(tab[t], FALSE), store.battery) BY <1>2, AbandonedHonest DEF Honest
<1>4. Honest(y, store.battery) BY <1>3, StageHonest
<1>. QED BY <1>1, <1>2, <1>4, StepContinues

LEMMA ReadyContinues ==
  ASSUME Continued, NEW t \in Tab, Ready(t)
  PROVE  Continued'
<1> DEFINE x == [tab[t] EXCEPT !.stage = "flushing"]
<1> DEFINE saving == IF MayPersist(x) THEN Persisting(x) ELSE x
<1> DEFINE owed == IF Writing(saving) THEN saving.active.session.out.mem ELSE {}
<1> DEFINE y == [saving EXCEPT !.owed = owed]
<1>1. tab[t].stage = "reading" /\ used' = used /\ Step(t, y) BY DEF Ready
<1>2. rows = "battery" /\ Honest(tab[t], store.battery) BY <1>1, TheTab
<1>3. x = [active |-> tab[t].active, stage |-> "flushing", cand |-> tab[t].cand, prev |-> tab[t].prev,
           owed |-> tab[t].owed, quitting |-> tab[t].quitting]
  BY <1>2 DEF Honest, Shaped
<1>4. Shaped(x) /\ (x.active # None => Sound(x.active)) BY <1>2, <1>3 DEF Honest, Shaped
<1> HIDE DEF x
<1>5. \E m : /\ m # None => Sound(m)
            /\ saving = [active |-> m, stage |-> x.stage, cand |-> x.cand, prev |-> x.prev,
                         owed |-> x.owed, quitting |-> x.quitting]
  BY <1>4, PersistedActive DEF Shaped
<1>6. PICK m : /\ m # None => Sound(m)
               /\ saving = [active |-> m, stage |-> x.stage, cand |-> x.cand, prev |-> x.prev,
                            owed |-> x.owed, quitting |-> x.quitting]
  BY <1>5
<1> HIDE DEF saving
<1>7. Writing(saving) => m # None /\ m.session # None /\ m.session.writing # "no" /\ owed = m.session.out.mem
  BY <1>6 DEF Writing
<1>8. ~Writing(saving) => owed = {} OBVIOUS
<1> HIDE DEF owed
<1>9. y = [active |-> m, stage |-> "flushing", cand |-> x.cand, prev |-> x.prev, owed |-> owed, quitting |-> x.quitting]
  BY <1>3, <1>6
<1>10. Reads(y, store.battery) BY <1>7, <1>8, <1>9 DEF Reads, Writing
<1>11. Honest(y, store.battery) BY <1>2, <1>3, <1>6, <1>9, <1>10 DEF Honest, Shaped
<1>. QED BY <1>1, <1>2, <1>11, StepContinues, Resting

LEMMA OpenedContinues ==
  ASSUME Continued, NEW t \in Tab, Opened(t)
  PROVE  Continued'
<1> DEFINE x == tab[t]
<1> DEFINE found == NewSession(store.battery, store.generation, store.battery = None)
<1>1. x.stage = "flushing" /\ ~Writing(x) /\ used' = used BY DEF Opened, Flushed
<1>2. PICK machine \in {Machine({}, NewSession(None, 0, FALSE), TRUE), Machine({}, None, TRUE), Machine({}, found, FALSE)} :
        Step(t, [x EXCEPT !.cand = machine,
                    !.stage = IF machine.session # None /\ machine.session.record # None THEN "importing" ELSE "ready"])
  BY DEF Opened
<1>3. rows = "battery" /\ Honest(x, store.battery) /\ Rows BY <1>1, TheTab
<1>4. x.owed # {} => store.battery # None /\ x.owed \subseteq store.battery.mem
  BY <1>1, <1>3 DEF Honest, Reads
<1> DEFINE stage == IF machine.session # None /\ machine.session.record # None THEN "importing" ELSE "ready"
<1> DEFINE y == [x EXCEPT !.cand = machine, !.stage = stage]
<1>5. found \in BatterySession /\ found.record = store.battery /\ found.writing = "no" /\ found.enabled = (store.battery = None)
  BY <1>3 DEF NewSession, BatterySession, Rows
<1>6. NewSession(None, 0, FALSE) \in BatterySession /\ NewSession(None, 0, FALSE).writing = "no"
      /\ NewSession(None, 0, FALSE).record = None
  BY DEF NewSession, BatterySession
<1> HIDE DEF found
<1>7. Sound(machine) /\ (machine.issue \/ machine = Machine({}, found, FALSE))
  <2> DEFINE none == NewSession(None, 0, FALSE)
  <2>1. none \in BatterySession /\ none.writing = "no" /\ none.record = None BY <1>6
  <2> HIDE DEF none
  <2>2. CASE machine = Machine({}, none, TRUE)
    BY <2>1, <2>2 DEF Machine, Sound, SessionSound, Emulator, Progress
  <2>3. CASE machine = Machine({}, None, TRUE) BY <2>3 DEF Machine, Sound, Emulator, Progress
  <2>4. CASE machine = Machine({}, found, FALSE)
    BY <1>5, <2>4 DEF Machine, Sound, SessionSound, Emulator, Progress
  <2>. QED BY <1>2, <2>2, <2>3, <2>4 DEF none
<1>8. machine.session # None /\ machine.session.record # None => machine.session.record = store.battery
  <2> DEFINE none == NewSession(None, 0, FALSE)
  <2>1. none.record = None BY <1>6
  <2>2. machine \in {Machine({}, none, TRUE), Machine({}, None, TRUE), Machine({}, found, FALSE)}
    BY <1>2
  <2> HIDE DEF none
  <2>3. machine.session = none \/ machine.session = None \/ machine.session = found
    BY <2>2 DEF Machine
  <2>. QED BY <1>5, <2>1, <2>3
<1>9. machine = Machine({}, found, FALSE) => machine.session = found BY DEF Machine
<1>10. found # None BY <1>5, NoneAssumption
<1> HIDE DEF stage
<1>11. y = [active |-> x.active, stage |-> stage, cand |-> machine, prev |-> x.prev, owed |-> x.owed, quitting |-> x.quitting]
  <2>1. Shaped(x) BY <1>3 DEF Honest
  <2> HIDE DEF x
  <2>. QED BY <2>1, CandUpdate
<1>12. stage = "importing" => machine.session # None /\ machine.session.record # None /\ x.owed \subseteq machine.session.record.mem
  BY <1>4, <1>8 DEF stage
<1>13. stage # "importing" => stage = "ready" /\ (machine.issue \/ x.owed = {})
  BY <1>4, <1>5, <1>7, <1>9, <1>10 DEF stage
<1>14. Reads(y, store.battery) BY <1>11, <1>12, <1>13 DEF Reads
<1>15. Honest(y, store.battery) BY <1>3, <1>7, <1>11, <1>14 DEF Honest, Shaped
<1>. QED BY <1>1, <1>2, <1>3, <1>15, StepContinues, Resting DEF stage

LEMMA ImportedContinues ==
  ASSUME Continued, NEW t \in Tab, Imported(t)
  PROVE  Continued'
<1> DEFINE x == tab[t]
<1> DEFINE c == x.cand
<1> DEFINE mem == c.mem \cup c.session.record.mem
<1> DEFINE n == [c.session EXCEPT !.enabled = TRUE]
<1> DEFINE good == [c EXCEPT !.mem = mem, !.session.enabled = TRUE]
<1> DEFINE bad == [c EXCEPT !.issue = TRUE]
<1>1. x.stage = "importing" /\ used' = used BY DEF Imported
<1>2. PICK ok \in BOOLEAN : Step(t, [x EXCEPT !.stage = "ready", !.cand = IF ok THEN good ELSE bad])
  BY DEF Imported
<1>3. rows = "battery" /\ Honest(x, store.battery) BY <1>1, TheTab
<1>4. Sound(c) /\ c \in Emulator /\ c.session # None /\ c.session.record # None /\ x.owed \subseteq c.session.record.mem
      /\ c.session \in BatterySession /\ c.session.record \in Record /\ SessionSound(c.session, c.mem)
  BY <1>1, <1>3 DEF Honest, Reads, Sound, Emulator, BatterySession
<1>5. good = [mem |-> mem, session |-> n, issue |-> c.issue]
  <2>1. c \in Emulator BY <1>4
  <2> HIDE DEF c, mem
  <2>. QED BY <2>1, EnabledUpdate
<1>6. bad = [mem |-> c.mem, session |-> c.session, issue |-> TRUE]
  <2>1. c \in Emulator BY <1>4
  <2> HIDE DEF c
  <2>. QED BY <2>1, IssueUpdate
<1>7. mem \in Progress /\ x.owed \subseteq mem /\ c.session.record.mem \subseteq mem /\ c.mem \subseteq mem
  BY <1>4 DEF Emulator, Record, Progress
<1>8. n \in BatterySession /\ n.record = c.session.record /\ n.writing = c.session.writing /\ n.out = c.session.out
  BY <1>4 DEF BatterySession
<1> HIDE DEF mem, n
<1>9. SessionSound(n, mem) BY <1>4, <1>7, <1>8 DEF SessionSound
<1>10. Sound([mem |-> mem, session |-> n, issue |-> c.issue])
  BY <1>4, <1>7, <1>8, <1>9 DEF Sound, Emulator
<1>11. Sound([mem |-> c.mem, session |-> c.session, issue |-> TRUE]) BY <1>4 DEF Sound, Emulator
<1> DEFINE m == IF ok THEN good ELSE bad
<1>12. Sound(m) /\ (m.issue \/ x.owed \subseteq m.mem) BY <1>5, <1>6, <1>7, <1>10, <1>11
<1> HIDE DEF m
<1> DEFINE y == [x EXCEPT !.stage = "ready", !.cand = m]
<1>13. y = [active |-> x.active, stage |-> "ready", cand |-> m, prev |-> x.prev, owed |-> x.owed, quitting |-> x.quitting]
  <2>1. Shaped(x) BY <1>3 DEF Honest
  <2> HIDE DEF x
  <2>. QED BY <2>1, CandUpdate
<1>14. Honest(y, store.battery) BY <1>3, <1>12, <1>13 DEF Honest, Shaped, Reads
<1>. QED BY <1>1, <1>2, <1>3, <1>14, StepContinues, Resting DEF m

\* What the steps of a selection make of a player.
LEMMA FinishUpdate ==
  ASSUME NEW x, Shaped(x), NEW p, NEW stage, NEW y, y = [x EXCEPT !.prev = p, !.stage = stage]
  PROVE  y = [active |-> x.active, stage |-> stage, cand |-> x.cand, prev |-> p, owed |-> x.owed, quitting |-> x.quitting]
BY DEF Shaped

LEMMA StopUpdate ==
  ASSUME NEW x, Shaped(x), NEW a, NEW o, NEW q, NEW y, y = [x EXCEPT !.active = a, !.owed = o, !.quitting = q]
  PROVE  y = [active |-> a, stage |-> x.stage, cand |-> x.cand, prev |-> x.prev, owed |-> o, quitting |-> q]
BY DEF Shaped

LEMMA QuitUpdate ==
  ASSUME NEW x, Shaped(x), NEW a, NEW q, NEW y, y = [x EXCEPT !.active = a, !.quitting = q]
  PROVE  y = [active |-> a, stage |-> x.stage, cand |-> x.cand, prev |-> x.prev, owed |-> x.owed, quitting |-> q]
BY DEF Shaped

LEMMA CommitContinues ==
  ASSUME Continued, NEW t \in Tab, Commit(t)
  PROVE  Continued'
<1> DEFINE x == tab[t]
<1> DEFINE y == [x EXCEPT !.active = x.cand, !.cand = None, !.stage = "none", !.owed = {}]
<1>1. x.stage = "ready" /\ used' = used /\ Step(t, y) BY DEF Commit
<1>2. rows = "battery" /\ Honest(x, store.battery) BY <1>1, TheTab
<1>3. y = [active |-> x.cand, stage |-> "none", cand |-> None, prev |-> x.prev, owed |-> {}, quitting |-> x.quitting]
  <2>1. Shaped(x) BY <1>2 DEF Honest
  <2> HIDE DEF x
  <2>2. ASSUME NEW z, z = y
        PROVE  z = [active |-> x.cand, stage |-> "none", cand |-> None, prev |-> x.prev, owed |-> {}, quitting |-> x.quitting]
    BY <2>1, <2>2 DEF Shaped
  <2>. QED BY <2>2
<1>4. Honest(y, store.battery) BY <1>1, <1>2, <1>3 DEF Honest, Shaped, Reads
<1>. QED BY <1>1, <1>2, <1>4, StepContinues, Resting

LEMMA SwapContinues ==
  ASSUME Continued, NEW t \in Tab, Swap(t)
  PROVE  Continued'
<1> DEFINE x == tab[t]
<1> DEFINE y == [x EXCEPT !.active = x.cand, !.prev = x.active, !.cand = None, !.stage = "swapped", !.owed = {}]
<1>1. x.stage = "staged" /\ used' = used /\ Step(t, y) BY DEF Swap
<1>2. rows = "battery" /\ Honest(x, store.battery) BY <1>1, TheTab
<1>3. y = [active |-> x.cand, stage |-> "swapped", cand |-> None, prev |-> x.active, owed |-> {}, quitting |-> x.quitting]
  <2>1. Shaped(x) BY <1>2 DEF Honest
  <2> HIDE DEF x
  <2>2. ASSUME NEW z, z = y
        PROVE  z = [active |-> x.cand, stage |-> "swapped", cand |-> None, prev |-> x.active, owed |-> {}, quitting |-> x.quitting]
    BY <2>1, <2>2 DEF Shaped
  <2>. QED BY <2>2
<1>4. Honest(y, store.battery) BY <1>1, <1>2, <1>3 DEF Honest, Shaped, Reads
<1>. QED BY <1>1, <1>2, <1>4, StepContinues, Resting

LEMMA FinishContinues ==
  ASSUME Continued, NEW t \in Tab, Finish(t)
  PROVE  Continued'
<1> DEFINE x == tab[t]
<1> DEFINE y == [x EXCEPT !.prev = None, !.stage = "none"]
<1>1. x.stage = "swapped" /\ used' = used /\ Step(t, y) BY DEF Finish
<1>2. rows = "battery" /\ Honest(x, store.battery) BY <1>1, TheTab
<1>3. y = [active |-> x.active, stage |-> "none", cand |-> x.cand, prev |-> None, owed |-> x.owed, quitting |-> x.quitting]
  <2>1. Shaped(x) BY <1>2 DEF Honest
  <2> HIDE DEF x
  <2>. QED BY <2>1, FinishUpdate
<1>4. Honest(y, store.battery) BY <1>1, <1>2, <1>3 DEF Honest, Shaped, Reads
<1>. QED BY <1>1, <1>2, <1>4, StepContinues, Resting

\* A cartridge is staged, a selection is dropped.
LEMMA StageContinues ==
  ASSUME Continued, NEW t \in Tab, Stage(t)
  PROVE  Continued'
BY TheTab, StageHonest, StepContinues, Resting DEF Stage

LEMMA DroppedContinues ==
  ASSUME Continued, NEW t \in Tab, Dropped(t)
  PROVE  Continued'
<1>1. PICK terminal \in BOOLEAN : Step(t, Abandon(tab[t], terminal)) BY DEF Dropped
<1>2. rows = "battery" /\ Honest(tab[t], store.battery) /\ Shaped(tab[t]) /\ used' = used
  BY TheTab DEF Dropped
<1>3. Honest(Abandon(tab[t], terminal), store.battery) BY <1>2, AbandonedHonest
<1>. QED BY <1>1, <1>2, <1>3, StepContinues, Resting

LEMMA StoppedContinues ==
  ASSUME Continued, NEW t \in Tab, Stopped(t)
  PROVE  Continued'
<1> DEFINE x == tab[t]
<1> DEFINE y == [x EXCEPT !.active = None, !.owed = {}, !.quitting = FALSE]
<1>1. rows = "battery" /\ used' = used /\ Step(t, y) BY DEF Stopped
<1>2. Honest(x, store.battery) BY <1>1, TheTab
<1>3. y = [active |-> None, stage |-> x.stage, cand |-> x.cand, prev |-> x.prev, owed |-> {}, quitting |-> FALSE]
  <2>1. Shaped(x) BY <1>2 DEF Honest
  <2> HIDE DEF x
  <2>. QED BY <2>1, StopUpdate
<1>4. Honest(y, store.battery) BY <1>2, <1>3, WithActive
<1>. QED BY <1>1, <1>4, StepContinues, Resting

LEMMA ReloadContinues ==
  ASSUME Continued, NEW t \in Tab, Reload(t)
  PROVE  Continued'
<1>1. /\ tab' = [tab EXCEPT ![t] = Opening] /\ host' = [host EXCEPT ![t] = None]
      /\ recover' = [recover EXCEPT ![t] = None] /\ UNCHANGED <<rows, store, puts, used>>
  BY DEF Reload
<1>2. \A u \in Tab : /\ tab'[u] = (IF u = t THEN Opening ELSE tab[u]) /\ host'[u] = (IF u = t THEN None ELSE host[u])
                     /\ recover'[u] = (IF u = t THEN None ELSE recover[u])
  BY <1>1 DEF Continued
<1>3. tab' = [u \in Tab |-> tab'[u]] /\ host' = [u \in Tab |-> host'[u]] /\ recover' = [u \in Tab |-> recover'[u]]
  BY <1>1 DEF Continued
<1>4. Idle(Opening) /\ (rows = "battery" => Honest(Opening, store.battery)) BY OpeningHonest
<1>5. \A u \in Tab : IF rows' = "battery" THEN Honest(tab'[u], store'.battery) ELSE Idle(tab'[u])
  BY <1>1, <1>2, <1>4 DEF Continued
<1>6. \A u \in Tab : host'[u] # None => HostKnows(host'[u], store') BY <1>1, <1>2 DEF Continued
<1>7. Rows' /\ OneKind' BY <1>1, <1>2 DEF Continued, Rows, OneKind
<1>. QED BY <1>1, <1>3, <1>5, <1>6, <1>7, Resting DEF Continued

LEMMA QuitContinues ==
  ASSUME Continued, NEW t \in Tab, Quit(t)
  PROVE  Continued'
<1> DEFINE z == Abandon(tab[t], TRUE)
<1> DEFINE x == [z EXCEPT !.quitting = TRUE]
<1>1. rows = "battery" /\ used' = used BY DEF Quit
<1>2. Step(t, IF tab[t].stage # "swapped" /\ ~Writing(tab[t]) /\ MayPersist(x) THEN Persisting(x) ELSE x)
  BY DEF Quit
<1>3. Honest(z, store.battery) BY <1>1, TheTab, AbandonedHonest
<1> HIDE DEF z
<1>4. \A q : [z EXCEPT !.quitting = q] = [active |-> z.active, stage |-> z.stage, cand |-> z.cand, prev |-> z.prev, owed |-> z.owed, quitting |-> q]
  BY <1>3 DEF Honest, Shaped
<1>5. x = [active |-> z.active, stage |-> z.stage, cand |-> z.cand, prev |-> z.prev, owed |-> z.owed, quitting |-> TRUE]
  BY <1>4
<1>6. Honest(x, store.battery) BY <1>3, <1>5 DEF Honest, Shaped, Reads, Writing
<1>7. MayPersist(x) => Honest(Persisting(x), store.battery) BY <1>6, PersistedHonest
<1>. QED BY <1>1, <1>2, <1>6, <1>7, StepContinues, Resting

LEMMA QuitEndsContinues ==
  ASSUME Continued, NEW t \in Tab, QuitEnds(t)
  PROVE  Continued'
<1> DEFINE x == tab[t]
<1> DEFINE y == [x EXCEPT !.active = None, !.quitting = FALSE]
<1>1. ~Writing(x) /\ used' = used /\ Step(t, y) BY DEF QuitEnds
<1>2. Shaped(x) BY TheTab
<1>3. y = [active |-> None, stage |-> x.stage, cand |-> x.cand, prev |-> x.prev, owed |-> x.owed, quitting |-> FALSE]
  <2> HIDE DEF x
  <2>. QED BY <1>2, QuitUpdate
<1>4. CASE rows = "battery"
  BY <1>4, TheTab, <1>1, <1>3, StepContinues, Resting DEF Honest, Reads, Shaped
<1>5. CASE rows # "battery" BY <1>5, TheTab, <1>3, <1>1, StepContinues, Resting DEF Idle, Shaped
<1>. QED BY <1>4, <1>5

-----------------------------------------------------------------------------
(* The database changes.                                                   *)

\* What is in the database is replaced by what continues it.
LEMMA BatteryGrows ==
  ASSUME NEW x, NEW b, Honest(x, b), NEW c, b # None => c # None /\ b.mem \subseteq c.mem
  PROVE  Honest(x, c)
BY DEF Honest, Reads

LEMMA OwesNothing ==
  ASSUME NEW x, Shaped(x), NEW y, y = [x EXCEPT !.owed = {}]
  PROVE  (\A b, c : Honest(x, b) => Honest(y, c)) /\ (Idle(x) => Idle(y))
BY DEF Shaped, Honest, Reads, Idle

LEMMA ResolvedSound ==
  ASSUME NEW m, m # None => Sound(m), NEW p, p.record \in Record, NEW done \in BOOLEAN, NEW shown \in BOOLEAN
  PROVE  LET r == Resolved(m, p, done, shown)
         IN /\ r # None => Sound(r)
            /\ r = m \/ (m # None /\ m.session # None /\ m.session.writing = "putting" /\ m.session.out = p.record)
<1> DEFINE r == Resolved(m, p, done, shown)
<1> DEFINE s == m.session
<1> DEFINE n == Rested([s EXCEPT !.record = IF done THEN p.record ELSE s.record, !.enabled = s.enabled /\ done])
<1> DEFINE changes == m # None /\ s # None /\ s.writing = "putting" /\ s.out = p.record
<1>1. CASE ~changes BY <1>1 DEF Resolved
<1>2. CASE changes
  <2>1. Sound(m) /\ m \in Emulator /\ s \in BatterySession /\ SessionSound(s, m.mem)
    BY <1>2 DEF Sound, Emulator
  <2>2. r = [m EXCEPT !.session = n, !.issue = IF shown THEN ~done ELSE m.issue]
    BY <1>2 DEF Resolved
  <2>3. [s EXCEPT !.record = IF done THEN p.record ELSE s.record, !.enabled = s.enabled /\ done] \in BatterySession
    BY <2>1 DEF BatterySession
  <2>4. /\ n \in BatterySession /\ n.writing = "no" /\ (n.enabled => s.enabled)
        /\ n.record = IF done THEN p.record ELSE s.record
    BY <2>1, <2>3 DEF BatterySession, Rested
  <2>5. SessionSound(n, m.mem) BY <1>2, <2>1, <2>4 DEF SessionSound
  <2> HIDE DEF n
  <2> DEFINE i == IF shown THEN ~done ELSE m.issue
  <2>6. i \in BOOLEAN BY <2>1 DEF Emulator
  <2> HIDE DEF i
  <2>7. r = [mem |-> m.mem, session |-> n, issue |-> i] BY <2>1, <2>2 DEF Emulator, i
  <2>8. Sound(r) BY <2>1, <2>4, <2>5, <2>6, <2>7 DEF Sound, Emulator
  <2>. QED BY <1>2, <2>8
<1>. QED BY <1>1, <1>2

LEMMA PutContinues ==
  ASSUME Kept, Continued, NEW p \in puts, Put(p)
  PROVE  Continued' /\ (store.battery # None /\ store'.battery # None => store.battery.mem \subseteq store'.battery.mem)
         /\ store'.recovery = store.recovery
<1> DEFINE x == tab[p.tab]
<1> DEFINE t == p.tab
<1>1. PICK done \in {Accepts(p), FALSE} :
        /\ store' = [store EXCEPT !.battery = IF done THEN p.record ELSE @]
        /\ tab' = [tab EXCEPT ![t] = [x EXCEPT
              !.active = Resolved(x.active, p, done, TRUE), !.prev = Resolved(x.prev, p, done, FALSE),
              !.owed = IF done \/ ~Awaited(p) THEN x.owed ELSE {}]]
  BY DEF Put
<1>2. puts' = puts \ {p} /\ UNCHANGED <<rows, host, recover, used>> BY DEF Put
<1>3. rows = "battery" /\ t \in Tab /\ p.record \in Record /\ p.record # None
      /\ (p.expected # None => p.expected.mem \subseteq p.record.mem)
  BY NoneAssumption DEF Continued, OneKind, PutsContinue
<1>4. Honest(x, store.battery) /\ Shaped(x) BY <1>3, TheTab
<1>5. done \in BOOLEAN /\ (done => store.battery = p.expected) BY <1>1 DEF Accepts
<1> DEFINE b == store'.battery
<1>6. /\ b = IF done THEN p.record ELSE store.battery
      /\ store'.generation = store.generation /\ store'.revision = store.revision /\ store'.recovery = store.recovery
  BY <1>1 DEF Kept
<1>7. store.battery # None => b # None /\ store.battery.mem \subseteq b.mem BY <1>3, <1>5, <1>6
<1> DEFINE active == Resolved(x.active, p, done, TRUE)
<1> DEFINE prev == Resolved(x.prev, p, done, FALSE)
<1> DEFINE owed == IF done \/ ~Awaited(p) THEN x.owed ELSE {}
<1> DEFINE y == [x EXCEPT !.active = active, !.prev = prev, !.owed = owed]
<1>8. x.active # None => Sound(x.active) BY <1>4 DEF Honest
<1>9. x.prev # None => Sound(x.prev) BY <1>4 DEF Honest
<1>10. /\ active # None => Sound(active)
       /\ active = x.active \/ (x.active # None /\ x.active.session # None /\ x.active.session.writing = "putting"
                                /\ x.active.session.out = p.record)
  BY <1>3, <1>5, <1>8, ResolvedSound
<1>11. prev # None => Sound(prev) BY <1>3, <1>5, <1>9, ResolvedSound
<1>12. owed \subseteq x.owed /\ (active = x.active \/ done \/ owed = {})
  BY <1>10 DEF Awaited, Writing
<1>13. Reads(x, store.battery) BY <1>4 DEF Honest
<1>14. x.stage = "flushing" /\ owed # {}
         => \/ b # None /\ owed \subseteq b.mem
            \/ active # None /\ active.session # None /\ active.session.writing # "no" /\ owed \subseteq active.session.out.mem
  <2>1. SUFFICES ASSUME x.stage = "flushing", owed # {}, ~(b # None /\ owed \subseteq b.mem)
                 PROVE  active # None /\ active.session # None /\ active.session.writing # "no"
                        /\ owed \subseteq active.session.out.mem
    OBVIOUS
  <2>2. Writing(x) /\ x.owed \subseteq x.active.session.out.mem
    BY <1>7, <1>12, <1>13, <2>1 DEF Reads
  <2>3. active = x.active BY <1>3, <1>6, <1>10, <1>12, <2>1, <2>2
  <2>. QED BY <1>12, <2>2, <2>3 DEF Writing
<1> HIDE DEF active, prev, owed, b
<1>15. y = [active |-> active, stage |-> x.stage, cand |-> x.cand, prev |-> prev, owed |-> owed, quitting |-> x.quitting]
  <2>1. ASSUME NEW z, z = y
        PROVE  z = [active |-> active, stage |-> x.stage, cand |-> x.cand, prev |-> prev, owed |-> owed, quitting |-> x.quitting]
    BY <1>4, <2>1 DEF Shaped
  <2>. QED BY <2>1
<1>16. tab' = [tab EXCEPT ![t] = y] BY <1>1 DEF active, prev, owed
<1> HIDE DEF y
<1>17. Reads(y, b) BY <1>12, <1>13, <1>14, <1>15 DEF Reads, Writing
<1>18. Honest(y, b) BY <1>4, <1>10, <1>11, <1>15, <1>17 DEF Honest, Shaped
<1>19. \A u \in Tab : tab'[u] = IF u = t THEN y ELSE tab[u] BY <1>16, <1>3 DEF Continued
<1>20. \A u \in Tab : Honest(tab'[u], b) BY <1>3, <1>7, <1>18, <1>19, BatteryGrows DEF Continued
<1>21. PutsContinue' BY <1>2 DEF Continued, PutsContinue
<1>22. tab' = [u \in Tab |-> tab'[u]] /\ host' = [u \in Tab |-> host'[u]] /\ recover' = [u \in Tab |-> recover'[u]]
  BY <1>2, <1>16 DEF Continued
<1>23. Rows' BY <1>3, <1>6 DEF Continued, Rows, Known, b
<1>24. \A u \in Tab : host'[u] # None => HostKnows(host'[u], store')
  BY <1>2, <1>6 DEF Continued, HostKnows, Known
<1>25. OneKind' BY <1>2, <1>3, <1>6 DEF Continued, OneKind
<1>26. Continued' BY <1>2, <1>3, <1>20, <1>21, <1>22, <1>23, <1>24, <1>25, Resting DEF Continued, b
<1>. QED BY <1>6, <1>7, <1>26 DEF b

\* A database without a recovery, in which no row is newer, and no tab owes
\* anything: everything has been cleared, or one row was deleted.
LEMMA EmptiedContinues ==
  ASSUME Continued, store'.battery = None, store'.recovery = None,
         store'.generation \in Nat, store'.revision \in Nat,
         store'.generation > store.generation
           \/ (store'.generation = store.generation /\ store'.revision >= store.revision),
         tab' = [u \in Tab |-> [tab[u] EXCEPT !.owed = {}]],
         UNCHANGED <<rows, host, recover, puts>>, Counts'
  PROVE  Continued'
<1>1. \A u \in Tab : IF rows' = "battery" THEN Honest(tab'[u], store'.battery) ELSE Idle(tab'[u])
  <2>1. ASSUME NEW u \in Tab PROVE IF rows' = "battery" THEN Honest(tab'[u], store'.battery) ELSE Idle(tab'[u])
    BY TheTab, OwesNothing
  <2>. QED BY <2>1
<1>2. tab' = [u \in Tab |-> tab'[u]] /\ host' = [u \in Tab |-> host'[u]] /\ recover' = [u \in Tab |-> recover'[u]]
  BY DEF Continued
<1>3. Rows' /\ OneKind' BY DEF Continued, Rows, OneKind
<1>4. \A row : Known(row, store) => Known(row, store') BY DEF Continued, Rows, Known
<1>5. \A u \in Tab : host'[u] # None => HostKnows(host'[u], store')
  BY <1>4 DEF Continued, Rows, HostKnows
<1>. QED BY <1>1, <1>2, <1>3, <1>5, Resting DEF Continued

LEMMA DeletedContinues ==
  ASSUME Kept, Continued, Deleted
  PROVE  Continued' /\ store'.battery = None /\ store'.recovery = None
BY EmptiedContinues DEF Deleted, Kept, Continued, Counts, Rows

LEMMA ClearedContinues ==
  ASSUME Kept, Continued, NEW t \in Tab, Cleared(t)
  PROVE  Continued' /\ (store' = store \/ (store'.battery = None /\ store'.recovery = None))
BY EmptiedContinues, Resting DEF Empty, Cleared, Continued, Rows, OneKind

\* What is stopped keeps what it knows.
LEMMA HaltedKnows ==
  ASSUME NEW h, NEW db, h # None => HostKnows(h, db)
  PROVE  /\ Halt(h) # None => HostKnows(Halt(h), db)
         /\ h # None => HostKnows(Halt(h), db)
         /\ h = None => Halt(h) = None
BY DEF Halt, HostKnows

LEMMA ClearAskedContinues ==
  ASSUME Continued, NEW t \in Tab, ClearAsked(t)
  PROVE  Continued'
<1> DEFINE x == tab[t]
<1> DEFINE m == IF x.active = None \/ x.active.session = None THEN x.active ELSE [x.active EXCEPT !.session.enabled = FALSE]
<1> DEFINE y == [x EXCEPT !.active = m]
<1>1. /\ host' = [host EXCEPT ![t] = Halt(host[t])] /\ tab' = [tab EXCEPT ![t] = y]
      /\ UNCHANGED <<rows, recover, store, puts>>
  BY DEF ClearAsked
<1>2. Counts' BY DEF ClearAsked, Continued, Counts
<1>3. Shaped(x) /\ PutsContinue' BY <1>1, TheTab, Resting
<1>4. IF rows = "battery" THEN Honest(y, store.battery) ELSE Idle(y)
  <2>1. CASE m = x.active
    <3>1. y = x BY <1>3, <2>1 DEF Shaped
    <3>. QED BY <3>1, TheTab
  <2>2. CASE m # x.active
    <3>1. x.active # None /\ x.active.session # None /\ m = [x.active EXCEPT !.session.enabled = FALSE]
      BY <2>2
    <3>2. /\ rows = "battery" /\ x.active \in Emulator /\ x.active.session \in BatterySession
          /\ SessionSound(x.active.session, x.active.mem) /\ Honest(x, store.battery)
      BY <3>1, TheTab
    <3> DEFINE n == [x.active.session EXCEPT !.enabled = FALSE]
    <3>3. n \in BatterySession /\ n.record = x.active.session.record /\ n.writing = x.active.session.writing
          /\ n.out = x.active.session.out /\ (n.enabled => x.active.session.enabled)
      BY <3>2 DEF BatterySession
    <3>4. m = [x.active EXCEPT !.session = n] BY <3>1
    <3> HIDE DEF n, m
    <3>5. m = [mem |-> x.active.mem, session |-> n, issue |-> x.active.issue]
      BY <3>2, <3>4 DEF Emulator
    <3>6. SessionSound(n, x.active.mem) BY <3>2, <3>3 DEF SessionSound
    <3>7. Sound(m) /\ m # None /\ n # None
      BY <3>2, <3>3, <3>5, <3>6, NoneAssumption DEF Sound, Emulator
    <3>8. y = [active |-> m, stage |-> x.stage, cand |-> x.cand, prev |-> x.prev, owed |-> x.owed, quitting |-> x.quitting]
      BY <1>3, PlayerUpdate
    <3>9. Reads(x, store.battery) BY <3>2 DEF Honest
    <3>10. x.stage = "flushing" /\ x.owed # {}
             => \/ store.battery # None /\ x.owed \subseteq store.battery.mem
                \/ m # None /\ m.session # None /\ m.session.writing # "no" /\ x.owed \subseteq m.session.out.mem
      BY <3>3, <3>5, <3>7, <3>9 DEF Reads, Writing
    <3>11. Honest(y, store.battery) BY <3>2, <3>7, <3>8, <3>10, WithActive
    <3>. QED BY <3>2, <3>11
  <2>. QED BY <2>1, <2>2
<1>5. \A u \in Tab : tab'[u] = (IF u = t THEN y ELSE tab[u]) /\ host'[u] = (IF u = t THEN Halt(host[t]) ELSE host[u])
  BY <1>1 DEF Continued
<1> HIDE DEF y
<1>6. \A u \in Tab : IF rows' = "battery" THEN Honest(tab'[u], store'.battery) ELSE Idle(tab'[u])
  BY <1>1, <1>4, <1>5 DEF Continued
<1>7. \A u \in Tab : host'[u] # None => HostKnows(host'[u], store')
  BY <1>1, <1>5, HaltedKnows DEF Continued
<1>8. Rows' /\ OneKind' BY <1>1, <1>5, HaltedKnows DEF Continued, Rows, OneKind
<1>9. tab' = [u \in Tab |-> tab'[u]] /\ host' = [u \in Tab |-> host'[u]] /\ recover' = [u \in Tab |-> recover'[u]]
  BY <1>1 DEF Continued
<1>. QED BY <1>2, <1>3, <1>6, <1>7, <1>8, <1>9 DEF Continued

-----------------------------------------------------------------------------
(* The steps of the captures.                                              *)

LEMMA TheHost ==
  ASSUME Continued, NEW t \in Tab, host[t] # None
  PROVE  rows = "captures" /\ HostKnows(host[t], store) /\ Rows
BY DEF Continued, OneKind

LEMMA DrainedKnows ==
  ASSUME NEW h, NEW db, HostKnows(h, db)
  PROVE  HostKnows(Drained(h), db)
BY DEF Drained, HostKnows

LEMMA BrokenKnows ==
  ASSUME NEW h, NEW db, HostKnows(h, db), h # None
  PROVE  HostKnows(Broken(h), db)
BY HaltedKnows, DrainedKnows DEF Broken

LEMMA HostBeginsContinues ==
  ASSUME Kept, Continued, NEW t \in Tab, HostBegins(t)
  PROVE  Continued'
<1>1. rows = "captures" /\ host' = [host EXCEPT ![t] = Host] /\ UNCHANGED <<rows, store, puts, tab, recover, used>>
  BY DEF HostBegins, Capturing
<1>2. HostKnows(Host, store) BY DEF Host, Kept, ClearedStaysCleared, Continued, HostKnows, Rows
<1>. QED BY <1>1, <1>2, HostOnly

LEMMA HostEndsContinues ==
  ASSUME Continued, NEW t \in Tab, HostEnds(t)
  PROVE  Continued'
BY TheHost, HaltedKnows, HostOnly DEF HostEnds, Capturing

LEMMA HostSuspendsContinues ==
  ASSUME Continued, NEW t \in Tab, HostSuspends(t)
  PROVE  Continued'
<1> DEFINE h == host[t]
<1> DEFINE k == [h EXCEPT !.current = ~h.current]
<1>1. h # None /\ host' = [host EXCEPT ![t] = k] /\ UNCHANGED <<rows, store, puts, tab, recover, used>>
  BY DEF HostSuspends, Capturing
<1>2. HostKnows(h, store) /\ rows = "captures" BY <1>1, TheHost
<1>3. k = [active |-> h.active, current |-> ~h.current, pending |-> h.pending, writing |-> h.writing,
           stored |-> h.stored, last |-> h.last, out |-> h.out]
  BY <1>2 DEF HostKnows
<1> HIDE DEF k
<1>4. k.writing = h.writing /\ k.stored = h.stored /\ k.out = h.out BY <1>3
<1>5. HostKnows(k, store) BY <1>2, <1>3, <1>4 DEF HostKnows
<1>. QED BY <1>1, <1>2, <1>5, HostOnly

LEMMA CaptureContinues ==
  ASSUME Continued, NEW t \in Tab, Capture(t)
  PROVE  Continued'
<1> DEFINE h == host[t]
<1> DEFINE k == IF h.writing = "no" THEN [h EXCEPT !.writing = "exporting"] ELSE [h EXCEPT !.pending = TRUE]
<1>1. h # None /\ host' = [host EXCEPT ![t] = k] /\ UNCHANGED <<rows, store, puts, tab, recover, used>>
  BY DEF Capture, Capturing
<1>2. HostKnows(h, store) /\ rows = "captures" BY <1>1, TheHost
<1>3. \E writing, pending :
        /\ writing = "stored" => h.writing = "stored"
        /\ k = [active |-> h.active, current |-> h.current, pending |-> pending, writing |-> writing,
                stored |-> h.stored, last |-> h.last, out |-> h.out]
  <2>1. CASE h.writing = "no" BY <1>2, <2>1 DEF HostKnows
  <2>2. CASE h.writing # "no" BY <1>2, <2>2 DEF HostKnows
  <2>. QED BY <2>1, <2>2
<1> HIDE DEF k
<1>4. HostKnows(k, store)
  <2>1. PICK writing, pending :
        /\ writing = "stored" => h.writing = "stored"
        /\ k = [active |-> h.active, current |-> h.current, pending |-> pending, writing |-> writing,
                stored |-> h.stored, last |-> h.last, out |-> h.out]
    BY <1>3
  <2>2. k.writing = writing /\ k.stored = h.stored /\ k.out = h.out BY <2>1
  <2>. QED BY <1>2, <2>1, <2>2 DEF HostKnows
<1>. QED BY <1>1, <1>2, <1>4, HostOnly

LEMMA CapturedContinues ==
  ASSUME Continued, NEW t \in Tab, Captured(t)
  PROVE  Continued'
<1> DEFINE h == host[t]
<1>1. h # None /\ UNCHANGED <<rows, store, puts, tab, recover, used>> BY DEF Captured, Capturing
<1>2. HostKnows(h, store) /\ rows = "captures" BY <1>1, TheHost
<1>3. \/ host' = [host EXCEPT ![t] = Drained(h)] \/ host' = [host EXCEPT ![t] = Broken(h)]
      \/ \E mem : host' = [host EXCEPT ![t] = [h EXCEPT !.writing = "putting", !.out = mem]]
  BY DEF Captured, Capturing
<1>4. CASE host' = [host EXCEPT ![t] = Drained(h)] BY <1>1, <1>2, <1>4, DrainedKnows, HostOnly
<1>5. CASE host' = [host EXCEPT ![t] = Broken(h)] BY <1>1, <1>2, <1>5, BrokenKnows, HostOnly
<1>6. ASSUME NEW mem, host' = [host EXCEPT ![t] = [h EXCEPT !.writing = "putting", !.out = mem]]
      PROVE  Continued'
  <2> DEFINE k == [h EXCEPT !.writing = "putting", !.out = mem]
  <2>1. ASSUME NEW z, z = k
        PROVE  z = [active |-> h.active, current |-> h.current, pending |-> h.pending, writing |-> "putting",
                    stored |-> h.stored, last |-> h.last, out |-> mem]
    BY <1>2, <2>1 DEF HostKnows
  <2> HIDE DEF k
  <2>2. k = [active |-> h.active, current |-> h.current, pending |-> h.pending, writing |-> "putting",
             stored |-> h.stored, last |-> h.last, out |-> mem]
    BY <2>1
  <2>3. k.writing = "putting" /\ k.stored = h.stored BY <2>2
  <2>4. HostKnows(k, store) BY <1>2, <2>2, <2>3 DEF HostKnows
  <2>. QED BY <1>1, <1>2, <1>6, <2>4, HostOnly DEF k
<1>. QED BY <1>3, <1>4, <1>5, <1>6

\* changeRecovery replaces a row only by one that keeps its first capture: the
\* row that the host knows, of this revision, is the one in the database.
LEMMA StoredContinues ==
  ASSUME Kept, Continued, NEW t \in Tab, Stored(t)
  PROVE  /\ Continued' /\ store'.battery = store.battery
         /\ store.recovery # None /\ store'.recovery # store.recovery
              => store'.recovery.captures[2] = store.recovery.captures[1]
<1> DEFINE h == host[t]
<1> DEFINE row == [revision |-> store.revision + 1, generation |-> h.stored.generation,
                   captures |-> IF h.stored.record = None THEN <<h.out>> ELSE <<h.out, h.stored.record.captures[1]>>]
<1> DEFINE k == [h EXCEPT !.writing = "stored", !.out = row]
<1>1. h # None /\ UNCHANGED <<rows, puts, tab, recover>> BY DEF Stored, Capturing
<1>2. HostKnows(h, store) /\ rows = "captures" /\ Rows BY <1>1, TheHost
<1>3. CASE host' = [host EXCEPT ![t] = Broken(h)] /\ UNCHANGED <<store, used>>
  BY <1>1, <1>2, <1>3, BrokenKnows, HostOnly
<1>4. CASE /\ Unchanged(h) /\ store' = [store EXCEPT !.recovery = row, !.revision = store.revision + 1]
           /\ used' = [used EXCEPT !.writes = @ + 1] /\ host' = [host EXCEPT ![t] = k]
  <2>1. h.stored.generation = store.generation /\ (h.stored.record = None <=> store.recovery = None)
        /\ (store.recovery # None => h.stored.record.revision = store.recovery.revision)
    BY <1>4 DEF Unchanged
  <2>2. store.recovery # None => h.stored.record = store.recovery BY <1>2, <2>1 DEF HostKnows, Known
  <2>3. row.revision = store.revision + 1 /\ row.generation = store.generation
        /\ (store.recovery # None => row.captures = <<h.out, store.recovery.captures[1]>>)
    BY <2>1, <2>2
  <2> HIDE DEF row
  <2>4. store'.recovery = row /\ store'.revision = store.revision + 1 /\ store'.generation = store.generation
        /\ store'.battery = store.battery
    BY <1>4 DEF Kept
  <2>5. \A r : Known(r, store) => Known(r, store') BY <1>2, <2>3, <2>4 DEF Known, Rows
  <2>6. Known(row, store') BY <1>2, <2>3, <2>4 DEF Known, Rows
  <2>7. HostKnows(h, store') BY <1>2, <2>4, <2>5 DEF HostKnows
  <2>8. ASSUME NEW z, z = k
        PROVE  z = [active |-> h.active, current |-> h.current, pending |-> h.pending, writing |-> "stored",
                    stored |-> h.stored, last |-> h.last, out |-> row]
    BY <1>2, <2>8 DEF HostKnows
  <2> HIDE DEF k
  <2>9. k = [active |-> h.active, current |-> h.current, pending |-> h.pending, writing |-> "stored",
             stored |-> h.stored, last |-> h.last, out |-> row]
    BY <2>8
  <2>10. k.writing = "stored" /\ k.stored = h.stored /\ k.out = row BY <2>9
  <2>11. HostKnows(k, store') BY <2>1, <2>3, <2>6, <2>7, <2>9, <2>10 DEF HostKnows
  <2>12. \A u \in Tab : host'[u] = IF u = t THEN k ELSE host[u] BY <1>4 DEF Continued, k
  <2>13. \A u \in Tab : host[u] # None => HostKnows(host[u], store')
    BY <2>4, <2>5 DEF Continued, HostKnows
  <2>14. \A u \in Tab : host'[u] # None => HostKnows(host'[u], store') BY <2>11, <2>12, <2>13
  <2>15. Rows' /\ OneKind' BY <1>1, <1>2, <2>4, <2>6 DEF Continued, Rows, OneKind
  <2>16. Counts' BY <1>4 DEF Continued, Counts
  <2>17. \A u \in Tab : IF rows' = "battery" THEN Honest(tab'[u], store'.battery) ELSE Idle(tab'[u])
    BY <1>1, <2>4 DEF Continued
  <2>18. tab' = [u \in Tab |-> tab'[u]] /\ host' = [u \in Tab |-> host'[u]] /\ recover' = [u \in Tab |-> recover'[u]]
    BY <1>1, <1>4 DEF Continued
  <2>19. Continued' BY <1>1, <2>14, <2>15, <2>16, <2>17, <2>18, Resting DEF Continued
  <2>20. store.recovery # None => store'.recovery.captures[2] = store.recovery.captures[1]
    BY <2>3, <2>4
  <2>. QED BY <2>4, <2>19, <2>20
<1>. QED BY <1>3, <1>4 DEF Stored, Capturing

LEMMA CapturesContinues ==
  ASSUME Continued, NEW t \in Tab, Captures(t)
  PROVE  Continued'
<1> DEFINE h == host[t]
<1> DEFINE k == [h EXCEPT !.stored.record = h.out, !.last = h.out.captures[1]]
<1>1. /\ h # None /\ h.writing = "stored" /\ host' = [host EXCEPT ![t] = Drained(IF Owns(h) THEN k ELSE h)]
      /\ UNCHANGED <<rows, store, puts, tab, recover, used>>
  BY DEF Captures, Capturing
<1>2. HostKnows(h, store) /\ rows = "captures" BY <1>1, TheHost
<1> DEFINE v == [h.stored EXCEPT !.record = h.out]
<1> DEFINE last == h.out.captures[1]
<1>3. v = [generation |-> h.stored.generation, record |-> h.out] BY <1>2 DEF HostKnows
<1>4. k = [h EXCEPT !.stored = v, !.last = last] OBVIOUS
<1> HIDE DEF v, last, k
<1>5. k = [active |-> h.active, current |-> h.current, pending |-> h.pending, writing |-> h.writing,
           stored |-> v, last |-> last, out |-> h.out]
  BY <1>2, <1>4 DEF HostKnows
<1>6. k.stored = v /\ v.generation = h.stored.generation /\ v.record = h.out /\ k.out = h.out /\ k.writing = h.writing
  BY <1>3, <1>5
<1>7. HostKnows(k, store) BY <1>1, <1>2, <1>3, <1>5, <1>6 DEF HostKnows
<1>8. HostKnows(Drained(IF Owns(h) THEN k ELSE h), store) BY <1>2, <1>7, DrainedKnows
<1>. QED BY <1>1, <1>2, <1>8, HostOnly

-----------------------------------------------------------------------------
(* The steps of a recovery, and of a game that is kept.                    *)

\* A step that changes at most the game in the database.
LEMMA RestContinues ==
  ASSUME Continued, UNCHANGED <<rows, tab, puts, host, recover>>, Counts',
         store'.battery = store.battery, store'.recovery = store.recovery,
         store'.generation = store.generation, store'.revision = store.revision
  PROVE  Continued'
BY Resting DEF Known, Continued, Rows, OneKind, HostKnows

LEMMA RecoveryReadContinues ==
  ASSUME Continued, NEW t \in Tab, RecoveryRead(t) \/ RecoveryCommitted(t)
  PROVE  Continued'
BY Resting DEF RecoveryRead, RecoveryCommitted, Continued, Counts, OneKind, Rows

LEMMA RecoveryEndedContinues ==
  ASSUME Continued, NEW t \in Tab, RecoveryEnded(t)
  PROVE  Continued'
<1> DEFINE x == tab[t]
<1> DEFINE m == [x.active EXCEPT !.mem = recover[t].mem]
<1> DEFINE y == [x EXCEPT !.active = m]
<1>1. recover[t] # None /\ recover' = [recover EXCEPT ![t] = None] /\ UNCHANGED <<rows, store, puts, host, used>>
  BY DEF RecoveryEnded
<1>2. rows = "captures" /\ Rows' /\ OneKind' /\ recover' = [u \in Tab |-> recover'[u]]
  BY <1>1 DEF Continued, OneKind, Rows
<1>3. CASE UNCHANGED tab BY <1>1, <1>2, <1>3, Resting DEF Continued
<1>4. CASE x.active # None /\ tab' = [tab EXCEPT ![t] = y]
  <2>1. Idle(x) BY <1>2, TheTab
  <2>2. m = Machine(recover[t].mem, None, x.active.issue) BY <1>4, <2>1 DEF Idle, Machine
  <2> HIDE DEF m
  <2>3. y = [active |-> m, stage |-> x.stage, cand |-> x.cand, prev |-> x.prev, owed |-> x.owed, quitting |-> x.quitting]
    BY <2>1, PlayerUpdate DEF Idle
  <2>4. Idle(y) BY <2>1, <2>2, <2>3 DEF Idle, Shaped, Machine
  <2> HIDE DEF y
  <2>5. \A u \in Tab : Idle(tab'[u]) BY <1>2, <1>4, <2>4 DEF Continued
  <2>6. tab' = [u \in Tab |-> tab'[u]] BY <1>4 DEF Continued
  <2>. QED BY <1>1, <1>2, <2>5, <2>6, Resting DEF Continued
<1>5. RecoveryEnded(t) => UNCHANGED tab \/ (x.active # None /\ tab' = [tab EXCEPT ![t].active.mem = recover[t].mem])
  BY DEF RecoveryEnded
<1>. QED BY <1>3, <1>4, <1>5

LEMMA GameContinues ==
  ASSUME Kept, Continued, GameDeleted \/ \E t \in Tab : GameRead(t) \/ GamePut(t)
  PROVE  Continued' /\ store'.battery = store.battery /\ store'.recovery = store.recovery
<1>1. /\ store'.battery = store.battery /\ store'.recovery = store.recovery
      /\ store'.generation = store.generation /\ store'.revision = store.revision
  BY DEF Kept, GameDeleted, GameRead, GamePut
<1>2. UNCHANGED <<rows, tab, puts, host, recover>> /\ Counts'
  BY DEF GameDeleted, GameRead, GamePut, Continued, Counts
<1>. QED BY <1>1, <1>2, RestContinues

-----------------------------------------------------------------------------
(* The theorems.                                                           *)

LEMMA InitContinued ==
  ASSUME Init
  PROVE  Kept /\ Continued
BY OpeningHonest, EmptyKept DEF Init, Empty, PutsContinue, Rows, OneKind, Counts, Continued

\* The steps of a player and of the captures that leave the database alone.
Local(t) ==
  \/ Play(t) \/ Autosave(t) \/ Exported(t) \/ ExportDropped(t) \/ Retry(t)
  \/ Load(t) \/ Ready(t) \/ Opened(t) \/ Imported(t) \/ Commit(t)
  \/ Stage(t) \/ Swap(t) \/ Finish(t) \/ Dropped(t)
  \/ Stopped(t) \/ Reload(t) \/ Quit(t) \/ QuitEnds(t)
  \/ HostBegins(t) \/ HostEnds(t) \/ HostSuspends(t) \/ Capture(t) \/ Captured(t)
  \/ Captures(t) \/ ClearAsked(t)
  \/ RecoveryRead(t) \/ RecoveryCommitted(t) \/ RecoveryEnded(t)

LEMMA LocalContinues ==
  ASSUME Kept, Continued, NEW t \in Tab, Local(t)
  PROVE  Continued' /\ store' = store
<1>1. store' = store
  BY DEF Local, Play, Autosave, Exported, ExportDropped, Retry, Load, Ready, Opened, Imported, Commit,
         Stage, Swap, Finish, Dropped, Stopped, Reload, Quit, QuitEnds, Step,
         HostBegins, HostEnds, HostSuspends, Capture, Captured, Captures, Capturing, ClearAsked,
         RecoveryRead, RecoveryCommitted, RecoveryEnded
<1>2. CASE Play(t) \/ Autosave(t) \/ Exported(t) \/ ExportDropped(t) \/ Retry(t)
  BY <1>1, <1>2, PlayContinues, AutosaveContinues, ExportedContinues, ExportDroppedContinues, RetryContinues
<1>3. CASE Load(t) \/ Ready(t) \/ Opened(t) \/ Imported(t) \/ Commit(t)
  BY <1>1, <1>3, LoadContinues, ReadyContinues, OpenedContinues, ImportedContinues, CommitContinues
<1>4. CASE Stage(t) \/ Swap(t) \/ Finish(t) \/ Dropped(t)
  BY <1>1, <1>4, StageContinues, SwapContinues, FinishContinues, DroppedContinues
<1>5. CASE Stopped(t) \/ Reload(t) \/ Quit(t) \/ QuitEnds(t)
  BY <1>1, <1>5, StoppedContinues, ReloadContinues, QuitContinues, QuitEndsContinues
<1>6. CASE HostBegins(t) \/ HostEnds(t) \/ HostSuspends(t) \/ Capture(t) \/ Captured(t) \/ Captures(t)
  BY <1>1, <1>6, HostBeginsContinues, HostEndsContinues, HostSuspendsContinues, CaptureContinues, CapturedContinues,
     CapturesContinues
<1>7. CASE ClearAsked(t) \/ RecoveryRead(t) \/ RecoveryCommitted(t) \/ RecoveryEnded(t)
  BY <1>1, <1>7, ClearAskedContinues, RecoveryReadContinues, RecoveryEndedContinues
<1>. QED BY <1>1, <1>2, <1>3, <1>4, <1>5, <1>6, <1>7 DEF Local

\* What NoLostUpdate says of a step.
Continuing ==
  /\ store.battery # None /\ store'.battery # None => store.battery.mem \subseteq store'.battery.mem
  /\ store.recovery # None /\ store'.recovery # None /\ store'.recovery # store.recovery
       => store'.recovery.captures[2] = store.recovery.captures[1]

LEMMA StepContinued ==
  ASSUME Kept, Continued, [Next]_vars
  PROVE  Continued' /\ Continuing
<1>1. ASSUME NEW t \in Tab, Local(t) PROVE Continued' /\ Continuing
  BY <1>1, LocalContinues DEF Continuing
<1>2. ASSUME NEW p \in puts, Put(p) PROVE Continued' /\ Continuing
  BY <1>2, PutContinues DEF Continuing
<1>3. ASSUME NEW t \in Tab, Stored(t) PROVE Continued' /\ Continuing
  BY <1>3, StoredContinues DEF Continuing
<1>4. ASSUME NEW t \in Tab, Cleared(t) PROVE Continued' /\ Continuing
  BY <1>4, ClearedContinues DEF Continuing
<1>5. CASE Deleted BY <1>5, DeletedContinues DEF Continuing
<1>6. CASE GameDeleted \/ \E t \in Tab : GameRead(t) \/ GamePut(t)
  BY <1>6, GameContinues DEF Continuing
<1>7. CASE UNCHANGED vars BY <1>7, RestContinues, Resting DEF vars, Continuing
<1>. QED BY <1>1, <1>2, <1>3, <1>4, <1>5, <1>6, <1>7 DEF Next, Local

\* A tab continues from what it had to save, or its player is told.
LEMMA ContinuedReads ==
  ASSUME Continued
  PROVE  OwnProgressRead
<1> SUFFICES ASSUME NEW t \in Tab, tab[t].stage \in {"ready", "staged"}, tab[t].cand.session # None
             PROVE  tab[t].cand.issue \/ tab[t].owed \subseteq tab[t].cand.mem
  BY DEF OwnProgressRead
<1>1. rows = "battery" /\ Honest(tab[t], store.battery) BY TheTab
<1>. QED BY <1>1 DEF Honest, Reads

\* However many tabs play, save, clear and select the game again: a game that is
\* selected continues from what this tab had to save then, or it says that it
\* could not.
THEOREM OwnProgressKept == Spec => []OwnProgressRead
<1>1. Init => Kept /\ Continued BY InitContinued
<1>2. Kept /\ Continued /\ [Next]_vars => (Kept /\ Continued)' BY KeptStep, StepContinued
<1>3. Kept /\ Continued => OwnProgressRead BY ContinuedReads
<1>. QED BY <1>1, <1>2, <1>3, PTL DEF Spec

\* However many tabs write: a record is replaced only by one that continues it,
\* and a capture only by one that keeps it as the former.
THEOREM UpdatesContinue == Spec => NoLostUpdate
<1>1. Init => Kept /\ Continued BY InitContinued
<1>2. Kept /\ Continued /\ [Next]_vars => (Kept /\ Continued)' BY KeptStep, StepContinued
<1>3. Kept /\ Continued /\ [Next]_vars => Continuing BY StepContinued
<1>. QED BY <1>1, <1>2, <1>3, PTL DEF Spec, NoLostUpdate, Continuing
=============================================================================
