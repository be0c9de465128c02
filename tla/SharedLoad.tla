------------------------------ MODULE SharedLoad ------------------------------
(***************************************************************************)
(* A coordinated load of saved progress, end to end: the coordinator's     *)
(* phases, the clients that follow its events, and the native machines     *)
(* whose state is replaced.  GameSession has the coordinator with members  *)
(* that answer anything; this module has members that do what the client   *)
(* does, over sockets and links that break, with machines that fail.       *)
(*                                                                         *)
(* A machine's state is the number of the load it comes from, 0 before     *)
(* any.  The game is paused when a load is proposed: freezing a running    *)
(* one is module Timeline.  A command is handled where it is sent; events  *)
(* wait in an inbox, and requests wait for the worker, in order.  The room *)
(* view a member has is the one that came with the events before it.       *)
(***************************************************************************)
EXTENDS Integers, Sequences, SequencesExt

CONSTANTS
  Nil,
  Host,
  Guest,      \* the other players
  Replaced,   \* members whose socket may be replaced before it is missed
  MaxLoad,    \* bound on the loads
  MaxResume,  \* bound on the resumptions
  MaxFault    \* bound on lost sockets, lost links and failing machines

ASSUME LoadAssumption ==
  Host \notin Guest /\ Replaced \subseteq Guest \cup {Host} /\ {MaxLoad, MaxResume, MaxFault} \subseteq Nat

Member == Guest \cup {Host}

VARIABLES
  coord,    \* the session: load, the state it knows, its barrier, its sockets
  linked,   \* the guests whose channel to the host is open
  client,   \* GameClient of each member
  worker,   \* the machine of each member
  jobs,     \* the requests its worker still has to handle
  spent     \* loads, resumptions and faults so far; the host's machine did not go back

loadVars == <<coord, linked, client, worker, jobs, spent>>

Event(type, id) == [type |-> type, id |-> id, epoch |-> 0]
\* gamePrepare: of one barrier only.
Barrier(id, epoch) == [type |-> "Prepare", id |-> id, epoch |-> epoch]
-----------------------------------------------------------------------------
(* The coordinator (GameSession).                                          *)

SendTo(k, members, event) ==
  [k EXCEPT !.inbox = [m \in Member |-> IF m \in members \cap k.connected
                                        THEN Append(@[m], event) ELSE @[m]]]
Available(k) == k.connected = Member /\ k.transport = Guest

\* Mutation: the host's answer is not waited for once the time is up.
FinishRollbackWithoutHost(k, timedOut) ==
  IF \/ k.load = Nil \/ (k.load.phase # "rolling_back")
     \/ ~timedOut /\ k.connected \ k.load.rolledBack # {}
  THEN k
  ELSE SendTo([k EXCEPT !.load = Nil, !.status = "paused"], Member, Event("Stop", 0))
FinishRollback(k, timedOut) ==
  IF \/ k.load = Nil \/ (k.load.phase # "rolling_back") \/ Host \notin k.load.rolledBack
     \/ ~timedOut /\ k.connected \ k.load.rolledBack # {}
  THEN k
  ELSE SendTo([k EXCEPT !.load = Nil, !.status = "paused"], Member, Event("Stop", 0))

AbortLoad(k) ==
  IF k.load = Nil \/ k.load.phase = "rolling_back" THEN k
  ELSE FinishRollback(
         SendTo([k EXCEPT !.load.phase = "rolling_back", !.status = "paused",
                          !.load.rolledBack = Member \ k.load.boundaries],
                k.load.boundaries, Event("Rollback", k.load.id)), FALSE)

Stop(k) ==
  IF k.load # Nil THEN AbortLoad(k)
  ELSE SendTo([k EXCEPT !.status = "paused", !.acks = {}], Member, Event("Stop", 0))

\* configure: a member that is not available ends a load or a barrier, and a
\* game without its host is frozen until the time for that is up.
Reconfigured(k) ==
  IF Available(k) THEN k
  ELSE IF k.load # Nil THEN AbortLoad(k)
  ELSE LET stopped == IF k.status = "starting" THEN Stop(k) ELSE k
       IN IF Host \in k.connected THEN stopped ELSE [stopped EXCEPT !.status = "pausing"]

In(k, m, id, phase) == k.load # Nil /\ k.load.id = id /\ k.load.phase = phase /\ m \in k.connected

Boundary(k, m, id) ==
  IF ~In(k, m, id, "freezing") THEN k
  ELSE LET reported == [k EXCEPT !.load.boundaries = @ \cup {m}] IN
       IF reported.load.boundaries # Member THEN reported
       ELSE SendTo(SendTo([reported EXCEPT !.load.phase = "staging", !.status = "paused"],
                          {Host}, Event("Stage", id)),
                   Guest, Event("Receive", id))
Prepared(k, m, id) ==
  IF ~In(k, m, id, "staging") THEN k
  ELSE LET reported == [k EXCEPT !.load.prepared = @ \cup {m}] IN
       IF reported.load.prepared # Member THEN reported
       ELSE SendTo([reported EXCEPT !.load.phase = "committing"], Member, Event("Commit", id))
Committed(k, m, id) ==
  IF ~In(k, m, id, "committing") THEN k
  ELSE LET reported == [k EXCEPT !.load.committed = @ \cup {m}] IN
       IF reported.load.committed # Member THEN reported
       ELSE SendTo([reported EXCEPT !.load = Nil, !.point = id, !.epoch = @ + 1,
                                             !.status = "resume_ready"],
                   Member, Event("Finish", id))
RolledBack(k, m, id) ==
  IF ~In(k, m, id, "rolling_back") \/ m \notin k.load.boundaries THEN k
  ELSE FinishRollback([k EXCEPT !.load.rolledBack = @ \cup {m}], FALSE)
Failed(k, m, id) ==
  IF k.load # Nil /\ k.load.id = id /\ m \in k.connected THEN AbortLoad(k) ELSE k

\* The barrier of a resumption: everybody is at the same state, or nobody starts.
AcceptsAck(k, m, id, epoch) ==
  k.status = "starting" /\ m \in k.connected /\ k.epoch = epoch /\ k.point = id
Acknowledged(k, m) ==
  LET acks == k.acks \cup {m}
  IN [k EXCEPT !.acks = acks, !.status = IF acks = Member THEN "playing" ELSE @]
Aborted(k, m, epoch) ==
  IF m \in k.connected /\ k.epoch = epoch /\ (k.status = "playing" => m = Host) THEN Stop(k) ELSE k
-----------------------------------------------------------------------------
(* The machine (worker.ts).                                                *)

\* clearCandidate: with a candidate goes the copy made for it.
ClearCandidate(w) ==
  [w EXCEPT !.candidate = 0,
            !.rollback = IF @ # Nil /\ ~@.committed /\ @.op = w.candidate THEN Nil ELSE @]

\* Mutation: committing gives the copy up.
CommitForGood(w, id) == [w EXCEPT !.candidate = 0, !.native = id, !.rollback = Nil]
Commit(w, id) == [w EXCEPT !.candidate = 0, !.native = id, !.rollback.committed = TRUE]

\* Mutation: whatever state there is will do.
BindableAnyhow(w, id) == w.rollback = Nil
\* bind: at the state of the session, with no load left to be undone.
Bindable(w, id) == w.rollback = Nil /\ w.native = id

Foreign(w, id) == w.rollback # Nil /\ w.rollback.op # id
Rollback(w, id) ==
  LET own == IF w.candidate = id THEN ClearCandidate(w) ELSE w
  IN IF own.rollback = Nil THEN own
     ELSE [own EXCEPT !.native = IF own.rollback.committed THEN own.rollback.bytes ELSE @,
                      !.rollback = Nil]
-----------------------------------------------------------------------------
(* The client (game-client.ts, player.ts).                                 *)

Job(type, id, use) == [type |-> type, id |-> id, use |-> use, epoch |-> 0]
BindJob(id, epoch) == [type |-> "bind", id |-> id, use |-> "bind", epoch |-> epoch]
\* Answers to uses that are over: nobody waits for them.
Forget(queue, uses) ==
  [i \in DOMAIN queue |-> IF queue[i].use \in uses THEN [queue[i] EXCEPT !.use = "none"] ELSE queue[i]]

\* clear: the attempt is dropped, and its machine rolled back without an answer.
Cleared(c) == [c EXCEPT !.attempt = 0, !.saved = FALSE, !.incoming = "none"]
Clearing(c, queue) ==
  LET left == Forget(queue, {"import", "bind"})
  IN IF c.attempt = 0 THEN left ELSE Append(left, Job("rollback", c.attempt, "none"))
Clear(m) ==
  /\ client' = [client EXCEPT ![m] = Cleared(@)]
  /\ jobs' = [jobs EXCEPT ![m] = Clearing(client[m], @)]

\* A new attempt receives nothing yet.
Holds(m, c, id) ==
  /\ client' = [client EXCEPT ![m] = [c EXCEPT !.attempt = id, !.handling = TRUE, !.incoming = "none"]]
  /\ jobs' = [jobs EXCEPT ![m] = Append(Forget(@, {"import"}), Job("hash", id, "chain"))]
\* A member asks the machine, on behalf of its chain of load events.
Asks(m, c, type, id) ==
  /\ client' = [client EXCEPT ![m] = [c EXCEPT !.handling = TRUE]]
  /\ jobs' = [jobs EXCEPT ![m] = Append(@, Job(type, id, "chain"))]
\* A barrier replaces the one before, and what is being received.
Binds(m, c, event) ==
  /\ client' = [client EXCEPT ![m] = [c EXCEPT !.incoming = "none"]]
  /\ jobs' = [jobs EXCEPT ![m] = Append(Forget(@, {"import", "bind"}), BindJob(event.id, event.epoch))]

\* The chain goes on before the next event is looked at, except where the host
\* reads its saved progress again.
Settled(m) ==
  ~client[m].handling /\ client[m].chain # <<>> =>
    m = Host /\ Head(client[m].chain).type \in {"Stage", "Commit"}

\* handle: load events join the chain, the others are handled at once.
Deliver(m) ==
  /\ coord.inbox[m] # <<>> /\ Settled(m)
  /\ coord' = [coord EXCEPT !.inbox[m] = Tail(@)]
  /\ LET event == Head(coord.inbox[m])
         c     == client[m]
         chained == [c EXCEPT !.chain = Append(@, event)]
     IN CASE event.type = "Stop" -> Clear(m)
          [] event.type = "Prepare" /\ c.attempt = 0 -> Binds(m, c, event)
          [] event.type = "Receive" ->
               /\ client' = [client EXCEPT ![m].incoming = IF c.attempt = event.id THEN "asked" ELSE @]
               /\ UNCHANGED jobs
          [] event.type = "Rollback" ->
               /\ client' = [client EXCEPT ![m] =
                    [chained EXCEPT !.attempt = IF @ = 0 THEN event.id ELSE @, !.incoming = "none"]]
               /\ jobs' = [jobs EXCEPT ![m] = Forget(@, {"import"})]
          [] OTHER -> client' = [client EXCEPT ![m] = chained] /\ UNCHANGED jobs
  /\ UNCHANGED <<linked, worker, spent>>

\* loadEvents: one event after the other; one of another attempt is dropped.
HandleLoad(m) ==
  /\ ~client[m].handling /\ client[m].chain # <<>>
  /\ LET event == Head(client[m].chain)
         c     == [client[m] EXCEPT !.chain = Tail(@)]
         Drop  == client' = [client EXCEPT ![m] = c] /\ UNCHANGED <<coord, jobs>>
     IN CASE event.type = "Hold" ->
               Holds(m, c, event.id) /\ UNCHANGED coord
          [] event.type = "Prepare" ->
               IF c.attempt = 0 THEN Binds(m, c, event) /\ UNCHANGED coord ELSE Drop
          [] event.type \notin {"Hold", "Prepare"} /\ c.attempt # event.id -> Drop
          [] OTHER ->
               IF event.type \in {"Stage", "Commit"} /\ m = Host /\ ~c.saved
               THEN /\ client' = [client EXCEPT ![m] = c] /\ UNCHANGED jobs
                    /\ coord' = Failed(coord, m, event.id)
               ELSE Asks(m, c, CASE event.type = "Stage" -> "prepare" [] event.type = "Commit" -> "commit"
                                 [] event.type = "Rollback" -> "rollback" [] event.type = "Finish" -> "finish",
                         event.id) /\ UNCHANGED coord
  /\ UNCHANGED <<linked, worker, spent>>

\* The checkpoint of the loaded state has arrived over the link.
Receive(m) ==
  /\ client[m].incoming = "asked" /\ m \in linked
  /\ client' = [client EXCEPT ![m].incoming = "preparing"]
  /\ jobs' = [jobs EXCEPT ![m] = Append(@, Job("prepare", client[m].attempt, "import"))]
  /\ UNCHANGED <<coord, linked, worker, spent>>

\* What a member does with an answer of its machine.
OwnsLoad(m, job) == client[m].attempt = job.id
Released(m) == [client[m] EXCEPT !.handling = FALSE]
Answer(m, job, w) ==
  LET c == Released(m)
  IN CASE job.use = "none" -> UNCHANGED <<coord, client>>
       [] job.use = "bind" ->
            coord' = Acknowledged(coord, m) /\ UNCHANGED client
       [] job.use = "import" ->
            /\ client' = [client EXCEPT ![m].incoming = "none"]
            /\ coord' = IF OwnsLoad(m, job) THEN Prepared(coord, m, job.id) ELSE coord
       [] job.use = "chain" /\ ~OwnsLoad(m, job) ->
            client' = [client EXCEPT ![m] = c] /\ UNCHANGED coord
       [] OTHER ->
            CASE job.type = "hash" ->
                   /\ client' = [client EXCEPT ![m] = c]
                   /\ coord' = IF w.native = coord.point THEN Boundary(coord, m, job.id)
                               ELSE Failed(coord, m, job.id)
              [] job.type = "prepare" ->
                   client' = [client EXCEPT ![m] = c] /\ coord' = Prepared(coord, m, job.id)
              [] job.type = "commit" ->
                   client' = [client EXCEPT ![m] = c] /\ coord' = Committed(coord, m, job.id)
              [] job.type = "rollback" ->
                   /\ client' = [client EXCEPT ![m] = IF w.native = coord.point THEN [c EXCEPT !.saved = FALSE] ELSE c]
                   /\ coord' = IF w.native = coord.point THEN RolledBack(coord, m, job.id) ELSE coord
              [] job.type = "finish" ->
                   /\ client' = [client EXCEPT ![m] = Cleared(c)]
                   /\ UNCHANGED coord

\* loadFailure, failIncoming and fail.
Refuse(m, job, queue) ==
  CASE job.use = "none" -> UNCHANGED <<coord, client>> /\ jobs' = queue
    [] job.use = "bind" ->
         /\ client' = [client EXCEPT ![m] = Cleared(@)]
         /\ jobs' = [queue EXCEPT ![m] = Clearing(client[m], @)]
         /\ coord' = Aborted(coord, m, job.epoch)
    [] OTHER ->
         /\ client' = [client EXCEPT ![m] =
              IF job.use = "import" THEN [@ EXCEPT !.incoming = "none"] ELSE Released(m)]
         /\ coord' = IF OwnsLoad(m, job) THEN Failed(coord, m, job.id) ELSE coord
         /\ jobs' = queue

\* A machine may find the state invalid, or fail to replace its own.
Faulty == spent.fault < MaxFault
Fault == spent' = [spent EXCEPT !.fault = @ + 1]

\* One request after the other; but while a state is being prepared, the next
\* one is looked at too, so that a cancellation is not kept waiting.
Work(m) ==
  /\ jobs[m] # <<>>
  /\ LET job   == Head(jobs[m])
         rest  == [jobs EXCEPT ![m] = Tail(@)]
         w     == worker[m]
         Becomes(v) == worker' = [worker EXCEPT ![m] = v]
         Done(v)    == Becomes(v) /\ Answer(m, job, v) /\ jobs' = rest
         Error(v)   == Becomes(v) /\ Refuse(m, job, rest)
     IN CASE job.type = "rollback" ->
               IF Foreign(w, job.id) THEN Error(w) /\ UNCHANGED spent
               ELSE Done(Rollback(w, job.id)) /\ UNCHANGED spent
          [] job.type = "finish" ->
               /\ IF w.rollback = Nil \/ Foreign(w, job.id) \/ ~w.rollback.committed THEN Error(w)
                  ELSE Done([w EXCEPT !.rollback = Nil])
               /\ UNCHANGED spent
          [] job.type \notin {"rollback", "finish"} /\ w.preparing # Nil ->
               Error(IF job.type = "prepare" THEN ClearCandidate(w) ELSE w) /\ UNCHANGED spent
          [] OTHER ->
             CASE job.type = "hash" -> Done(w) /\ UNCHANGED spent
               [] job.type = "bind" ->
                    /\ IF ~Bindable(w, job.id) THEN Error(w)
                       ELSE IF job.use = "none" \/ AcceptsAck(coord, m, job.id, job.epoch)
                       THEN Done(ClearCandidate(w)) ELSE Error(ClearCandidate(w))
                    /\ UNCHANGED spent
               [] job.type = "prepare" ->
                    IF Foreign(w, job.id) \/ (w.rollback # Nil /\ w.rollback.committed)
                    THEN Error(w) /\ UNCHANGED spent
                    ELSE /\ Becomes([ClearCandidate(w) EXCEPT !.candidate = job.id, !.preparing = job])
                         /\ jobs' = rest /\ UNCHANGED <<coord, client, spent>>
               [] job.type = "commit" ->
                    IF w.candidate # job.id THEN Error(w) /\ UNCHANGED spent
                    ELSE \/ Done(Commit(w, job.id)) /\ UNCHANGED spent
                         \/ Faulty /\ Error([w EXCEPT !.candidate = 0]) /\ Fault
                         \/ Faulty /\ Error(Commit(w, job.id)) /\ Fault
  /\ UNCHANGED linked

\* The prepared state is valid and still wanted: the present one is copied first.
PrepareEnds(m) ==
  /\ worker[m].preparing # Nil
  /\ LET w   == [worker[m] EXCEPT !.preparing = Nil]
         job == IF client[m].incoming # "preparing" /\ worker[m].preparing.use = "import"
                THEN [worker[m].preparing EXCEPT !.use = "none"] ELSE worker[m].preparing
         copy == [op |-> job.id, bytes |-> w.native, committed |-> FALSE]
     IN \/ /\ w.candidate = job.id
           /\ LET v == [w EXCEPT !.rollback = IF @ = Nil THEN copy ELSE @]
              IN worker' = [worker EXCEPT ![m] = v] /\ Answer(m, job, v)
           /\ UNCHANGED <<jobs, spent>>
        \/ /\ w.candidate # job.id
           /\ worker' = [worker EXCEPT ![m] = w] /\ Refuse(m, job, jobs)
           /\ UNCHANGED spent
        \/ /\ w.candidate = job.id /\ Faulty /\ Fault
           /\ worker' = [worker EXCEPT ![m] = ClearCandidate(w)] /\ Refuse(m, job, jobs)
  /\ UNCHANGED linked

\* fileRequest: no answer within ten seconds; the machine may still do it.
RequestExpires(m) ==
  /\ Faulty
  /\ \E i \in DOMAIN jobs[m] :
       /\ jobs[m][i].use \in {"chain", "import"}
       /\ Refuse(m, jobs[m][i], [jobs EXCEPT ![m][i].use = "none"])
       /\ spent' = [spent EXCEPT !.fault = @ + 1,
                                 !.stuck = @ \/ (m = Host /\ jobs[m][i].type = "rollback")]
  /\ UNCHANGED <<linked, worker>>

\* A candidate that is not committed in time is dropped, with its copy.
CandidateExpires(m) ==
  /\ worker[m].candidate # 0 /\ Faulty /\ Fault
  /\ worker' = [worker EXCEPT ![m] = ClearCandidate(@)]
  /\ UNCHANGED <<coord, linked, client, jobs>>
-----------------------------------------------------------------------------
(* The session goes on.                                                    *)

\* loadSaved and gameLoadPropose.
Propose ==
  /\ coord.load = Nil /\ coord.status \in {"paused", "resume_ready"} /\ Available(coord)
  /\ ~client[Host].saved /\ spent.load < MaxLoad
  /\ spent' = [spent EXCEPT !.load = @ + 1]
  /\ client' = [client EXCEPT ![Host].saved = TRUE]
  /\ coord' = SendTo([coord EXCEPT !.load =
                        [id |-> spent.load + 1, phase |-> "freezing", boundaries |-> {},
                         prepared |-> {}, committed |-> {}, rolledBack |-> {}]],
                     Member, Event("Hold", spent.load + 1))
  /\ UNCHANGED <<linked, worker, jobs>>

LoadExpires ==
  /\ coord.load # Nil
  /\ coord' = IF coord.load.phase = "rolling_back" THEN FinishRollback(coord, TRUE) ELSE AbortLoad(coord)
  /\ UNCHANGED <<linked, client, worker, jobs, spent>>

\* Ready: the host's state is the game, and whoever differs is synchronized to it.
Ready ==
  /\ coord.load = Nil /\ coord.status = "paused" /\ Available(coord) /\ linked = Guest
  /\ \A m \in Member : jobs[m] = <<>> /\ worker[m].preparing = Nil
  /\ \A m \in Guest : worker[m].native # worker[Host].native => worker[m].rollback = Nil
  /\ coord' = [coord EXCEPT !.point = worker[Host].native, !.status = "resume_ready"]
  /\ worker' = [m \in Member |-> [worker[m] EXCEPT !.native = worker[Host].native]]
  /\ UNCHANGED <<linked, client, jobs, spent>>

Resume ==
  /\ coord.load = Nil /\ coord.status = "resume_ready" /\ Available(coord)
  /\ spent.resume < MaxResume /\ spent' = [spent EXCEPT !.resume = @ + 1]
  /\ coord' = SendTo([coord EXCEPT !.status = "starting", !.acks = {}, !.epoch = @ + 1],
                     Member, Barrier(coord.point, coord.epoch + 1))
  /\ UNCHANGED <<linked, client, worker, jobs>>

BarrierExpires ==
  /\ coord.status \in {"starting", "pausing"}
  /\ coord' = Stop(coord)
  /\ UNCHANGED <<linked, client, worker, jobs, spent>>

Pause ==
  /\ coord.status = "playing"
  /\ coord' = [coord EXCEPT !.status = "paused"]
  /\ UNCHANGED <<linked, client, worker, jobs, spent>>

\* A socket closes: what was on its way is lost, and the links of the member close.
Closing(m) == IF m = Host THEN Guest ELSE {m}
LosesLinks(gone) ==
  /\ linked' = linked \ gone
  /\ client' = [x \in Member |-> IF x \in gone \cap linked THEN Cleared(client[x]) ELSE client[x]]
  /\ jobs' = [x \in Member |-> IF x \in gone \cap linked THEN Clearing(client[x], jobs[x]) ELSE jobs[x]]
Disconnect(m) ==
  /\ m \in coord.connected /\ Faulty /\ Fault
  /\ LosesLinks(Closing(m))
  /\ coord' = Reconfigured([coord EXCEPT !.connected = @ \ {m}, !.transport = @ \ Closing(m),
                                         !.inbox[m] = <<>>])
  /\ UNCHANGED worker
Replace(m) ==
  /\ m \in coord.connected \cap Replaced /\ Faulty /\ Fault
  /\ LosesLinks(Closing(m))
  /\ coord' = [coord EXCEPT !.inbox[m] = <<>>]
  /\ UNCHANGED worker
\* Mutation: a member that is back is not told to go back.
ReconnectSilently(m) ==
  /\ m \notin coord.connected
  /\ coord' = [coord EXCEPT !.connected = @ \cup {m}]
  /\ UNCHANGED <<linked, client, worker, jobs, spent>>
Reconnect(m) ==
  /\ m \notin coord.connected
  /\ LET k == [coord EXCEPT !.connected = @ \cup {m}]
         again == k.load # Nil /\ k.load.phase = "rolling_back"
                    /\ m \in k.load.boundaries \ k.load.rolledBack
     IN coord' = IF again THEN SendTo(k, {m}, Event("Rollback", k.load.id)) ELSE k
  /\ UNCHANGED <<linked, client, worker, jobs, spent>>

\* A link breaks; the guest and the coordinator learn of it one after the other.
LinkBreaks(m) ==
  /\ m \in linked /\ Faulty /\ Fault
  /\ LosesLinks({m})
  /\ UNCHANGED <<coord, worker>>
LinkReported(m) ==
  /\ m \in coord.transport \ linked
  /\ coord' = Reconfigured([coord EXCEPT !.transport = @ \ {m}])
  /\ UNCHANGED <<linked, client, worker, jobs, spent>>
LinkReturns(m) ==
  /\ m \notin linked /\ m \notin coord.transport /\ {m, Host} \subseteq coord.connected
  /\ linked' = linked \cup {m}
  /\ coord' = [coord EXCEPT !.transport = @ \cup {m}]
  /\ UNCHANGED <<client, worker, jobs, spent>>

\* A paused game everybody has.
LoadInit ==
  /\ coord = [load |-> Nil, point |-> 0, epoch |-> 0, status |-> "paused", acks |-> {},
              connected |-> Member, transport |-> Guest, inbox |-> [m \in Member |-> <<>>]]
  /\ linked = Guest
  /\ client = [m \in Member |-> [attempt |-> 0, saved |-> FALSE, chain |-> <<>>, handling |-> FALSE,
                                 incoming |-> "none"]]
  /\ worker = [m \in Member |-> [native |-> 0, candidate |-> 0, rollback |-> Nil, preparing |-> Nil]]
  /\ jobs = [m \in Member |-> <<>>]
  /\ spent = [load |-> 0, resume |-> 0, fault |-> 0, stuck |-> FALSE]

LoadNext ==
  \/ \E m \in Member :
       Deliver(m) \/ HandleLoad(m) \/ Work(m) \/ PrepareEnds(m) \/ RequestExpires(m) \/ CandidateExpires(m)
         \/ Disconnect(m) \/ Replace(m) \/ Reconnect(m)
  \/ \E m \in Guest : Receive(m) \/ LinkBreaks(m) \/ LinkReported(m) \/ LinkReturns(m)
  \/ Propose \/ LoadExpires \/ Ready \/ Resume \/ BarrierExpires \/ Pause

\* Event loops run and machines answer, timers fire, members come back.
LoadFairness ==
  /\ WF_loadVars(LoadExpires)
  /\ \A m \in Member :
       WF_loadVars(Deliver(m)) /\ WF_loadVars(HandleLoad(m)) /\ WF_loadVars(Work(m)) /\ WF_loadVars(PrepareEnds(m))
         /\ WF_loadVars(Reconnect(m))

LoadSpec == LoadInit /\ [][LoadNext]_loadVars /\ LoadFairness
-----------------------------------------------------------------------------
(* Properties.                                                             *)

Notice ==
  [type : {"Stop", "Prepare", "Hold", "Stage", "Receive", "Commit", "Rollback", "Finish"},
   id : Nat, epoch : Nat]
Request ==
  [type : {"hash", "bind", "prepare", "commit", "rollback", "finish"}, id : Nat,
   use : {"none", "chain", "import", "bind"}, epoch : Nat]
Copy == [op : Nat, bytes : Nat, committed : BOOLEAN]
Proposal ==
  [id : Nat, phase : {"freezing", "staging", "committing", "rolling_back"},
   boundaries : SUBSET Member, prepared : SUBSET Member, committed : SUBSET Member,
   rolledBack : SUBSET Member]
Coordinator ==
  [load : Proposal \cup {Nil}, point : Nat, epoch : Nat,
   status : {"paused", "pausing", "resume_ready", "starting", "playing"},
   acks : SUBSET Member, connected : SUBSET Member, transport : SUBSET Guest,
   inbox : [Member -> Seq(Notice)]]
Client ==
  [attempt : Nat, saved : BOOLEAN, chain : Seq(Notice), handling : BOOLEAN,
   incoming : {"none", "asked", "preparing"}]
Machine ==
  [native : Nat, candidate : Nat, rollback : Copy \cup {Nil}, preparing : Request \cup {Nil}]

ASSUME NilAssumption == Nil \notin Proposal \cup Copy \cup Request

\* A chain that is being handled waits for exactly one request: it never hangs.
Awaits(c, w, queue) ==
  LET waits == {i \in DOMAIN queue : queue[i].use = "chain"}
      prepares == w.preparing # Nil /\ w.preparing.use = "chain"
  IN /\ c.handling <=> (waits # {} \/ prepares)
     /\ prepares => waits = {}
     /\ \A i, j \in waits : i = j

\* Records of the coordinator, the clients and the machines.
LoadTypeOK ==
  /\ coord \in Coordinator /\ linked \subseteq Guest
  /\ client \in [Member -> Client] /\ worker \in [Member -> Machine]
  /\ jobs \in [Member -> Seq(Request)]
  /\ spent \in [load : Nat, resume : Nat, fault : Nat, stuck : BOOLEAN]
  /\ \A m \in Member : Awaits(client[m], worker[m], jobs[m])

\* A game goes on with every machine at the one state the session knows,
\* whatever loads, failures and lost sockets came before the barrier.
StartedTogether ==
  coord.status = "playing" => \A m \in Member : worker[m].native = coord.point

\* A machine that replaced its state has the copy of the former one as long as
\* the load may still be undone.
CopyKept ==
  coord.load # Nil => \A m \in Member :
    worker[m].native = coord.load.id => /\ worker[m].rollback # Nil
                                        /\ worker[m].rollback.op = coord.load.id

\* A failed load is over only when the host's machine, and every machine that
\* answered, is back at the state the session had.
FailedLoadIsUndone ==
  [][coord.load # Nil /\ coord'.load = Nil /\ coord'.status = "paused" =>
       \A m \in coord.load.boundaries \cap (coord.load.rolledBack \cup {Host}) :
         worker'[m].native = coord.point]_loadVars

\* A load ends: committed, or undone, unless the host's machine did not answer
\* when it was told to go back.
LoadEnds == coord.load # Nil ~> coord.load = Nil \/ spent.stuck
=============================================================================
