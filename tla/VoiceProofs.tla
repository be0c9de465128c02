----------------------------- MODULE VoiceProofs -----------------------------
(* A microphone that is off is off, a push-to-talk control that is let go is *)
(* silent, and every sender ends up with the capture in force, for any peers *)
(* and any number of captures, of connections and of replacements.           *)
EXTENDS Voice, FiniteSetTheorems, SequenceTheorems, TLAPS

Mic == [phase : {"off", "error", "requesting", "ready"}, stage : {"none", "clearing", "capturing", "attaching"},
        generation : Nat, stream : Nat, enabled : BOOLEAN, muted : BOOLEAN, push : BOOLEAN, held : BOOLEAN,
        failure : BOOLEAN, failing : SUBSET Connection]
Page == [focused : BOOLEAN, pressed : BOOLEAN]

\* A request under way has nothing captured, and only the request in force can
\* still be answered with a capture.
Asking(m, a) ==
  /\ m.stage \in {"clearing", "capturing"} => m.phase = "requesting" /\ m.stream = 0
  /\ m.generation \in a => m.stage = "capturing"
  /\ \A g \in a : g \in Nat /\ g # 0 /\ g <= m.generation
  /\ m.stage # "none" => m.generation # 0

\* The capture that runs is the one in force.
Running(m, l) ==
  /\ l = {m.stream} \ {0}
  /\ m.phase = "off" => m.stream = 0

\* The tracks are enabled only for a member that may be heard.
Heard(m, focused) ==
  /\ m.held => focused
  /\ m.enabled => ~m.muted /\ (m.push => m.held)

\* The inductive invariant.
Inv ==
  /\ mic \in Mic /\ page \in Page
  /\ Asking(mic, asked) /\ Running(mic, live) /\ Heard(mic, page.focused)

-----------------------------------------------------------------------------
(* What the helpers of the microphone leave alone.                         *)

\* n is m, but for whether its tracks are enabled, and they may be.
Published(n, m) ==
  /\ n \in Mic
  /\ n.phase = m.phase /\ n.stage = m.stage /\ n.generation = m.generation /\ n.stream = m.stream
  /\ n.muted = m.muted /\ n.push = m.push /\ n.held = m.held
  /\ n.enabled => n.stream # 0 /\ ~n.muted /\ (n.push => n.held)

\* Publishing the state to the listeners leaves the capture alone.
LEMMA PublishMic ==
  ASSUME NEW m \in Mic
  PROVE  Published(Publish(m), m)
<1> DEFINE on == m.stream # 0 /\ Transmitting(m)
<1>1. on \in BOOLEAN BY DEF Mic, Transmitting
<1>2. \A e \in BOOLEAN : (e => on) => Published([m EXCEPT !.enabled = e], m)
  BY DEF Mic, Published, Transmitting
<1>3. Publish(m) = [m EXCEPT !.enabled = on] BY Zenon DEF Publish
<1>. QED BY <1>1, <1>2, <1>3, Zenon

\* What a new generation leaves of the microphone.
Fresh(n, m) ==
  n \in Mic /\ n.stream = 0 /\ ~n.held /\ n.generation = m.generation + 1

\* A renewed intent leaves the capture alone and supersedes what is under way.
LEMMA RenewedMic ==
  ASSUME NEW m \in Mic
  PROVE  Fresh(Renewed(m), m)
<1> DEFINE s == StopTracks(m)
<1>1. s \in Mic /\ s.stream = 0 /\ ~s.held /\ s.generation = m.generation BY DEF StopTracks, Mic
<1> DEFINE t == [s EXCEPT !.generation = @ + 1]
<1>2. Renewed(m) = [t EXCEPT !.failure = FALSE, !.failing = {}] BY Zenon DEF Renewed
<1> HIDE DEF s
<1>3. t \in Mic /\ t.stream = 0 /\ ~t.held /\ t.generation = m.generation + 1 BY <1>1 DEF Mic
<1> HIDE DEF t
<1>4. Fresh([t EXCEPT !.failure = FALSE, !.failing = {}], m) BY <1>3 DEF Fresh, Mic
<1>. QED BY <1>2, <1>4, Zenon

\* The same of a microphone that is turned off, or asks for a capture.
Turned(n, m, stage, phase) ==
  /\ Fresh(n, m) /\ n.stage = stage /\ n.phase = phase
  /\ n.enabled => ~n.muted /\ (n.push => n.held)

\* How the microphone turns off, fails or starts to be requested.
LEMMA TurnMic ==
  ASSUME NEW m \in Mic, NEW phase \in {"off", "error", "requesting"}, NEW stage \in {"none", "clearing"},
         NEW muted \in BOOLEAN
  PROVE  Turned(Publish([Renewed(m) EXCEPT !.stage = stage, !.phase = phase, !.muted = muted]), m, stage, phase)
<1> DEFINE n == Publish([Renewed(m) EXCEPT !.stage = stage, !.phase = phase, !.muted = muted])
<1> DEFINE r == Renewed(m)
<1> DEFINE t == [r EXCEPT !.stage = stage, !.phase = phase, !.muted = muted]
<1>1. Fresh(r, m) BY RenewedMic
<1> HIDE DEF r
<1>2. Fresh(t, m) /\ t.stage = stage /\ t.phase = phase BY <1>1 DEF Fresh, Mic
<1>3. n = Publish(t) BY DEF r, t
<1> HIDE DEF t, n
<1>4. Published(n, t) BY <1>2, <1>3, PublishMic, Zenon DEF Fresh
<1>5. Turned(n, m, stage, phase) BY <1>2, <1>4 DEF Turned, Fresh, Published
<1>. QED BY <1>5, Zenon DEF n

-----------------------------------------------------------------------------
(* The steps of the microphone.                                            *)

\* Turning the microphone off stops the capture in force and outdates the
\* request that is under way.
LEMMA DisabledInv ==
  ASSUME Inv, NEW phase \in {"off", "error"}, mic' = Disabled(mic, phase), live' = live \ {mic.stream},
         asked' \subseteq asked, page' \in Page, page'.focused = page.focused
  PROVE  Inv'
<1>1. mic \in Mic BY DEF Inv
<1>2. Turned(mic', mic, "none", phase)
  <2>1. phase \in {"off", "error", "requesting"} /\ TRUE \in BOOLEAN /\ "none" \in {"none", "clearing"}
    OBVIOUS
  <2>. QED BY <1>1, <2>1, TurnMic, Zenon DEF Disabled
<1>3. Asking(mic', asked') BY <1>1, <1>2 DEF Inv, Asking, Mic, Turned, Fresh
<1>4. Running(mic', live') BY <1>2 DEF Inv, Running, Turned, Fresh
<1>5. Heard(mic', page'.focused) BY <1>2 DEF Heard, Turned, Fresh
<1>. QED BY <1>2, <1>3, <1>4, <1>5 DEF Inv, Turned, Fresh

\* A capture that is asked for: refused, or begun with nothing captured.
LEMMA RequestInv ==
  ASSUME Inv, NEW muted \in BOOLEAN, Request(muted), mic.phase # "requesting"
  PROVE  Inv'
<1>1. UNCHANGED <<asked, page>> /\ mic \in Mic BY DEF Request, Inv
<1>2. CASE mic' = Publish([mic EXCEPT !.phase = "error"]) /\ UNCHANGED live
  <2> DEFINE m == [mic EXCEPT !.phase = "error"]
  <2>1. /\ m \in Mic /\ m.stage = mic.stage /\ m.stream = mic.stream /\ m.held = mic.held /\ m.phase = "error"
        /\ m.generation = mic.generation
    BY <1>1 DEF Mic
  <2> HIDE DEF m
  <2>2. Published(mic', m) BY <1>2, <2>1, PublishMic, Zenon DEF m
  <2>. QED BY <1>1, <1>2, <2>1, <2>2 DEF Inv, Asking, Running, Heard, Published
<1>3. CASE /\ mic' = Publish([Renewed(mic) EXCEPT !.stage = "clearing", !.phase = "requesting", !.muted = muted])
           /\ live' = live \ {mic.stream}
  <2>0. "requesting" \in {"off", "error", "requesting"} /\ "clearing" \in {"none", "clearing"}
    OBVIOUS
  <2>1. Turned(mic', mic, "clearing", "requesting") BY <1>1, <1>3, <2>0, TurnMic, Zenon
  <2>2. Asking(mic', asked') BY <1>1, <2>1 DEF Inv, Asking, Mic, Turned, Fresh
  <2>3. Running(mic', live') BY <1>3, <2>1 DEF Inv, Running, Turned, Fresh
  <2>4. Heard(mic', page'.focused) BY <2>1 DEF Heard, Turned, Fresh
  <2>. QED BY <1>1, <2>1, <2>2, <2>3, <2>4 DEF Inv, Turned, Fresh
<1>. QED BY <1>2, <1>3 DEF Request

\* n is m, but for what is known of its senders.
SameMic(n, m) ==
  /\ n \in Mic
  /\ n.phase = m.phase /\ n.stage = m.stage /\ n.generation = m.generation /\ n.stream = m.stream
  /\ n.muted = m.muted /\ n.push = m.push /\ n.held = m.held /\ n.enabled = m.enabled

\* A reported failure leaves the capture alone.
LEMMA FailureMic ==
  ASSUME NEW m \in Mic, NEW failure \in BOOLEAN, NEW failing \in SUBSET Connection
  PROVE  SameMic([m EXCEPT !.failure = failure, !.failing = failing], m)
BY DEF SameMic, Mic

\* A report to the coordinator leaves the capture alone.
LEMMA ReportedMic ==
  ASSUME NEW m \in Mic
  PROVE  SameMic(Reported(m), m)
<1> DEFINE f == m.failure \/ m.failing \cap Bound(sender) # {}
<1>1. f \in BOOLEAN /\ {} \in SUBSET Connection BY DEF Mic
<1>2. Reported(m) = [m EXCEPT !.failure = f, !.failing = {}] BY Zenon DEF Reported
<1> HIDE DEF f
<1>3. SameMic([m EXCEPT !.failure = f, !.failing = {}], m) BY <1>1, FailureMic
<1>. QED BY <1>2, <1>3, Zenon

\* The end of a sender's task tells the microphone of failures, and nothing else.
LEMMA AnsweredMic ==
  ASSUME NEW c \in Connection, NEW failed \in BOOLEAN, mic \in Mic
  PROVE  SameMic(Answered(c, failed), mic)
<1> DEFINE f == IF failed THEN mic.failing \cup {c} ELSE mic.failing
<1> DEFINE m == [mic EXCEPT !.failing = f]
<1> DEFINE r == [m EXCEPT !.failure = FALSE]
<1>1. f \in SUBSET Connection BY DEF Mic
<1> HIDE DEF f
<1>2. SameMic(m, mic) /\ SameMic(r, mic) /\ SameMic(mic, mic) BY <1>1 DEF SameMic, Mic
<1>3. Answered(c, failed) \in {mic, m, Reported(m), Reported(r)} BY DEF Answered, f
<1> HIDE DEF m, r
<1>4. SameMic(Reported(m), m) /\ SameMic(Reported(r), r) BY <1>2, ReportedMic, Zenon DEF SameMic
<1>5. SameMic(Reported(m), mic) /\ SameMic(Reported(r), mic) BY <1>2, <1>4 DEF SameMic
<1>. QED BY <1>2, <1>3, <1>5

\* Steps that neither capture nor publish: senders, peers, and the focus coming back.
LEMMA SameInv ==
  ASSUME Inv, SameMic(mic', mic), asked' \subseteq asked, live' = live, page' \in Page,
         page'.focused \/ page'.focused = page.focused
  PROVE  Inv'
BY DEF Inv, SameMic, Asking, Running, Heard

\* Steps that publish the microphone with another mode, mute or hold.
LEMMA HoldInv ==
  ASSUME Inv, NEW m \in Mic, m.phase = mic.phase, m.stage = mic.stage, m.generation = mic.generation,
         m.stream = mic.stream, mic' = Publish(m), UNCHANGED <<asked, live>>, page' \in Page,
         m.held => page'.focused
  PROVE  Inv'
<1>1. Published(mic', m) BY PublishMic, Zenon
<1>. QED BY <1>1 DEF Inv, Published, Asking, Running, Heard

\* The browser is asked for the request in force.
LEMMA CaptureInv ==
  ASSUME Inv, Capture
  PROVE  Inv'
<1> DEFINE r == Reported(mic)
<1>1. SameMic(r, mic) BY ReportedMic DEF Inv
<1>2. mic' = [r EXCEPT !.stage = "capturing"] BY DEF Capture
<1> HIDE DEF r
<1>3. /\ mic' \in Mic /\ mic'.stage = "capturing" /\ mic'.phase = mic.phase /\ mic'.generation = mic.generation
      /\ mic'.stream = mic.stream /\ mic'.muted = mic.muted /\ mic'.push = mic.push /\ mic'.held = mic.held
      /\ mic'.enabled = mic.enabled
  BY <1>1, <1>2 DEF SameMic, Mic
<1>4. Asking(mic', asked') BY <1>3 DEF Capture, Inv, Asking, Mic
<1>. QED BY <1>3, <1>4 DEF Capture, Inv, Running, Heard

\* The browser grants a capture: it runs, alone, when it is the one in force.
LEMMA CapturedInv ==
  ASSUME Inv, NEW g \in Generation, Captured(g)
  PROVE  Inv'
<1>1. CASE UNCHANGED <<mic, live>> BY <1>1, SameInv DEF Captured, Inv, SameMic
<1>2. CASE /\ Current(g) /\ live' = live \cup {g}
           /\ mic' = [mic EXCEPT !.stream = g, !.enabled = FALSE, !.stage = "attaching"]
  BY <1>2 DEF Captured, Inv, Asking, Current, Mic, Running, Heard
<1>. QED BY <1>1, <1>2 DEF Captured

\* The capture is on every sender: the member may be heard.
LEMMA AttachedInv ==
  ASSUME Inv, Attached
  PROVE  Inv'
<1> DEFINE r == Reported(mic)
<1> DEFINE m == [r EXCEPT !.stage = "none", !.phase = "ready"]
<1>1. SameMic(r, mic) BY ReportedMic DEF Inv
<1>2. mic' = Publish(m) BY DEF Attached
<1> HIDE DEF r
<1>3. /\ m \in Mic /\ m.stage = "none" /\ m.phase = "ready" /\ m.generation = mic.generation
      /\ m.stream = mic.stream /\ m.held = mic.held
  BY <1>1 DEF SameMic, Mic
<1> HIDE DEF m
<1>4. Published(mic', m) BY <1>2, <1>3, PublishMic, Zenon
<1>. QED BY <1>3, <1>4 DEF Attached, Inv, Published, Asking, Running, Heard

\* A control is held, or let go.
LEMMA MomentaryInv ==
  ASSUME Inv, NEW held \in BOOLEAN, mic' = Hold(mic, held), UNCHANGED <<asked, live>>, page' \in Page,
         held => page'.focused
  PROVE  Inv'
<1> DEFINE m == [mic EXCEPT !.held = held]
<1>1. /\ m \in Mic /\ m.phase = mic.phase /\ m.stage = mic.stage /\ m.generation = mic.generation
      /\ m.stream = mic.stream /\ m.held = held
  BY DEF Inv, Mic
<1>2. mic' = Publish(m) BY DEF Hold
<1> HIDE DEF m
<1>. QED BY <1>1, <1>2, HoldInv

-----------------------------------------------------------------------------
(* The theorems.                                                           *)

\* The initial state has the invariant.
LEMMA InitInv == Init => Inv
<1> SUFFICES ASSUME Init PROVE Inv OBVIOUS
<1>1. mic \in Mic /\ page \in Page BY DEF Init, Mic, Page
<1>. QED BY <1>1 DEF Init, Inv, Asking, Running, Heard

\* Every step preserves the invariant.
LEMMA NextInv == Inv /\ [Next]_vars => Inv'
<1> SUFFICES ASSUME Inv, [Next]_vars PROVE Inv' OBVIOUS
<1>0. mic \in Mic /\ page \in Page /\ SameMic(mic, mic) BY DEF Inv, SameMic
<1>1. ASSUME UNCHANGED <<mic, live, page>>, asked' \subseteq asked PROVE Inv' BY <1>0, <1>1, SameInv
<1>2. CASE Enable BY <1>2, RequestInv DEF Enable
<1>3. CASE Device BY <1>3, RequestInv DEF Device
<1>4. CASE Ended BY <1>0, <1>4, DisabledInv DEF Ended, Disable
<1>5. CASE TurnOff BY <1>0, <1>5, DisabledInv DEF TurnOff, Disable
<1>6. CASE Mute
  <2> DEFINE m == [mic EXCEPT !.held = FALSE, !.muted = ~@]
  <2>1. /\ m \in Mic /\ m.phase = mic.phase /\ m.stage = mic.stage /\ m.generation = mic.generation
        /\ m.stream = mic.stream /\ ~m.held
    BY <1>0 DEF Mic
  <2>. QED BY <1>0, <1>6, <2>1, HoldInv DEF Mute
<1>7. CASE Mode
  <2> DEFINE m == [mic EXCEPT !.held = FALSE, !.push = ~@]
  <2>1. /\ m \in Mic /\ m.phase = mic.phase /\ m.stage = mic.stage /\ m.generation = mic.generation
        /\ m.stream = mic.stream /\ ~m.held
    BY <1>0 DEF Mic
  <2>. QED BY <1>0, <1>7, <2>1, HoldInv DEF Mode
<1>8. CASE Close BY <1>0, <1>8, DisabledInv DEF Close, Page
<1>9. CASE Press BY <1>0, <1>9, SameInv, MomentaryInv DEF Press, Page
<1>10. CASE Release BY <1>0, <1>10, SameInv, MomentaryInv DEF Release, Page
<1>11. CASE Frame
  <2>1. PICK pressed \in {FALSE, page.pressed} : /\ page' = [page EXCEPT !.pressed = pressed]
                                                 /\ mic' = Hold(mic, page.focused /\ pressed)
    BY <1>11 DEF Frame
  <2>2. page' \in Page /\ page'.focused = page.focused /\ page.focused \in BOOLEAN /\ pressed \in BOOLEAN
    BY <1>0, <2>1 DEF Page
  <2>3. (page.focused /\ pressed) \in BOOLEAN /\ (page.focused /\ pressed => page'.focused) BY <2>2
  <2>. QED BY <1>11, <2>1, <2>2, <2>3, MomentaryInv, Zenon DEF Frame
<1>12. CASE Blur BY <1>12, MomentaryInv DEF Blur, Page, Released
<1>13. CASE Focus BY <1>0, <1>13, SameInv DEF Focus, Page
<1>14. ASSUME NEW g \in Generation, Refused(g) PROVE Inv'
  BY <1>1, <1>14, <1>0, DisabledInv DEF Refused, Disable
<1>15. ASSUME NEW c \in Connection, Finish(c) PROVE Inv'
  <2>1. PICK failed \in BOOLEAN : mic' = Answered(c, failed) BY <1>15 DEF Finish
  <2>2. SameMic(mic', mic) BY <1>0, <2>1, AnsweredMic
  <2>. QED BY <1>0, <1>15, <2>2, SameInv DEF Finish
<1>16. ASSUME NEW c \in Connection, Begin(c) \/ Answer(c) \/ Connected(c) PROVE Inv'
  BY <1>1, <1>16 DEF Begin, Answer, Connected
<1>17. ASSUME NEW p \in Peer, Prepare(p) \/ Leave(p) PROVE Inv' BY <1>1, <1>17 DEF Prepare, Leave
<1>18. CASE Retry \/ Rebind \/ UNCHANGED vars BY <1>1, <1>18 DEF Retry, Rebind, vars
<1>. QED
  BY <1>2, <1>3, <1>4, <1>5, <1>6, <1>7, <1>8, <1>9, <1>10, <1>11, <1>12, <1>13, <1>14, <1>15, <1>16, <1>17,
     <1>18, CaptureInv, CapturedInv, AttachedInv DEF Next

\* Whatever the browser answers, and however late, a microphone that was turned
\* off captures nothing, and one capture runs at a time (microphone.ts enable,
\* disable).
THEOREM CaptureStops == Spec => []NoForgottenCapture
<1>1. Inv => NoForgottenCapture BY DEF Inv, Asking, Running, NoForgottenCapture
<1>. QED BY <1>1, InitInv, NextInv, PTL DEF Spec

\* In push-to-talk nobody is heard who does not hold a control of a page that
\* has the focus (microphone.ts publish, hold, mode; voice.ts blur).
THEOREM PushToTalkSilent == Spec => []PushToTalkReleased
<1>1. Inv => PushToTalkReleased BY DEF Inv, Heard, PushToTalkReleased, Mic
<1>. QED BY <1>1, InitInv, NextInv, PTL DEF Spec
-----------------------------------------------------------------------------
(* What the senders carry, and have yet to do.                             *)

Task == [track : Nat, generation : Nat, use : {"all", "retry", "bind", "detach"}]
Sender == [status : {"none", "open", "closed"}, answers : BOOLEAN, connected : BOOLEAN, bound : BOOLEAN,
           track : Nat, tasks : Seq(Task), running : BOOLEAN, error : BOOLEAN]

\* A sender has yet to make a replacement of this use and generation.
Has(x, use, generation) ==
  \E n \in DOMAIN x.tasks : x.tasks[n].use = use /\ x.tasks[n].generation = generation
Pending(s, use, m) == \E c \in Connection : Has(s[c], use, m.generation)

\* The last replacement of a sender that is bound is that of the capture in force.
Last(x) == x.tasks[Len(x.tasks)]
Fits(x, m) ==
  /\ x.bound => x.status = "open"
  /\ \A n \in DOMAIN x.tasks : x.tasks[n].generation <= m.generation
  /\ x.bound /\ x.tasks # <<>> =>
       Last(x).track = m.stream /\ Last(x).generation = m.generation /\ Last(x).use # "detach"

\* A sender that is done with another track than the one in force is shown as
\* failed, or will be when the retry that it was part of is over.
Excused(s, m, c) ==
  s[c].bound /\ s[c].tasks = <<>> /\ s[c].track # m.stream =>
    s[c].error \/ c \in m.failing \/ (m.failure /\ ~Pending(s, "retry", m))

\* The replacements of a capture are over when those of a retry begin.
InTurn(s, m) ==
  /\ m.stage # "none" => m.phase = "requesting" /\ ~Pending(s, "retry", m)
  /\ m.phase = "ready" => ~Pending(s, "all", m)
  /\ ~Pending(s, "retry", m) \/ ~Pending(s, "all", m)

Following(s, m) ==
  /\ s \in [Connection -> Sender]
  /\ \A c \in Connection : Fits(s[c], m) /\ Excused(s, m, c)
  /\ InTurn(s, m)

\* Only the connections that the peers have are open.
Owned(s, P) ==
  /\ P \in [Peer -> {0} \cup Connection]
  /\ \A c \in Connection : s[c].status = "open" => \E p \in Peer : P[p] = c
  /\ \A p \in Peer : P[p] # 0 => s[P[p]].status # "none"

SendersInv == Inv /\ Following(sender, mic) /\ Owned(sender, peers)

\* One more replacement at the end of a sender's.
Queued(y, x, t) == y = [x EXCEPT !.tasks = Append(@, t)]
LEMMA QueuedLast ==
  ASSUME NEW x \in Sender, NEW t \in Task, NEW y, Queued(y, x, t)
  PROVE  /\ y \in Sender
         /\ y.bound = x.bound /\ y.status = x.status /\ y.track = x.track /\ y.error = x.error
         /\ y.tasks # <<>> /\ Last(y) = t
         /\ \A u, g : Has(y, u, g) <=> Has(x, u, g) \/ (t.use = u /\ t.generation = g)
         /\ \A g \in Nat : (\A n \in DOMAIN y.tasks : y.tasks[n].generation <= g)
              <=> (\A n \in DOMAIN x.tasks : x.tasks[n].generation <= g) /\ t.generation <= g
<1>1. x.tasks \in Seq(Task) BY DEF Sender
<1>2. /\ y \in Sender /\ y.tasks = Append(x.tasks, t)
      /\ y.bound = x.bound /\ y.status = x.status /\ y.track = x.track /\ y.error = x.error
  <2> DEFINE q == Append(x.tasks, t)
  <2>1. q \in Seq(Task) BY <1>1
  <2>2. y = [x EXCEPT !.tasks = q] BY DEF Queued
  <2> HIDE DEF q
  <2>3. /\ y \in Sender /\ y.tasks = q
        /\ y.bound = x.bound /\ y.status = x.status /\ y.track = x.track /\ y.error = x.error
    BY <2>1, <2>2 DEF Sender
  <2>. QED BY <2>3 DEF q
<1>3. /\ Len(y.tasks) = Len(x.tasks) + 1 /\ Len(x.tasks) \in Nat
      /\ DOMAIN y.tasks = 1..(Len(x.tasks) + 1) /\ DOMAIN x.tasks = 1..Len(x.tasks)
      /\ y.tasks[Len(x.tasks) + 1] = t
      /\ \A n \in 1..Len(x.tasks) : y.tasks[n] = x.tasks[n]
  BY <1>1, <1>2
<1>4. y.tasks # <<>> /\ Last(y) = t BY <1>3 DEF Last
<1>5. DOMAIN y.tasks = DOMAIN x.tasks \cup {Len(x.tasks) + 1} BY <1>3
<1>6. ASSUME NEW u, NEW g
      PROVE  Has(y, u, g) <=> Has(x, u, g) \/ (t.use = u /\ t.generation = g)
  BY <1>3, <1>5 DEF Has
<1>7. ASSUME NEW g \in Nat
      PROVE  (\A n \in DOMAIN y.tasks : y.tasks[n].generation <= g)
              <=> (\A n \in DOMAIN x.tasks : x.tasks[n].generation <= g) /\ t.generation <= g
  BY <1>3, <1>5
<1>. QED BY <1>2, <1>4, <1>6, <1>7

\* A replacement of the capture in force fits, and excuses its sender.
LEMMA QueuedFits ==
  ASSUME NEW m \in Mic, NEW x \in Sender, x.status = "open", \A n \in DOMAIN x.tasks : x.tasks[n].generation <= m.generation,
         NEW t \in Task, t.track = m.stream, t.generation = m.generation, t.use # "detach",
         NEW y, Queued(y, x, t)
  PROVE  y \in Sender /\ Fits(y, m) /\ y.tasks # <<>> /\ y.bound = x.bound /\ y.status = x.status
BY QueuedLast DEF Mic, Fits

\* What replaceAll makes of each sender.
LEMMA ReplacedAll ==
  ASSUME NEW s \in [Connection -> Sender], NEW track \in Nat, NEW generation \in Nat,
         NEW use \in {"all", "retry", "bind"}, NEW c \in Connection
  PROVE  LET t == [track |-> track, generation |-> generation, use |-> use] IN
         /\ t \in Task
         /\ s[c].bound => Queued(ReplaceAll(s, track, generation, use)[c], s[c], t)
         /\ ~s[c].bound => ReplaceAll(s, track, generation, use)[c] = s[c]
BY DEF Task, ReplaceAll, Queue, Queued

\* A new replacement for all senders, of the capture in force: nobody is behind.
LEMMA ReplaceAllFollows ==
  ASSUME NEW s \in [Connection -> Sender], NEW m \in Mic, NEW use \in {"all", "retry"},
         \A c \in Connection : /\ s[c].bound => s[c].status = "open"
                               /\ \A n \in DOMAIN s[c].tasks : s[c].tasks[n].generation <= m.generation
  PROVE  LET r == ReplaceAll(s, m.stream, m.generation, use) IN
         /\ r \in [Connection -> Sender]
         /\ \A c \in Connection : Fits(r[c], m) /\ Excused(r, m, c) /\ r[c].bound = s[c].bound /\ r[c].status = s[c].status
         /\ \A u : Pending(r, u, m) => Pending(s, u, m) \/ u = use
<1> DEFINE r == ReplaceAll(s, m.stream, m.generation, use)
<1> DEFINE t == [track |-> m.stream, generation |-> m.generation, use |-> use]
<1>0. m.stream \in Nat /\ m.generation \in Nat /\ use \in {"all", "retry", "bind"} BY DEF Mic
<1>1. t \in Task /\ t.track = m.stream /\ t.generation = m.generation /\ t.use = use /\ t.use # "detach"
  BY <1>0 DEF Task
<1>2. ASSUME NEW c \in Connection
      PROVE  /\ s[c].bound => Queued(r[c], s[c], t)
             /\ ~s[c].bound => r[c] = s[c]
  BY <1>0, ReplacedAll, Zenon DEF r, t
<1>3. DOMAIN r = Connection /\ r = [c \in Connection |-> r[c]] BY DEF ReplaceAll
<1> HIDE DEF r, t
<1>4. ASSUME NEW c \in Connection
      PROVE  /\ r[c] \in Sender /\ Fits(r[c], m) /\ r[c].bound = s[c].bound /\ r[c].status = s[c].status
             /\ r[c].bound => r[c].tasks # <<>>
             /\ \A u, g : Has(r[c], u, g) => Has(s[c], u, g) \/ u = use
  <2>1. CASE s[c].bound
    <3>1. /\ s[c] \in Sender /\ s[c].status = "open"
          /\ \A n \in DOMAIN s[c].tasks : s[c].tasks[n].generation <= m.generation
      BY <2>1
    <3>2. r[c] \in Sender /\ Fits(r[c], m) /\ r[c].tasks # <<>> /\ r[c].bound = s[c].bound /\ r[c].status = s[c].status
      BY <1>1, <1>2, <2>1, <3>1, QueuedFits, Zenon
    <3>3. \A u, g : Has(r[c], u, g) <=> Has(s[c], u, g) \/ (t.use = u /\ t.generation = g)
      BY <1>2, <2>1, <1>1, <3>1, QueuedLast
    <3>. QED BY <1>1, <3>2, <3>3
  <2>2. CASE ~s[c].bound BY <1>2, <2>2 DEF Fits
  <2>. QED BY <2>1, <2>2
<1>5. r \in [Connection -> Sender] BY <1>3, <1>4
<1>6. \A c \in Connection : Excused(r, m, c) BY <1>4 DEF Excused
<1>7. \A u : Pending(r, u, m) => Pending(s, u, m) \/ u = use BY <1>4 DEF Pending
<1>. QED BY <1>4, <1>5, <1>6, <1>7 DEF r

-----------------------------------------------------------------------------
(* A new generation, and the captures it leads to.                         *)

\* A generation that begins takes the tracks of all senders away.
LEMMA RenewedFollows ==
  ASSUME SendersInv, mic' \in Mic, mic'.generation = mic.generation + 1, mic'.stream = 0,
         mic'.phase # "ready", mic'.stage # "none" => mic'.phase = "requesting",
         sender' = ReplaceAll(sender, 0, mic.generation + 1, "all"), UNCHANGED peers
  PROVE  Following(sender', mic') /\ Owned(sender', peers')
<1> DEFINE g == mic.generation + 1
<1>1. /\ mic.generation \in Nat /\ g \in Nat /\ mic'.generation = g /\ mic'.stream = 0 /\ sender \in [Connection -> Sender]
      /\ sender' = ReplaceAll(sender, mic'.stream, mic'.generation, "all")
  BY DEF SendersInv, Inv, Mic, Following
<1>2. ASSUME NEW c \in Connection
      PROVE  /\ sender[c].bound => sender[c].status = "open"
             /\ \A n \in DOMAIN sender[c].tasks :
                  sender[c].tasks[n].generation <= mic'.generation /\ sender[c].tasks[n].generation # mic'.generation
  <2>1. /\ sender[c] \in Sender /\ (sender[c].bound => sender[c].status = "open")
        /\ \A n \in DOMAIN sender[c].tasks : sender[c].tasks[n].generation <= mic.generation
    BY <1>1 DEF SendersInv, Following, Fits
  <2>2. \A n \in DOMAIN sender[c].tasks : sender[c].tasks[n].generation \in Nat
    <3>1. sender[c].tasks \in Seq(Task) BY <2>1 DEF Sender
    <3>2. \A n \in DOMAIN sender[c].tasks : sender[c].tasks[n] \in Task BY <3>1
    <3>. QED BY <3>2 DEF Task
  <2>. QED BY <1>1, <2>1, <2>2
<1>3. \A u : ~Pending(sender, u, mic') BY <1>2 DEF Pending, Has
<1>4. /\ sender' \in [Connection -> Sender]
      /\ \A c \in Connection : Fits(sender'[c], mic') /\ Excused(sender', mic', c) /\ sender'[c].bound = sender[c].bound /\ sender'[c].status = sender[c].status
      /\ \A u : Pending(sender', u, mic') => Pending(sender, u, mic') \/ u = "all"
  <2>1. \A c \in Connection : /\ sender[c].bound => sender[c].status = "open"
                              /\ \A n \in DOMAIN sender[c].tasks : sender[c].tasks[n].generation <= mic'.generation
    BY <1>2
  <2> DEFINE r == ReplaceAll(sender, mic'.stream, mic'.generation, "all")
  <2>2. /\ r \in [Connection -> Sender]
        /\ \A c \in Connection : Fits(r[c], mic') /\ Excused(r, mic', c) /\ r[c].bound = sender[c].bound /\ r[c].status = sender[c].status
        /\ \A u : Pending(r, u, mic') => Pending(sender, u, mic') \/ u = "all"
    BY <1>1, <2>1, ReplaceAllFollows
  <2>. QED BY <1>1, <2>2, Zenon
<1>5. InTurn(sender', mic') BY <1>3, <1>4 DEF InTurn
<1>6. Owned(sender', peers') BY <1>4 DEF Owned, SendersInv
<1>. QED BY <1>4, <1>5, <1>6 DEF Following

\* Turning the microphone off, or asking for a capture.
LEMMA TurnedFollows ==
  ASSUME SendersInv, NEW phase \in {"off", "error", "requesting"}, NEW stage \in {"none", "clearing"}, NEW muted \in BOOLEAN,
         stage = "clearing" => phase = "requesting",
         mic' = Publish([Renewed(mic) EXCEPT !.stage = stage, !.phase = phase, !.muted = muted]),
         sender' = ReplaceAll(sender, 0, mic.generation + 1, "all"), UNCHANGED peers
  PROVE  Following(sender', mic') /\ Owned(sender', peers')
<1>1. mic \in Mic BY DEF SendersInv, Inv
<1>2. Turned(mic', mic, stage, phase) BY <1>1, TurnMic, Zenon
<1>3. /\ mic' \in Mic /\ mic'.generation = mic.generation + 1 /\ mic'.stream = 0 /\ mic'.phase # "ready"
      /\ mic'.stage # "none" => mic'.phase = "requesting"
  BY <1>2 DEF Turned, Fresh
<1>. QED BY <1>3, RenewedFollows, Zenon

LEMMA DisableFollows ==
  ASSUME SendersInv, NEW phase \in {"off", "error"}, Disable(phase), UNCHANGED peers
  PROVE  Following(sender', mic') /\ Owned(sender', peers')
<1>1. /\ phase \in {"off", "error", "requesting"} /\ "none" \in {"none", "clearing"} /\ TRUE \in BOOLEAN
      /\ "none" # "clearing"
  OBVIOUS
<1>. QED BY <1>1, TurnedFollows, Zenon DEF Disable, Disabled

\* What the microphone shows of failures, mutes and holds is nothing to a sender.
LEMMA SameFollows ==
  ASSUME SendersInv, mic' \in Mic, mic'.generation = mic.generation, mic'.stream = mic.stream,
         mic'.stage # "none" => mic'.phase = "requesting" /\ mic.stage # "none",
         mic'.phase = "ready" => mic.phase = "ready" \/ ~Pending(sender, "all", mic),
         \A c \in Connection : Excused(sender, mic', c), UNCHANGED <<sender, peers>>
  PROVE  Following(sender', mic') /\ Owned(sender', peers')
BY DEF Pending, SendersInv, Following, InTurn, Fits

\* A microphone that shows the failures it has.
LEMMA KnownFollows ==
  ASSUME SendersInv, mic' \in Mic, mic'.generation = mic.generation, mic'.stream = mic.stream,
         mic'.stage # "none" => mic'.phase = "requesting" /\ mic.stage # "none",
         mic'.phase = "ready" => mic.phase = "ready" \/ ~Pending(sender, "all", mic),
         mic'.failure = mic.failure, mic'.failing = mic.failing, UNCHANGED <<sender, peers>>
  PROVE  Following(sender', mic') /\ Owned(sender', peers')
BY SameFollows DEF Pending, SendersInv, Following, Excused

\* Failures are reported once nothing is left of the replacements that had them.
LEMMA ReportFollows ==
  ASSUME SendersInv, mic' \in Mic, mic'.generation = mic.generation, mic'.stream = mic.stream,
         mic'.stage # "none" => mic'.phase = "requesting" /\ mic.stage # "none",
         mic'.phase = "ready" => mic.phase = "ready" \/ ~Pending(sender, "all", mic),
         mic'.failure = (mic.failure \/ mic.failing \cap Bound(sender) # {}),
         ~Pending(sender, "retry", mic), UNCHANGED <<sender, peers>>
  PROVE  Following(sender', mic') /\ Owned(sender', peers')
<1>1. \A u : Pending(sender, u, mic') <=> Pending(sender, u, mic) BY DEF Pending
<1>2. ASSUME NEW c \in Connection PROVE Excused(sender, mic', c)
  BY <1>1 DEF Bound, SendersInv, Following, Excused
<1>. QED BY <1>2, SameFollows

-----------------------------------------------------------------------------
(* The steps of one sender, and of the peers.                              *)

\* A sender that moves on without a word to the microphone.
Calm(y, x, m) ==
  /\ y \in Sender /\ Fits(y, m)
  /\ \A u \in {"all", "retry"} : Has(y, u, m.generation) => Has(x, u, m.generation)
  /\ y.bound /\ y.tasks = <<>> /\ y.track # m.stream =>
       y.error \/ (x.bound /\ x.tasks = <<>> /\ x.track # m.stream /\ (x.error => y.error))

LEMMA CalmFollows ==
  ASSUME SendersInv, UNCHANGED mic, sender' \in [Connection -> Sender],
         \A c \in Connection : Calm(sender'[c], sender[c], mic)
  PROVE  Following(sender', mic')
BY DEF Calm, Pending, SendersInv, Following, InTurn, Excused

\* A sender that stays, and one whose peer or failure is what changes.
LEMMA StaysCalm ==
  ASSUME NEW m \in Mic, NEW x \in Sender, Fits(x, m), NEW y \in Sender,
         y.tasks = x.tasks, y.track = x.track, y.bound => x.bound /\ y.status = x.status,
         x.error => y.error
  PROVE  Calm(y, x, m)
BY DEF Calm, Fits, Has, Last

\* A sender that is bound, with the capture in force to carry.
LEMMA BindCalm ==
  ASSUME SendersInv, NEW s \in [Connection -> Sender], NEW c \in Connection, s[c].status = "open",
         \A n \in DOMAIN s[c].tasks : s[c].tasks[n].generation <= mic.generation,
         NEW x, \A u \in {"all", "retry"} : Has(s[c], u, mic.generation) => Has(x, u, mic.generation)
  PROVE  /\ Bind(s, c) \in [Connection -> Sender]
         /\ \A d \in Connection \ {c} : Bind(s, c)[d] = s[d]
         /\ Calm(Bind(s, c)[c], x, mic) /\ Bind(s, c)[c].bound
<1> DEFINE t == [track |-> mic.stream, generation |-> mic.generation, use |-> "bind"]
           z == [s[c] EXCEPT !.bound = TRUE]
           y == [z EXCEPT !.tasks = Append(@, t)]
           b == [s EXCEPT ![c].bound = TRUE]
<1>0. mic \in Mic /\ mic.stream \in Nat /\ mic.generation \in Nat BY DEF SendersInv, Inv, Mic
<1>1. t \in Task /\ t.track = mic.stream /\ t.generation = mic.generation /\ t.use = "bind"
  BY <1>0 DEF Task
<1>2. /\ z \in Sender /\ z.status = "open" /\ z.bound /\ z.tasks = s[c].tasks
      /\ b \in [Connection -> Sender] /\ b[c] = z /\ \A d \in Connection \ {c} : b[d] = s[d]
  BY DEF Sender
<1>3. Bind(s, c) = [b EXCEPT ![c].tasks = Append(@, t)] BY DEF Bind, Queue
<1> HIDE DEF t, b
<1>4. Bind(s, c)[c] = y /\ \A d \in Connection \ {c} : Bind(s, c)[d] = s[d] BY <1>2, <1>3
<1>5. Queued(y, z, t) BY DEF Queued
<1> HIDE DEF y, z
<1>6. y \in Sender /\ Fits(y, mic) /\ y.tasks # <<>> /\ y.bound
  BY <1>2, <1>0, <1>1, <1>5, QueuedFits
<1>7. \A u \in {"all", "retry"} : Has(y, u, mic.generation) => Has(z, u, mic.generation)
  BY <1>1, <1>2, <1>5, QueuedLast
<1>8. \A u \in {"all", "retry"} : Has(z, u, mic.generation) => Has(x, u, mic.generation)
  BY <1>2 DEF Has
<1>9. Calm(Bind(s, c)[c], x, mic) BY <1>4, <1>6, <1>7, <1>8 DEF Calm
<1>10. Bind(s, c) \in [Connection -> Sender] BY <1>2, <1>3, <1>4, <1>6
<1>. QED BY <1>4, <1>6, <1>9, <1>10

\* A peer that goes takes its sender along.
LEMMA ClosedCalm ==
  ASSUME SendersInv, NEW c \in Connection
  PROVE  /\ Closed(sender, c) \in [Connection -> Sender]
         /\ \A d \in Connection \ {c} : Closed(sender, c)[d] = sender[d]
         /\ Calm(Closed(sender, c)[c], sender[c], mic)
         /\ Closed(sender, c)[c].status = "closed"
<1> DEFINE x == sender[c]
           z == [x EXCEPT !.status = "closed", !.connected = FALSE, !.answers = FALSE, !.error = FALSE]
           w == [z EXCEPT !.bound = FALSE]
           t == [track |-> 0, generation |-> 0, use |-> "detach"]
           b == [sender EXCEPT ![c].status = "closed", ![c].connected = FALSE, ![c].answers = FALSE, ![c].error = FALSE]
           q == [b EXCEPT ![c].bound = FALSE]
<1>0. /\ mic \in Mic /\ mic.generation \in Nat /\ t \in Task /\ sender \in [Connection -> Sender] /\ x \in Sender
      /\ Fits(x, mic) /\ t.generation = 0 /\ t.use = "detach"
  BY DEF SendersInv, Following, Inv, Mic, Task
<1>1. c # 0 BY DEF Connection
<1>2. /\ z \in Sender /\ z.tasks = x.tasks /\ z.bound = x.bound /\ z.status = "closed"
      /\ w \in Sender /\ w.tasks = x.tasks /\ ~w.bound /\ w.status = "closed"
  BY <1>0 DEF Sender
<1>3. b \in [Connection -> Sender] /\ b[c] = z /\ \A d \in Connection \ {c} : b[d] = sender[d]
  BY <1>0, <1>2
<1>4. q \in [Connection -> Sender] /\ q[c] = w /\ \A d \in Connection \ {c} : q[d] = sender[d]
  BY <1>2, <1>3
<1>5. Closed(sender, c) = IF x.bound THEN Queue(q, c, 0, 0, "detach") ELSE b
  BY <1>1, <1>2, <1>3 DEF Closed, Unbind
<1> HIDE DEF b, q
<1>6. CASE x.bound
  <2> DEFINE y == [w EXCEPT !.tasks = Append(@, t)]
  <2>1. Closed(sender, c) = [q EXCEPT ![c].tasks = Append(@, t)] BY <1>5, <1>6 DEF Queue
  <2>2. /\ Closed(sender, c)[c] = y /\ \A d \in Connection \ {c} : Closed(sender, c)[d] = sender[d]
        /\ Closed(sender, c) = [d \in Connection |-> Closed(sender, c)[d]]
    BY <1>4, <2>1
  <2>3. Queued(y, w, t) BY DEF Queued
  <2> HIDE DEF y, t, w
  <2>4. /\ y \in Sender /\ y.bound = w.bound /\ y.status = w.status
        /\ \A u, g : Has(y, u, g) <=> Has(w, u, g) \/ (t.use = u /\ t.generation = g)
        /\ (\A n \in DOMAIN y.tasks : y.tasks[n].generation <= mic.generation)
              <=> (\A n \in DOMAIN w.tasks : w.tasks[n].generation <= mic.generation) /\ t.generation <= mic.generation
    BY <1>0, <1>2, <2>3, QueuedLast
  <2>5. \A u, g : Has(w, u, g) <=> Has(x, u, g) BY <1>2 DEF Has
  <2>6. Fits(y, mic) /\ ~y.bound /\ y.status = "closed" BY <1>0, <1>2, <2>4 DEF Fits
  <2>7. Calm(y, x, mic) BY <1>0, <2>4, <2>5, <2>6 DEF Calm
  <2>8. Closed(sender, c) \in [Connection -> Sender] BY <1>0, <2>2, <2>4
  <2>. QED BY <2>2, <2>6, <2>7, <2>8
<1>7. CASE ~x.bound
  <2>1. Closed(sender, c) = b BY <1>5, <1>7
  <2>2. Fits(z, mic) /\ Calm(z, x, mic) BY <1>0, <1>2, <1>7 DEF Calm, Fits, Has, Last
  <2>. QED BY <1>2, <1>3, <1>7, <2>1, <2>2
<1>. QED BY <1>6, <1>7

\* Senders that begin, answer or are bound again.
LEMMA SenderStepFollows ==
  ASSUME SendersInv, NEW c \in Connection, Begin(c) \/ Answer(c) \/ Connected(c)
  PROVE  Following(sender', mic') /\ Owned(sender', peers')
<1>0. /\ mic \in Mic /\ sender \in [Connection -> Sender] /\ UNCHANGED <<mic, peers>>
      /\ \A d \in Connection : sender[d] \in Sender /\ Fits(sender[d], mic) /\ Calm(sender[d], sender[d], mic)
  BY StaysCalm DEF SendersInv, Inv, Following, Begin, Answer, Connected
<1>1. ASSUME NEW y \in Sender, sender' = [sender EXCEPT ![c] = y], Calm(y, sender[c], mic), y.status = sender[c].status
      PROVE  Following(sender', mic') /\ Owned(sender', peers')
  BY <1>0, <1>1, CalmFollows DEF SendersInv, Owned
<1>2. CASE Begin(c)
  <2> DEFINE y == [sender[c] EXCEPT !.running = TRUE]
  <2>1. /\ y \in Sender /\ y.tasks = sender[c].tasks /\ y.track = sender[c].track /\ y.bound = sender[c].bound
        /\ y.status = sender[c].status /\ y.error = sender[c].error
    BY <1>0 DEF Sender
  <2>2. sender' = [sender EXCEPT ![c] = y] BY <1>2 DEF Begin
  <2> HIDE DEF y
  <2>3. Calm(y, sender[c], mic) BY <1>0, <2>1, StaysCalm
  <2>. QED BY <1>1, <2>1, <2>2, <2>3
<1>3. CASE Connected(c)
  <2> DEFINE y == [sender[c] EXCEPT !.connected = TRUE]
  <2>1. /\ y \in Sender /\ y.tasks = sender[c].tasks /\ y.track = sender[c].track /\ y.bound = sender[c].bound
        /\ y.status = sender[c].status /\ y.error = sender[c].error
    BY <1>0 DEF Sender
  <2>2. sender' = [sender EXCEPT ![c] = y] BY <1>3 DEF Connected
  <2> HIDE DEF y
  <2>3. Calm(y, sender[c], mic) BY <1>0, <2>1, StaysCalm
  <2>. QED BY <1>1, <2>1, <2>2, <2>3
<1>4. CASE Answer(c)
  <2> DEFINE y == [sender[c] EXCEPT !.answers = FALSE]
             z == [sender[c] EXCEPT !.answers = FALSE, !.error = TRUE]
             s == [sender EXCEPT ![c].answers = FALSE]
  <2>1. /\ y \in Sender /\ y.tasks = sender[c].tasks /\ y.status = "open"
        /\ z \in Sender /\ z.tasks = sender[c].tasks /\ z.track = sender[c].track /\ z.bound = sender[c].bound
        /\ z.status = sender[c].status /\ z.error
    BY <1>0, <1>4 DEF Sender, Answer
  <2>2. s \in [Connection -> Sender] /\ s[c] = y /\ \A d \in Connection \ {c} : s[d] = sender[d]
    BY <1>0, <2>1
  <2>3. sender' \in {Bind(s, c), [s EXCEPT ![c].error = TRUE]} BY <1>4 DEF Answer
  <2>4. [s EXCEPT ![c].error = TRUE] = [sender EXCEPT ![c] = z] BY <1>0, <2>1
  <2> HIDE DEF s, y, z
  <2>5. CASE sender' = Bind(s, c)
    <3>1. /\ \A n \in DOMAIN s[c].tasks : s[c].tasks[n].generation <= mic.generation
          /\ \A u \in {"all", "retry"} : Has(s[c], u, mic.generation) => Has(sender[c], u, mic.generation)
      BY <1>0, <2>1, <2>2 DEF Fits, Has
    <3>2. /\ sender' \in [Connection -> Sender] /\ Calm(sender'[c], sender[c], mic)
          /\ \A d \in Connection \ {c} : sender'[d] = sender[d]
      BY <2>1, <2>2, <2>5, <3>1, BindCalm
    <3>3. \A d \in Connection : Calm(sender'[d], sender[d], mic) BY <1>0, <3>2
    <3>4. sender[c].status = "open" /\ sender'[c].status = "open"
      BY <2>1, <2>2, <2>5, <3>1, BindCalm, <1>4 DEF Calm, Answer, Fits
    <3>5. Owned(sender', peers') BY <1>0, <3>2, <3>4 DEF SendersInv, Owned
    <3>. QED BY <1>0, <3>2, <3>3, <3>5, CalmFollows
  <2>6. CASE sender' = [sender EXCEPT ![c] = z] BY <1>0, <2>1, StaysCalm, <1>1, <2>6
  <2>. QED BY <2>3, <2>4, <2>5, <2>6
<1>. QED BY <1>2, <1>3, <1>4

\* Every peer that negotiated audio binds its sender again.
LEMMA RebindFollows ==
  ASSUME SendersInv, Rebind
  PROVE  Following(sender', mic') /\ Owned(sender', peers')
<1>0. /\ mic \in Mic /\ sender \in [Connection -> Sender] /\ UNCHANGED <<mic, peers>>
      /\ \A d \in Connection : sender[d] \in Sender /\ Fits(sender[d], mic)
  BY DEF SendersInv, Inv, Following, Rebind
<1>1. ASSUME NEW c \in Connection
      PROVE  sender'[c] \in Sender /\ Calm(sender'[c], sender[c], mic) /\ sender'[c].status = sender[c].status
  <2>1. CASE sender[c].status # "open" BY <2>1, <1>0, StaysCalm DEF Rebind
  <2>2. CASE sender[c].status = "open" /\ sender[c].bound
    BY <2>2, <1>0, BindCalm DEF Rebind, Fits, Calm
  <2>3. CASE sender[c].status = "open" /\ ~sender[c].bound
    <3> DEFINE y == [sender[c] EXCEPT !.error = TRUE]
    <3>1. sender'[c] = y BY <2>3 DEF Rebind
    <3>2. /\ y \in Sender /\ y.tasks = sender[c].tasks /\ y.track = sender[c].track /\ y.bound = sender[c].bound
          /\ y.status = sender[c].status /\ y.error
      BY <1>0 DEF Sender
    <3> HIDE DEF y
    <3>. QED BY <1>0, <2>3, <3>1, <3>2, StaysCalm
  <2>. QED BY <2>1, <2>2, <2>3
<1>2. sender' \in [Connection -> Sender] BY <1>1 DEF Rebind
<1>3. Owned(sender', peers') BY <1>0, <1>1 DEF SendersInv, Owned
<1>. QED BY <1>0, <1>1, <1>2, <1>3, CalmFollows

\* A new connection of a peer replaces the one it had.
LEMMA PrepareFollows ==
  ASSUME SendersInv, NEW p \in Peer, Prepare(p)
  PROVE  Following(sender', mic') /\ Owned(sender', peers')
<1>0. /\ mic \in Mic /\ sender \in [Connection -> Sender] /\ UNCHANGED mic
      /\ \A d \in Connection : sender[d] \in Sender /\ Fits(sender[d], mic)
      /\ peers \in [Peer -> {0} \cup Connection]
  BY DEF SendersInv, Inv, Following, Prepare, Owned
<1>1. PICK c \in Connection, offerer \in BOOLEAN, failed \in BOOLEAN :
        /\ sender[c].status = "none" /\ peers' = [peers EXCEPT ![p] = c]
        /\ LET s == [Closed(sender, peers[p]) EXCEPT ![c].status = "open", ![c].answers = ~offerer]
           IN sender' = IF ~offerer THEN s ELSE IF failed THEN [s EXCEPT ![c].error = TRUE] ELSE Bind(s, c)
  BY DEF Prepare
<1> DEFINE k == Closed(sender, peers[p])
           s == [k EXCEPT ![c].status = "open", ![c].answers = ~offerer]
           y == [sender[c] EXCEPT !.status = "open", !.answers = ~offerer]
           z == [y EXCEPT !.error = TRUE]
<1>2. /\ k \in [Connection -> Sender] /\ k[c] = sender[c]
      /\ \A d \in Connection : Calm(k[d], sender[d], mic) /\ (k[d].status = "open" => sender[d].status = "open" /\ d # peers[p])
           /\ (sender[d].status # "none" => k[d].status # "none")
  <2>1. CASE peers[p] = 0 BY <2>1, <1>0, StaysCalm DEF Closed, Connection
  <2>2. CASE peers[p] \in Connection
    BY <2>2, ClosedCalm, <1>1, <1>0, StaysCalm DEF SendersInv, Owned, Connection
  <2>. QED BY <1>0, <2>1, <2>2
<1> HIDE DEF k
<1>3. s \in [Connection -> Sender] /\ s[c] = y /\ \A d \in Connection \ {c} : s[d] = k[d]
  <2>1. y \in Sender BY <1>0 DEF Sender
  <2>. QED BY <1>2, <2>1
<1>4. /\ y \in Sender /\ y.status = "open" /\ y.tasks = sender[c].tasks /\ y.track = sender[c].track
      /\ y.bound = sender[c].bound /\ ~sender[c].bound
      /\ z \in Sender /\ z.status = "open" /\ z.tasks = sender[c].tasks /\ z.track = sender[c].track
      /\ z.bound = sender[c].bound /\ y.error = sender[c].error /\ z.error
  BY <1>0, <1>1 DEF Fits, Sender
<1>5. /\ sender' \in [Connection -> Sender] /\ Calm(sender'[c], sender[c], mic) /\ sender'[c].status # "none"
      /\ \A d \in Connection \ {c} : sender'[d] = k[d]
  <2>1. CASE sender' = s
    <3>. HIDE DEF s, y
    <3>. QED BY <1>0, <1>3, <1>4, <2>1 DEF Calm, Fits, Has
  <2>2. CASE sender' = [s EXCEPT ![c].error = TRUE]
    <3>1. sender' \in [Connection -> Sender] /\ sender'[c] = z /\ \A d \in Connection \ {c} : sender'[d] = k[d]
      <4>1. [s[c] EXCEPT !.error = TRUE] = z BY <1>3
      <4>. HIDE DEF s, y, z
      <4>. QED BY <1>3, <1>4, <2>2, <4>1
    <3>. HIDE DEF s, y, z
    <3>. QED BY <1>0, <1>4, <3>1 DEF Calm, Fits, Has
  <2>3. CASE sender' = Bind(s, c)
    <3>. HIDE DEF s, y, z
    <3>1. /\ \A n \in DOMAIN s[c].tasks : s[c].tasks[n].generation <= mic.generation
          /\ \A u \in {"all", "retry"} : Has(s[c], u, mic.generation) => Has(sender[c], u, mic.generation)
      BY <1>0, <1>3, <1>4 DEF Fits, Has
    <3>2. /\ sender' \in [Connection -> Sender] /\ Calm(sender'[c], sender[c], mic) /\ sender'[c].bound
          /\ \A d \in Connection \ {c} : sender'[d] = s[d]
      BY <1>3, <1>4, <2>3, <3>1, BindCalm
    <3>. QED BY <1>3, <3>2 DEF Calm, Fits
  <2>. QED BY <1>1, <2>1, <2>2, <2>3 DEF s, k
<1>6. \A d \in Connection : Calm(sender'[d], sender[d], mic) BY <1>2, <1>5
<1>7. Owned(sender', peers')
  <2>1. peers' \in [Peer -> {0} \cup Connection] /\ peers'[p] = c /\ \A q \in Peer \ {p} : peers'[q] = peers[q]
    BY <1>0, <1>1
  <2>2. ASSUME NEW d \in Connection, sender'[d].status = "open" PROVE \E q \in Peer : peers'[q] = d
    <3>1. CASE d = c BY <2>1, <3>1
    <3>2. CASE d # c
      <4>1. k[d].status = "open" /\ sender[d].status = "open" /\ d # peers[p] BY <1>2, <1>5, <2>2, <3>2
      <4>2. PICK q \in Peer : peers[q] = d BY <4>1 DEF SendersInv, Owned
      <4>. QED BY <2>1, <4>1, <4>2
    <3>. QED BY <3>1, <3>2
  <2>3. ASSUME NEW q \in Peer, peers'[q] # 0 PROVE sender'[peers'[q]].status # "none"
    BY <1>5, <1>0, <2>1, <2>3, <1>2 DEF SendersInv, Owned
  <2>. QED BY <2>1, <2>2, <2>3 DEF Owned
<1>. QED BY <1>0, <1>5, <1>6, <1>7, CalmFollows

\* A peer leaves.
LEMMA LeaveFollows ==
  ASSUME SendersInv, NEW p \in Peer, Leave(p)
  PROVE  Following(sender', mic') /\ Owned(sender', peers')
<1>0. /\ mic \in Mic /\ sender \in [Connection -> Sender] /\ UNCHANGED mic
      /\ \A d \in Connection : sender[d] \in Sender /\ Fits(sender[d], mic)
      /\ peers \in [Peer -> {0} \cup Connection] /\ peers[p] \in Connection
  BY DEF SendersInv, Inv, Following, Leave, Owned
<1>1. /\ sender' \in [Connection -> Sender] /\ Calm(sender'[peers[p]], sender[peers[p]], mic)
      /\ sender'[peers[p]].status = "closed"
      /\ \A d \in Connection \ {peers[p]} : sender'[d] = sender[d]
  BY <1>0, ClosedCalm DEF Leave
<1>2. \A d \in Connection : Calm(sender'[d], sender[d], mic) BY <1>0, <1>1, StaysCalm
<1>3. Owned(sender', peers')
  <2>1. peers' = [peers EXCEPT ![p] = 0] BY DEF Leave
  <2>2. peers' \in [Peer -> {0} \cup Connection] /\ peers'[p] = 0 /\ \A q \in Peer \ {p} : peers'[q] = peers[q]
    BY <1>0, <2>1
  <2>3. \A q \in Peer : peers'[q] # 0 => sender'[peers'[q]].status # "none"
    BY <1>0, <1>1, <2>2 DEF SendersInv, Owned
  <2>4. ASSUME NEW d \in Connection, sender'[d].status = "open" PROVE \E q \in Peer : peers'[q] = d
    <3>1. d # peers[p] /\ sender[d].status = "open" BY <1>1, <2>4
    <3>2. PICK q \in Peer : peers[q] = d BY <3>1 DEF SendersInv, Owned
    <3>. QED BY <2>2, <3>1, <3>2
  <2>. QED BY <2>2, <2>3, <2>4 DEF Owned
<1>. QED BY <1>0, <1>1, <1>2, <1>3, CalmFollows

\* The room is left: no sender stays bound, and the microphone is off.
LEMMA CloseFollows ==
  ASSUME SendersInv, Close
  PROVE  Following(sender', mic') /\ Owned(sender', peers')
<1>0. /\ mic \in Mic /\ sender \in [Connection -> Sender] /\ peers \in [Peer -> {0} \cup Connection]
      /\ \A d \in Connection : sender[d] \in Sender /\ Fits(sender[d], mic)
  BY DEF SendersInv, Inv, Following, Owned
<1>1. /\ mic' \in Mic /\ mic'.generation = mic.generation + 1 /\ mic'.stage = "none" /\ mic'.phase = "off"
  <2>1. mic' = Publish([Renewed(mic) EXCEPT !.stage = "none", !.phase = "off", !.muted = TRUE])
    BY DEF Close, Disabled
  <2>2. "off" \in {"off", "error", "requesting"} /\ "none" \in {"none", "clearing"} /\ TRUE \in BOOLEAN
    OBVIOUS
  <2>3. Turned(mic', mic, "none", "off") BY <1>0, <2>1, <2>2, TurnMic, Zenon
  <2>. QED BY <2>3 DEF Turned, Fresh
<1>2. ASSUME NEW c \in Connection
      PROVE  /\ sender'[c] \in Sender /\ Fits(sender'[c], mic) /\ ~sender'[c].bound /\ sender'[c].status # "open"
  BY ClosedCalm, <1>0 DEF Close, Calm, Fits, SendersInv, Owned
<1>3. sender' \in [Connection -> Sender] BY <1>2 DEF Close
<1>4. \A c \in Connection : \A n \in DOMAIN sender'[c].tasks :
        sender'[c].tasks[n].generation \in Nat /\ sender'[c].tasks[n].generation <= mic.generation
  <2>1. \A c \in Connection : sender'[c].tasks \in Seq(Task) BY <1>2 DEF Sender
  <2>2. \A c \in Connection : \A n \in DOMAIN sender'[c].tasks : sender'[c].tasks[n] \in Task BY <2>1
  <2>3. \A c \in Connection : \A n \in DOMAIN sender'[c].tasks : sender'[c].tasks[n].generation \in Nat BY <2>2 DEF Task
  <2>. QED BY <1>2, <2>3 DEF Fits
<1>5. \A c \in Connection : \A n \in DOMAIN sender'[c].tasks :
        sender'[c].tasks[n].generation <= mic'.generation /\ sender'[c].tasks[n].generation # mic'.generation
  BY <1>0, <1>1, <1>4 DEF Mic
<1>6. \A u : ~Pending(sender', u, mic') BY <1>5 DEF Pending, Has
<1>7. InTurn(sender', mic') BY <1>1, <1>6 DEF InTurn
<1>8. \A c \in Connection : Fits(sender'[c], mic') /\ Excused(sender', mic', c)
  BY <1>2, <1>5 DEF Fits, Excused
<1>9. Owned(sender', peers') BY <1>2 DEF Close, Owned
<1>. QED BY <1>3, <1>7, <1>8, <1>9 DEF Following

\* A capture begins with tracks of nothing, of which no retry is left.
LEMMA CaptureFollows ==
  ASSUME SendersInv, Capture
  PROVE  Following(sender', mic') /\ Owned(sender', peers')
<1>1. mic \in Mic /\ InTurn(sender, mic) /\ mic.stage = "clearing" BY DEF SendersInv, Inv, Following, Capture
<1>2. mic' = [mic EXCEPT !.failure = mic.failure \/ mic.failing \cap Bound(sender) # {}, !.failing = {}, !.stage = "capturing"]
  BY DEF Capture, Reported
<1> DEFINE f == mic.failure \/ mic.failing \cap Bound(sender) # {}
<1>3. f \in BOOLEAN BY <1>1 DEF Mic
<1>4. mic' = [mic EXCEPT !.failure = f, !.failing = {}, !.stage = "capturing"] BY <1>2
<1> HIDE DEF f
<1>5. /\ mic' \in Mic /\ mic'.generation = mic.generation /\ mic'.stream = mic.stream /\ mic'.stage = "capturing"
      /\ mic'.phase = mic.phase /\ mic'.failure = f
  BY <1>1, <1>3, <1>4 DEF Mic
<1>6. mic'.failure = (mic.failure \/ mic.failing \cap Bound(sender) # {}) BY <1>5 DEF f
<1>7. UNCHANGED <<sender, peers>> BY DEF Capture
<1>. QED BY <1>1, <1>5, <1>6, <1>7, ReportFollows DEF InTurn

LEMMA AttachedFollows ==
  ASSUME SendersInv, Attached
  PROVE  Following(sender', mic') /\ Owned(sender', peers')
<1>1. mic \in Mic /\ InTurn(sender, mic) /\ mic.stage = "attaching" BY DEF SendersInv, Inv, Following, Attached
<1> DEFINE f == mic.failure \/ mic.failing \cap Bound(sender) # {}
           m == [mic EXCEPT !.failure = f, !.failing = {}, !.stage = "none", !.phase = "ready"]
<1>2. mic' = Publish(m) BY DEF Attached, Reported
<1>3. f \in BOOLEAN BY <1>1 DEF Mic
<1>4. m \in Mic /\ m.generation = mic.generation /\ m.stream = mic.stream /\ m.stage = "none" /\ m.failure = f
  <2> HIDE DEF f
  <2>. QED BY <1>1, <1>3 DEF Mic
<1> HIDE DEF m
<1>5. Published(mic', m) /\ mic'.failure = m.failure
  <2>1. Published(mic', m) BY <1>2, <1>4, PublishMic, Zenon
  <2>2. mic'.failure = m.failure BY <1>2, <1>4 DEF Publish, Mic
  <2>. QED BY <2>1, <2>2
<1>6. /\ mic' \in Mic /\ mic'.generation = mic.generation /\ mic'.stream = mic.stream /\ mic'.stage = "none"
      /\ mic'.failure = (mic.failure \/ mic.failing \cap Bound(sender) # {})
  BY <1>4, <1>5 DEF Published, f
<1>7. ~Pending(sender, "all", mic) BY DEF Attached, Settled, Pending, Has
<1>8. UNCHANGED <<sender, peers>> BY DEF Attached
<1>. QED BY <1>1, <1>6, <1>7, <1>8, ReportFollows DEF InTurn

\* The track that was captured is given to all senders.
LEMMA CapturedFollows ==
  ASSUME SendersInv, NEW g \in Generation, Captured(g)
  PROVE  Following(sender', mic') /\ Owned(sender', peers')
<1>1. mic \in Mic /\ sender \in [Connection -> Sender] /\ UNCHANGED peers /\ InTurn(sender, mic)
      /\ \A d \in Connection : Fits(sender[d], mic)
  BY DEF SendersInv, Inv, Following, Captured
<1>2. CASE UNCHANGED <<mic, sender>> BY <1>1, <1>2 DEF SendersInv
<1>3. CASE /\ Current(g) /\ mic' = [mic EXCEPT !.stream = g, !.enabled = FALSE, !.stage = "attaching"]
           /\ sender' = ReplaceAll(sender, g, g, "all")
  <2>1. g \in Nat /\ mic.stage = "capturing" /\ mic.phase = "requesting" /\ g = mic.generation
    BY <1>3 DEF Captured, SendersInv, Inv, Asking, Current
  <2>2. /\ mic' \in Mic /\ mic'.stage = "attaching" /\ mic'.stream = g /\ mic'.phase = "requesting"
        /\ mic'.generation = mic.generation
    BY <1>1, <1>3, <2>1 DEF Mic
  <2> DEFINE r == ReplaceAll(sender, mic'.stream, mic'.generation, "all")
  <2>3. \A c \in Connection : /\ sender[c].bound => sender[c].status = "open"
                              /\ \A n \in DOMAIN sender[c].tasks : sender[c].tasks[n].generation <= mic'.generation
    BY <1>1, <2>2 DEF Fits
  <2>4. /\ r \in [Connection -> Sender]
        /\ \A c \in Connection : Fits(r[c], mic') /\ Excused(r, mic', c) /\ r[c].bound = sender[c].bound /\ r[c].status = sender[c].status
        /\ \A u : Pending(r, u, mic') => Pending(sender, u, mic') \/ u = "all"
    BY <1>1, <2>2, <2>3, ReplaceAllFollows
  <2>5. sender' = r BY <1>3, <2>1, <2>2
  <2> HIDE DEF r
  <2>6. \A u : Pending(sender, u, mic') <=> Pending(sender, u, mic) BY <2>2 DEF Pending
  <2>7. InTurn(sender', mic') BY <1>1, <2>1, <2>2, <2>4, <2>5, <2>6 DEF InTurn
  <2>8. Owned(sender', peers') BY <1>1, <2>4, <2>5 DEF SendersInv, Owned
  <2>. QED BY <2>4, <2>5, <2>7, <2>8 DEF Following
<1>. QED BY <1>2, <1>3 DEF Captured

\* A retry leaves no sender behind while it lasts.
LEMMA RetryFollows ==
  ASSUME SendersInv, Retry
  PROVE  Following(sender', mic') /\ Owned(sender', peers')
<1>1. /\ mic \in Mic /\ sender \in [Connection -> Sender] /\ UNCHANGED <<mic, peers>> /\ InTurn(sender, mic)
      /\ \A d \in Connection : Fits(sender[d], mic)
      /\ mic.phase = "ready"
  BY DEF SendersInv, Inv, Following, Retry
<1> DEFINE r == ReplaceAll(sender, mic.stream, mic.generation, "retry")
<1>2. \A c \in Connection : /\ sender[c].bound => sender[c].status = "open"
                            /\ \A n \in DOMAIN sender[c].tasks : sender[c].tasks[n].generation <= mic.generation
  BY <1>1 DEF Fits
<1>3. /\ r \in [Connection -> Sender]
      /\ \A c \in Connection : Fits(r[c], mic) /\ Excused(r, mic, c) /\ r[c].bound = sender[c].bound /\ r[c].status = sender[c].status
      /\ \A u : Pending(r, u, mic) => Pending(sender, u, mic) \/ u = "retry"
  BY <1>1, <1>2, ReplaceAllFollows
<1>4. sender' = r BY DEF Retry
<1> HIDE DEF r
<1>5. InTurn(sender', mic) BY <1>1, <1>3, <1>4 DEF InTurn
<1>6. Owned(sender', peers') BY <1>1, <1>3, <1>4 DEF SendersInv, Owned
<1>. QED BY <1>1, <1>3, <1>4, <1>5, <1>6 DEF Following

-----------------------------------------------------------------------------
(* The end of a replacement.                                               *)

\* What is left of a sender's replacements when the first is done.
LEMMA TailLast ==
  ASSUME NEW q \in Seq(Task), q # <<>>
  PROVE  /\ Tail(q) \in Seq(Task) /\ Head(q) \in Task /\ 1 \in DOMAIN q /\ Head(q) = q[1]
         /\ \A n \in DOMAIN Tail(q) : n + 1 \in DOMAIN q /\ n + 1 # 1 /\ Tail(q)[n] = q[n + 1]
         /\ Tail(q) = <<>> => Len(q) = 1 /\ q[Len(q)] = Head(q) /\ DOMAIN q = {1}
         /\ Tail(q) # <<>> => Tail(q)[Len(Tail(q))] = q[Len(q)]
<1>1. /\ Len(q) \in Nat /\ Len(q) # 0 /\ DOMAIN q = 1..Len(q) /\ Head(q) = q[1]
      /\ Tail(q) \in Seq(Task) /\ Len(Tail(q)) = Len(q) - 1 /\ DOMAIN Tail(q) = 1..(Len(q) - 1)
      /\ \A n \in 1..(Len(q) - 1) : Tail(q)[n] = q[n + 1]
  OBVIOUS
<1>2. Tail(q) = <<>> => Len(q) = 1
  <2>1. Tail(q) = <<>> => Len(Tail(q)) = 0 BY EmptySeq
  <2>. QED BY <1>1, <2>1
<1>3. Tail(q) # <<>> => Len(Tail(q)) # 0 /\ Len(Tail(q)) \in 1..(Len(q) - 1) /\ Len(Tail(q)) + 1 = Len(q)
  BY <1>1, EmptySeq
<1>4. Head(q) \in Task BY <1>1
<1>. QED BY <1>1, <1>2, <1>3, <1>4

\* How the end of a sender's first replacement shows in the microphone.
Speaks(c) ==
  Head(Tasks(c)).generation = mic.generation /\ Head(Tasks(c)).use \in {"all", "retry"}
LEMMA AnsweredCases ==
  ASSUME NEW c \in Connection, NEW failed \in BOOLEAN, mic \in Mic, Head(Tasks(c)) \in Task
  PROVE  LET n == Answered(c, failed) IN
         \/ n = mic /\ ~Speaks(c)
         \/ /\ Speaks(c) /\ mic.failing \subseteq n.failing /\ n.failure = mic.failure /\ (failed => c \in n.failing)
         \/ /\ Speaks(c) /\ Resolved(c)
            /\ \A d \in Bound(sender) : d \in mic.failing \/ (failed /\ d = c) => n.failure
            /\ Head(Tasks(c)).use = "all" => (mic.failure => n.failure)
<1> DEFINE t == Head(Tasks(c))
           f == IF failed THEN mic.failing \cup {c} ELSE mic.failing
           m == [mic EXCEPT !.failing = f]
           r == [m EXCEPT !.failure = FALSE]
<1>1. t.use \in {"all", "retry", "bind", "detach"} BY DEF Task
<1>2. f \in SUBSET Connection BY DEF Mic
<1>3. /\ m \in Mic /\ m.failing = f /\ m.failure = mic.failure
      /\ r \in Mic /\ r.failing = f /\ r.failure = FALSE
  <2> HIDE DEF f
  <2>. QED BY <1>2 DEF Mic
<1>4. CASE ~Speaks(c) BY <1>1, <1>4 DEF Answered, Speaks
<1>5. CASE Speaks(c)
  <2>0. Answered(c, failed) = CASE t.use = "retry" /\ Resolved(c) -> Reported(r)
                                [] t.use = "all" /\ mic.stage = "none" /\ Resolved(c) -> Reported(m)
                                [] OTHER -> m
    BY <1>1, <1>5 DEF Speaks, Answered
  <2> HIDE DEF t, f, m, r
  <2>1. \A x \in Mic : Reported(x).failure = (x.failure \/ x.failing \cap Bound(sender) # {})
    BY DEF Reported, Mic
  <2>2. CASE t.use = "retry" /\ Resolved(c) BY <2>0, <2>2, <1>3, <2>1, <1>5 DEF f, t
  <2>3. CASE t.use = "all" /\ mic.stage = "none" /\ Resolved(c)
    BY <2>0, <2>3, <1>3, <2>1, <1>5 DEF f, t
  <2>4. CASE ~(t.use = "retry" /\ Resolved(c)) /\ ~(t.use = "all" /\ mic.stage = "none" /\ Resolved(c))
    BY <2>0, <2>4, <1>3, <1>5 DEF f
  <2>. QED BY <2>2, <2>3, <2>4
<1>. QED BY <1>4, <1>5

\* A sender that is done carries the capture in force, or its failure is known.
LEMMA FinishFollows ==
  ASSUME SendersInv, NEW c \in Connection, Finish(c)
  PROVE  Following(sender', mic') /\ Owned(sender', peers')
<1>1. /\ mic \in Mic /\ sender \in [Connection -> Sender] /\ UNCHANGED peers /\ InTurn(sender, mic)
      /\ \A d \in Connection : sender[d] \in Sender /\ Fits(sender[d], mic) /\ Excused(sender, mic, d)
  BY DEF SendersInv, Inv, Following, Finish
<1>2. PICK failed \in BOOLEAN :
        /\ sender[c].running \/ (~Counts(c) /\ ~failed)
        /\ sender' = [sender EXCEPT ![c].tasks = Tail(@), ![c].running = FALSE,
                        ![c].track = IF sender[c].running /\ ~failed THEN Head(Tasks(c)).track ELSE @,
                        ![c].error = Shown(c, failed)]
        /\ mic' = Answered(c, failed)
  BY DEF Finish
<1> DEFINE x == sender[c]
           q == Tail(x.tasks)
           k == IF x.running /\ ~failed THEN Head(Tasks(c)).track ELSE x.track
           e == Shown(c, failed)
           y == [x EXCEPT !.tasks = q, !.running = FALSE, !.track = k, !.error = e]
<1>3. /\ q \in Seq(Task) /\ Head(x.tasks) \in Task /\ 1 \in DOMAIN x.tasks /\ Head(x.tasks) = x.tasks[1]
      /\ \A n \in DOMAIN q : n + 1 \in DOMAIN x.tasks /\ n + 1 # 1 /\ q[n] = x.tasks[n + 1]
      /\ q = <<>> => Len(x.tasks) = 1 /\ Last(x) = Head(x.tasks) /\ DOMAIN x.tasks = {1}
      /\ q # <<>> => q[Len(q)] = Last(x)
  BY <1>1, TailLast DEF Sender, Finish, Tasks, Last
<1>4. k \in Nat /\ e \in BOOLEAN BY <1>1, <1>3 DEF Sender, Task, Tasks, Shown
<1>5. sender' = [sender EXCEPT ![c] = y] BY <1>1, <1>2 DEF Tasks
<1>6. /\ y \in Sender /\ y.tasks = q /\ y.track = k /\ y.error = e /\ y.bound = x.bound /\ y.status = x.status
  <2> HIDE DEF q, k, e
  <2>. QED BY <1>1, <1>3, <1>4 DEF Sender
<1>7. SameMic(mic', mic) BY <1>1, <1>2, AnsweredMic
<1> HIDE DEF y, q
<1>8. Fits(y, mic) /\ \A u, g : Has(y, u, g) => Has(x, u, g) BY <1>1, <1>3, <1>6 DEF Fits, Has, Last
<1>9. /\ sender' \in [Connection -> Sender] /\ sender'[c] = y /\ \A d \in Connection \ {c} : sender'[d] = sender[d]
  BY <1>1, <1>5, <1>6
<1>10. \A d \in Connection : Fits(sender'[d], mic') BY <1>1, <1>7, <1>8, <1>9 DEF SameMic, Fits
<1>11. \A u : Pending(sender', u, mic') => Pending(sender, u, mic)
  BY <1>7, <1>8, <1>9 DEF SameMic, Pending
<1>12. InTurn(sender', mic') BY <1>1, <1>7, <1>11 DEF SameMic, InTurn
<1>13. Speaks(c) /\ Head(Tasks(c)).use = "all" => ~Pending(sender, "retry", mic)
  BY <1>1, <1>3 DEF InTurn, Pending, Has, Speaks, Tasks
<1>14. Speaks(c) /\ Head(Tasks(c)).use = "retry" => Pending(sender, "retry", mic)
  BY <1>3 DEF Pending, Has, Speaks, Tasks
<1>15. Speaks(c) /\ Resolved(c) /\ Head(Tasks(c)).use = "retry" => ~Pending(sender', "retry", mic')
  <2> SUFFICES ASSUME Speaks(c), Resolved(c), Head(Tasks(c)).use = "retry", Pending(sender', "retry", mic')
               PROVE  FALSE
    OBVIOUS
  <2>a. PICK d \in Connection : Has(sender'[d], "retry", mic.generation)
    BY <1>7 DEF Pending, SameMic
  <2>1. PICK n \in DOMAIN sender'[d].tasks :
          sender'[d].tasks[n].use = "retry" /\ sender'[d].tasks[n].generation = mic.generation
    BY <2>a DEF Has
  <2>2. CASE d = c BY <1>3, <1>6, <1>9, <2>1, <2>2 DEF Resolved, Tasks
  <2>3. CASE d # c BY <1>9, <2>1, <2>3 DEF Resolved, Tasks
  <2>. QED BY <2>2, <2>3
<1>16. \/ mic' = mic /\ ~Speaks(c)
       \/ /\ Speaks(c) /\ mic.failing \subseteq mic'.failing /\ mic'.failure = mic.failure /\ (failed => c \in mic'.failing)
       \/ /\ Speaks(c) /\ Resolved(c)
          /\ \A d \in Bound(sender) : d \in mic.failing \/ (failed /\ d = c) => mic'.failure
          /\ Head(Tasks(c)).use = "all" => (mic.failure => mic'.failure)
  BY <1>1, <1>2, <1>3, AnsweredCases, Zenon DEF Tasks
<1>17. Speaks(c) => Head(Tasks(c)).use \in {"all", "retry"} BY DEF Speaks
<1>18. Speaks(c) /\ Resolved(c) => ~Pending(sender', "retry", mic') BY <1>11, <1>13, <1>15, <1>17
<1>19. ASSUME NEW d \in Connection, d # c PROVE Excused(sender', mic', d)
  BY <1>1, <1>7, <1>9, <1>19, <1>11, <1>13, <1>14, <1>16, <1>17, <1>18 DEF SameMic, Bound, Excused
<1>20. Excused(sender', mic', c)
  <2> SUFFICES ASSUME y.bound, q = <<>>, y.track # mic'.stream
               PROVE  e \/ c \in mic'.failing \/ (mic'.failure /\ ~Pending(sender', "retry", mic'))
    BY <1>6, <1>9 DEF Excused
  <2>1. /\ x.bound /\ x.status = "open" /\ Last(x) = Head(x.tasks) /\ DOMAIN x.tasks = {1}
        /\ Head(x.tasks).track = mic.stream /\ Head(x.tasks).generation = mic.generation
        /\ Head(x.tasks).use # "detach" /\ mic'.stream = mic.stream
    BY <1>1, <1>3, <1>6, <1>7 DEF Fits, SameMic
  <2>2. Counts(c) BY <2>1 DEF Counts, Tasks
  <2>3. x.running /\ failed BY <1>2, <1>6, <2>1, <2>2 DEF Tasks
  <2>4. CASE Head(x.tasks).use = "bind"
    <3>1. {n \in DOMAIN Tasks(c) : Tasks(c)[n].use = "bind"} = {1} BY <1>3, <2>1, <2>4 DEF Tasks
    <3>2. Cardinality({1}) = 1 BY FS_Singleton
    <3>3. Bindings(c) = 1 BY <3>1, <3>2 DEF Bindings
    <3>. QED BY <2>1, <2>3, <2>4, <3>3 DEF Shown, Tasks
  <2>5. CASE Head(x.tasks).use # "bind"
    BY <1>3, <2>1, <2>5, <1>16, <1>18, <2>3 DEF Task, Speaks, Tasks, Bound
  <2>. QED BY <2>4, <2>5
<1>21. \A d \in Connection : Excused(sender', mic', d) BY <1>19, <1>20
<1>22. Owned(sender', peers') BY <1>6, <1>9, <1>1 DEF SendersInv, Owned
<1>. QED BY <1>9, <1>10, <1>12, <1>21, <1>22 DEF Following

-----------------------------------------------------------------------------
(* The senders follow the capture.                                         *)

LEMMA InitFollows == Init => SendersInv
<1> SUFFICES ASSUME Init PROVE SendersInv OBVIOUS
<1>1. NoSender \in Sender /\ NoSender.tasks = <<>> /\ ~NoSender.bound /\ NoSender.status = "none"
  BY EmptySeq DEF NoSender, Sender
<1>2. sender \in [Connection -> Sender] /\ \A c \in Connection : sender[c] = NoSender
  BY <1>1 DEF Init
<1>3. \A c \in Connection : DOMAIN sender[c].tasks = {} BY <1>1, <1>2
<1>4. \A u : ~Pending(sender, u, mic) BY <1>3 DEF Pending, Has
<1>5. \A c \in Connection : Fits(sender[c], mic) /\ Excused(sender, mic, c)
  BY <1>1, <1>2, <1>3 DEF Fits, Excused
<1>6. Following(sender, mic) BY <1>2, <1>4, <1>5 DEF Following, InTurn, Init
<1>7. Owned(sender, peers) BY <1>1, <1>2 DEF Owned, Init
<1>. QED BY <1>6, <1>7, InitInv DEF SendersInv

\* A microphone that is only published anew, or of which a hold ends.
LEMMA PublishFollows ==
  ASSUME SendersInv, NEW m \in Mic, m.phase = mic.phase \/ (m.phase = "error" /\ mic.stage = "none"),
         m.stage = mic.stage, m.generation = mic.generation, m.stream = mic.stream, m.failure = mic.failure,
         m.failing = mic.failing, mic' = Publish(m), UNCHANGED <<sender, peers>>
  PROVE  Following(sender', mic') /\ Owned(sender', peers')
<1>1. Published(mic', m) BY PublishMic, Zenon
<1>2. /\ mic' \in Mic /\ mic'.phase = m.phase /\ mic'.stage = m.stage /\ mic'.generation = m.generation
      /\ mic'.stream = m.stream
  BY <1>1 DEF Published
<1>3. mic'.failure = m.failure /\ mic'.failing = m.failing BY DEF Publish, Mic
<1>4. mic.stage # "none" => mic.phase = "requesting" BY DEF SendersInv, Following, InTurn
<1>. QED BY <1>2, <1>3, <1>4, KnownFollows

LEMMA HoldFollows ==
  ASSUME SendersInv, NEW held \in BOOLEAN, mic' = Hold(mic, held), UNCHANGED <<sender, peers>>
  PROVE  Following(sender', mic') /\ Owned(sender', peers')
<1> DEFINE m == [mic EXCEPT !.held = held]
<1>1. /\ m \in Mic /\ m.phase = mic.phase /\ m.stage = mic.stage /\ m.generation = mic.generation
      /\ m.stream = mic.stream /\ m.failure = mic.failure /\ m.failing = mic.failing
  BY DEF SendersInv, Inv, Mic
<1>2. mic' = Publish(m) BY DEF Hold
<1> HIDE DEF m
<1>. QED BY <1>1, <1>2, PublishFollows

LEMMA IdleFollows ==
  ASSUME SendersInv, UNCHANGED <<mic, sender, peers>>
  PROVE  Following(sender', mic') /\ Owned(sender', peers')
BY DEF SendersInv

\* A request, for a microphone that may be enabled or one that is ready.
LEMMA RequestFollows ==
  ASSUME SendersInv, NEW muted \in BOOLEAN, Request(muted), mic.phase # "requesting"
  PROVE  Following(sender', mic') /\ Owned(sender', peers')
<1>1. mic \in Mic /\ mic.stage = "none" /\ UNCHANGED peers
  BY DEF SendersInv, Inv, Following, InTurn, Request
<1>2. CASE mic' = Publish([mic EXCEPT !.phase = "error"]) /\ UNCHANGED sender
  <2> DEFINE m == [mic EXCEPT !.phase = "error"]
  <2>1. /\ m \in Mic /\ m.phase = "error" /\ m.stage = mic.stage /\ m.generation = mic.generation
        /\ m.stream = mic.stream /\ m.failure = mic.failure /\ m.failing = mic.failing
    BY <1>1 DEF Mic
  <2>2. mic' = Publish(m) BY <1>2
  <2> HIDE DEF m
  <2>. QED BY <1>1, <1>2, <2>1, <2>2, PublishFollows
<1>3. CASE /\ mic' = Publish([Renewed(mic) EXCEPT !.stage = "clearing", !.phase = "requesting", !.muted = muted])
           /\ sender' = ReplaceAll(sender, 0, mic.generation + 1, "all")
  <2>1. "requesting" \in {"off", "error", "requesting"} /\ "clearing" \in {"none", "clearing"} OBVIOUS
  <2>. QED BY <1>1, <1>3, <2>1, TurnedFollows, Zenon
<1>. QED BY <1>2, <1>3, Zenon DEF Request

\* Every step preserves the invariant.
LEMMA NextFollows == SendersInv /\ [Next]_vars => SendersInv'
<1> SUFFICES ASSUME SendersInv, [Next]_vars PROVE Following(sender', mic') /\ Owned(sender', peers')
  BY NextInv DEF SendersInv
<1>0. mic \in Mic /\ page \in Page BY DEF SendersInv, Inv
<1>1. CASE Enable BY <1>1, RequestFollows DEF Enable
<1>2. CASE Device BY <1>2, RequestFollows DEF Device
<1>3. CASE Ended \/ TurnOff BY <1>3, DisableFollows DEF Ended, TurnOff
<1>4. CASE Mute
  <2> DEFINE m == [mic EXCEPT !.held = FALSE, !.muted = ~@]
  <2>1. /\ m \in Mic /\ m.phase = mic.phase /\ m.stage = mic.stage /\ m.generation = mic.generation
        /\ m.stream = mic.stream /\ m.failure = mic.failure /\ m.failing = mic.failing
    BY <1>0 DEF Mic
  <2>2. mic' = Publish(m) /\ UNCHANGED <<sender, peers>> BY <1>4 DEF Mute
  <2> HIDE DEF m
  <2>. QED BY <2>1, <2>2, PublishFollows
<1>5. CASE Mode
  <2> DEFINE m == [mic EXCEPT !.held = FALSE, !.push = ~@]
  <2>1. /\ m \in Mic /\ m.phase = mic.phase /\ m.stage = mic.stage /\ m.generation = mic.generation
        /\ m.stream = mic.stream /\ m.failure = mic.failure /\ m.failing = mic.failing
    BY <1>0 DEF Mic
  <2>2. mic' = Publish(m) /\ UNCHANGED <<sender, peers>> BY <1>5 DEF Mode
  <2> HIDE DEF m
  <2>. QED BY <2>1, <2>2, PublishFollows
<1>6. CASE Press \/ Release \/ Blur
  BY <1>6, IdleFollows, HoldFollows DEF Press, Release, Blur, Released
<1>7. CASE Frame
  <2>1. PICK pressed \in {FALSE, page.pressed} : mic' = Hold(mic, page.focused /\ pressed)
    BY <1>7 DEF Frame
  <2>2. (page.focused /\ pressed) \in BOOLEAN BY <1>0 DEF Page
  <2>3. UNCHANGED <<sender, peers>> BY <1>7 DEF Frame
  <2>. QED BY <2>1, <2>2, <2>3, HoldFollows, Zenon
<1>8. CASE Focus \/ UNCHANGED vars BY <1>8, IdleFollows DEF Focus, vars
<1>9. ASSUME NEW g \in Generation, Refused(g)
      PROVE  Following(sender', mic') /\ Owned(sender', peers')
  BY <1>9, IdleFollows, DisableFollows DEF Refused
<1>10. ASSUME NEW c \in Connection, Begin(c) \/ Finish(c) \/ Answer(c) \/ Connected(c)
       PROVE  Following(sender', mic') /\ Owned(sender', peers')
  BY <1>10, SenderStepFollows, FinishFollows
<1>. QED
  BY <1>1, <1>2, <1>3, <1>4, <1>5, <1>6, <1>7, <1>8, <1>9, <1>10, CaptureFollows, CapturedFollows, AttachedFollows,
     RetryFollows, RebindFollows, CloseFollows, PrepareFollows, LeaveFollows DEF Next

\* Whatever replacements are under way, fail, are repeated or no longer count, a
\* sender that has nothing left to do and of which no failure is shown carries
\* the capture in force (microphone.ts replaceAll, bind, retryConnection).
THEOREM EveryPeerHears == Spec => []SendersFollow
<1>1. SendersInv => SendersFollow BY DEF SendersInv, Following, Excused, SendersFollow, Tasks
<1>. QED BY <1>1, InitFollows, NextFollows, PTL DEF Spec

=============================================================================
