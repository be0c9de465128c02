------------------------------- MODULE Voice --------------------------------
(* One member's microphone (client microphone.ts) and the senders it feeds   *)
(* (voice.ts): an explicit capture that takes as long as the browser's       *)
(* question stays open, replacements of the senders' tracks that take turns  *)
(* on each sender, and peers that connect, reconnect and leave meanwhile.    *)
(*                                                                           *)
(* A capture is the generation that asked for it.  What is left out: the     *)
(* choice and the names of devices, the playback of the others' voices, the  *)
(* wording of errors, and the limit of four peers, which a room of five      *)
(* members does not reach.                                                   *)
EXTENDS Integers, Sequences, FiniteSets

CONSTANTS
  Peer,          \* the other members
  MaxGeneration, \* bound: captures asked for and given up
  MaxConnection, \* bound: peer connections over the whole run
  MaxQueue       \* bound: replacements a sender has yet to make

VARIABLES
  mic,    \* the microphone's state
  asked,  \* captures the browser has not answered
  live,   \* captures that run
  sender, \* for each connection: its peer, its track, and what it has yet to do
  peers,  \* the connection of each peer, 0 when there is none
  page    \* whether the page has the focus, and a push-to-talk control is held

vars == <<mic, asked, live, sender, peers, page>>

Connection == 1..MaxConnection
Generation == 0..MaxGeneration

NoSender == [status |-> "none", answers |-> FALSE, connected |-> FALSE, bound |-> FALSE, track |-> 0,
             tasks |-> <<>>, running |-> FALSE, error |-> FALSE]
Init ==
  /\ mic = [phase |-> "off", stage |-> "none", generation |-> 0, stream |-> 0, enabled |-> FALSE,
            muted |-> TRUE, push |-> FALSE, held |-> FALSE, failure |-> FALSE, failing |-> {}]
  /\ asked = {} /\ live = {}
  /\ sender = [c \in Connection |-> NoSender]
  /\ peers = [p \in Peer |-> 0]
  /\ page = [focused |-> TRUE, pressed |-> FALSE]

-----------------------------------------------------------------------------
(* The microphone (microphone.ts).                                         *)

Bound(s) == {c \in Connection : s[c].bound}
Transmitting(m) == m.phase = "ready" /\ ~m.muted /\ (~m.push \/ m.held)
\* publish: the tracks of the stream are enabled exactly while it transmits.
Publish(m) == [m EXCEPT !.enabled = m.stream # 0 /\ Transmitting(m)]
StopTracks(m) == [m EXCEPT !.stream = 0, !.enabled = FALSE, !.held = FALSE]

Queue(s, c, track, generation, use) ==
  [s EXCEPT ![c].tasks = Append(@, [track |-> track, generation |-> generation, use |-> use])]
\* replaceAll: one more replacement for each sender, in its own order.
\* Mutation: senders that are busy are left out.
ReplaceIdle(s, track, generation, use) ==
  [c \in Connection |-> IF s[c].bound /\ s[c].tasks = <<>> THEN Queue(s, c, track, generation, use)[c] ELSE s[c]]
ReplaceAll(s, track, generation, use) ==
  [c \in Connection |-> IF s[c].bound THEN Queue(s, c, track, generation, use)[c] ELSE s[c]]
\* bind: the sender takes the track of the moment.
Bind(s, c) == Queue([s EXCEPT ![c].bound = TRUE], c, mic.stream, mic.generation, "bind")
\* unbind: no other replacement counts, and the last one takes the track away.
Unbind(s, c) ==
  IF s[c].bound THEN Queue([s EXCEPT ![c].bound = FALSE], c, 0, 0, "detach") ELSE s

\* A new generation: what is captured stops, and what is asked for is given up.
Renewed(m) == [StopTracks(m) EXCEPT !.generation = @ + 1, !.failure = FALSE, !.failing = {}]

\* disable.
Disabled(m, phase) == Publish([Renewed(m) EXCEPT !.stage = "none", !.phase = phase, !.muted = TRUE])
Disable(phase) ==
  /\ mic' = Disabled(mic, phase)
  /\ live' = live \ {mic.stream}
  /\ sender' = ReplaceAll(sender, 0, mic.generation + 1, "all")

\* Room in the bounds for another capture, and for a task on every sender.
Room == \A c \in Connection : Len(sender[c].tasks) < MaxQueue
MayRenew == mic.generation < MaxGeneration /\ Room

\* enable: a capture begins by taking the tracks away; when no peer is bound it
\* is refused, and what is captured stays.
Request(muted) ==
  /\ MayRenew
  /\ IF Bound(sender) = {}
     THEN mic' = Publish([mic EXCEPT !.phase = "error"]) /\ UNCHANGED <<live, sender>>
     ELSE /\ mic' = Publish([Renewed(mic) EXCEPT !.stage = "clearing", !.phase = "requesting", !.muted = muted])
          /\ live' = live \ {mic.stream}
          /\ sender' = ReplaceAll(sender, 0, mic.generation + 1, "all")
  /\ UNCHANGED <<asked, peers, page>>
\* The member enables its microphone, or changes the device of one that is ready.
Enable == /\ mic.phase \in {"off", "error"} /\ \E p \in Peer : peers[p] # 0 /\ sender[peers[p]].connected
          /\ Request(FALSE)
Device == mic.phase = "ready" /\ Request(TRUE)

Settled(generation, use) ==
  \A c \in Connection : \A n \in DOMAIN sender[c].tasks :
    sender[c].tasks[n].generation # generation \/ sender[c].tasks[n].use # use
\* replaceAll has every answer: a sender that failed is shown.
Reported(m) == [m EXCEPT !.failure = @ \/ m.failing \cap Bound(sender) # {}, !.failing = {}]

\* The browser is asked once the senders carry nothing.
Capture ==
  /\ mic.stage = "clearing" /\ Settled(mic.generation, "all")
  /\ mic' = [Reported(mic) EXCEPT !.stage = "capturing"]
  /\ asked' = asked \cup {mic.generation}
  /\ UNCHANGED <<live, sender, peers, page>>

\* Mutation: an answer counts as long as a capture is asked for.
CurrentPhase(g) == mic.phase = "requesting"
Current(g) == g = mic.generation
\* The browser's answer: a capture that was given up meanwhile stops at once.
Captured(g) ==
  /\ g \in asked /\ Room
  /\ asked' = asked \ {g}
  /\ \/ /\ ~Current(g)
        /\ UNCHANGED <<mic, live, sender>>
     \/ /\ Current(g)
        /\ live' = live \cup {g}
        /\ mic' = [mic EXCEPT !.stream = g, !.enabled = FALSE, !.stage = "attaching"]
        /\ sender' = ReplaceAll(sender, g, g, "all")
  /\ UNCHANGED <<peers, page>>

\* Denied, no such device, or no audio in what was captured (unavailable).
Refused(g) ==
  /\ g \in asked /\ MayRenew
  /\ asked' = asked \ {g}
  /\ \/ ~Current(g) /\ UNCHANGED <<mic, live, sender>>
     \/ Current(g) /\ Disable("error")
  /\ UNCHANGED <<peers, page>>

Attached ==
  /\ mic.stage = "attaching" /\ Settled(mic.generation, "all")
  /\ mic' = Publish([Reported(mic) EXCEPT !.stage = "none", !.phase = "ready"])
  /\ UNCHANGED <<asked, live, sender, peers, page>>

\* The device is gone (the track's ended event), or the member turns it off.
Ended == mic.stream # 0 /\ MayRenew /\ Disable("error") /\ UNCHANGED <<asked, peers, page>>
TurnOff == mic.phase \in {"requesting", "ready"} /\ MayRenew /\ Disable("off") /\ UNCHANGED <<asked, peers, page>>

Mute == /\ mic.phase = "ready" /\ mic' = Publish([mic EXCEPT !.held = FALSE, !.muted = ~@])
        /\ UNCHANGED <<asked, live, sender, peers, page>>
Mode == /\ mic' = Publish([mic EXCEPT !.held = FALSE, !.push = ~@])
        /\ UNCHANGED <<asked, live, sender, peers, page>>

\* hold: the momentary control, of the push-to-talk mode.
Hold(m, held) == Publish([m EXCEPT !.held = held])

\* retryConnection: the track is given to every sender again.
Retry ==
  /\ mic.phase = "ready" /\ mic.stream # 0 /\ mic.failure /\ Settled(mic.generation, "retry") /\ Room
  /\ sender' = ReplaceAll(sender, mic.stream, mic.generation, "retry")
  /\ UNCHANGED <<mic, asked, live, peers, page>>

-----------------------------------------------------------------------------
(* A sender makes its replacements one after the other (replace).          *)

Tasks(c) == sender[c].tasks
Counts(c) == \/ Head(Tasks(c)).use = "detach"
             \/ sender[c].bound /\ Head(Tasks(c)).generation = mic.generation
\* It begins, unless the microphone or the peer moved on.
Begin(c) ==
  /\ Tasks(c) # <<>> /\ ~sender[c].running /\ Counts(c)
  /\ sender' = [sender EXCEPT ![c].running = TRUE]
  /\ UNCHANGED <<mic, asked, live, peers, page>>

\* Nothing else of the same replaceAll is left: its outcome is known.
Resolved(c) ==
  \A d \in Connection : \A n \in DOMAIN Tasks(d) :
    Tasks(d)[n].generation = mic.generation /\ Tasks(d)[n].use = Head(Tasks(c)).use => d = c /\ n = 1
\* What the end of a task means to the microphone: a sender that failed and is
\* still bound fails the whole, and a retry that failed nowhere clears it.
Answered(c, failed) ==
  LET task == Head(Tasks(c))
      m == [mic EXCEPT !.failing = IF failed THEN @ \cup {c} ELSE @]
  IN IF task.generation # mic.generation \/ task.use \in {"bind", "detach"} THEN mic
     ELSE CASE task.use = "retry" /\ Resolved(c) -> Reported([m EXCEPT !.failure = FALSE])
            [] task.use = "all" /\ mic.stage = "none" /\ Resolved(c) -> Reported(m)
            [] OTHER -> m
\* The outcome of a binding is shown, for the latest binding of a peer that is
\* still there (VoiceSession.bind).
Bindings(c) == Cardinality({n \in DOMAIN Tasks(c) : Tasks(c)[n].use = "bind"})
Shown(c, failed) ==
  IF Head(Tasks(c)).use = "bind" /\ Bindings(c) = 1 /\ sender[c].status = "open"
  THEN failed ELSE sender[c].error

\* A task that no longer counts is done, one that runs succeeds or fails.
Finish(c) ==
  /\ Tasks(c) # <<>>
  /\ \E failed \in BOOLEAN :
       /\ sender[c].running \/ (~Counts(c) /\ ~failed)
       /\ sender' = [sender EXCEPT ![c].tasks = Tail(@), ![c].running = FALSE,
                       ![c].track = IF sender[c].running /\ ~failed THEN Head(Tasks(c)).track ELSE @,
                       ![c].error = Shown(c, failed)]
       /\ mic' = Answered(c, failed)
  /\ UNCHANGED <<asked, live, peers, page>>

-----------------------------------------------------------------------------
(* The peers (voice.ts).                                                   *)

\* closePeer.
Closed(s, c) ==
  IF c = 0 THEN s
  ELSE Unbind([s EXCEPT ![c].status = "closed", ![c].connected = FALSE, ![c].answers = FALSE, ![c].error = FALSE], c)

\* forPeer.prepare: a new connection replaces the former one of the peer; the
\* one that offers binds its sender at once.
Prepare(p) ==
  /\ Room
  /\ \E c \in Connection, offerer, failed \in BOOLEAN :
       /\ sender[c].status = "none" /\ \A d \in Connection : d < c => sender[d].status # "none"
       /\ LET s == [Closed(sender, peers[p]) EXCEPT ![c].status = "open", ![c].answers = ~offerer]
          IN sender' = IF ~offerer THEN s ELSE IF failed THEN [s EXCEPT ![c].error = TRUE] ELSE Bind(s, c)
       /\ peers' = [peers EXCEPT ![p] = c]
  /\ UNCHANGED <<mic, asked, live, page>>

\* forPeer.answer: the other side's offer, which has to hold audio.
Answer(c) ==
  /\ Room /\ sender[c].status = "open" /\ sender[c].answers
  /\ LET s == [sender EXCEPT ![c].answers = FALSE]
     IN sender' \in {Bind(s, c), [s EXCEPT ![c].error = TRUE]}
  /\ UNCHANGED <<mic, asked, live, peers, page>>
\* retryBinding: every peer that negotiated audio binds its sender again.
Rebind ==
  /\ Room /\ \E p \in Peer : peers[p] # 0 /\ sender[peers[p]].error
  /\ sender' = [c \in Connection |-> IF sender[c].status # "open" THEN sender[c]
                                     ELSE IF sender[c].bound THEN Bind(sender, c)[c]
                                     ELSE [sender[c] EXCEPT !.error = TRUE]]
  /\ UNCHANGED <<mic, asked, live, peers, page>>
Connected(c) ==
  /\ sender[c].status = "open" /\ ~sender[c].connected
  /\ sender' = [sender EXCEPT ![c].connected = TRUE]
  /\ UNCHANGED <<mic, asked, live, peers, page>>
Leave(p) ==
  /\ peers[p] # 0 /\ Room
  /\ sender' = Closed(sender, peers[p]) /\ peers' = [peers EXCEPT ![p] = 0]
  /\ UNCHANGED <<mic, asked, live, page>>

\* close: the room is left; every peer goes and the microphone is turned off.
Close ==
  /\ MayRenew /\ (mic.phase # "off" \/ \E p \in Peer : peers[p] # 0)
  /\ mic' = Disabled(mic, "off") /\ page' = [page EXCEPT !.pressed = FALSE] /\ live' = live \ {mic.stream}
  /\ sender' = [c \in Connection |-> IF \E p \in Peer : peers[p] = c THEN Closed(sender, c)[c] ELSE sender[c]]
  /\ peers' = [p \in Peer |-> 0]
  /\ UNCHANGED asked

-----------------------------------------------------------------------------
(* Push-to-talk (voice.ts): keys, gamepad buttons and the pointer.         *)

\* The pointer speaks at once, a key with the next frame of the page.
Press ==
  /\ page.focused /\ ~page.pressed
  /\ page' = [page EXCEPT !.pressed = TRUE]
  /\ mic' \in {mic, Hold(mic, TRUE)}
  /\ UNCHANGED <<asked, live, sender, peers>>
Release ==
  /\ page.focused /\ page.pressed
  /\ page' = [page EXCEPT !.pressed = FALSE]
  /\ mic' \in {mic, Hold(mic, FALSE)}
  /\ UNCHANGED <<asked, live, sender, peers>>
\* input: every frame holds what is pressed, or releases everything because a
\* text field or a dialog has the focus.
Frame ==
  /\ \E pressed \in {FALSE, page.pressed} :
       /\ page' = [page EXCEPT !.pressed = pressed]
       /\ mic' = Hold(mic, page.focused /\ pressed)
  /\ UNCHANGED <<asked, live, sender, peers>>
\* blur: a page that loses the focus may miss the release, and get no frame.
\* Mutation: the focus is lost without a word to the microphone.
StillHeld == mic
Released == Hold(mic, FALSE)
Blur ==
  /\ page.focused
  /\ page' = [focused |-> FALSE, pressed |-> FALSE]
  /\ mic' = Released
  /\ UNCHANGED <<asked, live, sender, peers>>
Focus ==
  /\ ~page.focused /\ page' = [page EXCEPT !.focused = TRUE]
  /\ UNCHANGED <<mic, asked, live, sender, peers>>

Next ==
  \/ Enable \/ Device \/ Capture \/ Attached \/ Ended \/ TurnOff \/ Mute \/ Mode \/ Retry \/ Rebind \/ Close
  \/ Press \/ Release \/ Frame \/ Blur \/ Focus
  \/ \E g \in Generation : Captured(g) \/ Refused(g)
  \/ \E c \in Connection : Begin(c) \/ Finish(c) \/ Answer(c) \/ Connected(c)
  \/ \E p \in Peer : Prepare(p) \/ Leave(p)

Spec == Init /\ [][Next]_vars

-----------------------------------------------------------------------------
(* Properties.                                                             *)

\* A microphone that is turned off is off: whatever answer of the browser comes
\* late, only the capture in force runs, and none when it is off or asked for.
NoForgottenCapture ==
  live = {mic.stream} \ {0} /\ (mic.phase = "off" \/ mic.stage = "clearing" => live = {})

\* Every peer hears the same: a sender that has nothing left to do, and of
\* which no failure is shown, carries the capture in force, or nothing.
SendersFollow ==
  \A c \in Connection :
    sender[c].bound /\ Tasks(c) = <<>> /\ ~mic.failure /\ c \notin mic.failing /\ ~sender[c].error
    => sender[c].track = mic.stream

\* In push-to-talk nobody is heard who does not hold a control of a page that
\* has the focus, however the mode, the capture and the focus changed.
PushToTalkReleased == mic.enabled /\ mic.push => page.focused /\ mic.held /\ ~mic.muted

=============================================================================
