-------------------------------- MODULE WebCall --------------------------------
(***************************************************************************)
(* Calls in one browser tab: App.jsx keeps the active call and shows one   *)
(* CallOverlay for it.  An overlay asks for the camera, publishes or       *)
(* answers an invitation, exchanges descriptions and candidates over       *)
(* Tinode, and ends by a button, a signal, a failure or a timer.  Its      *)
(* asynchronous steps go on when it has ended, and when another overlay    *)
(* has taken its place.                                                    *)
(*                                                                         *)
(* Left out: looks, sound, the choice of a speaker, the content of         *)
(* descriptions and candidates, several topics, a second tab.              *)
(***************************************************************************)
EXTENDS Naturals, Sequences, FiniteSets

CONSTANTS MaxCalls,    \* bound: calls started in one behaviour
          MaxFaults    \* bound: refused or lost steps in one behaviour

VARIABLES overlay,   \* overlay[i]: the i-th CallOverlay of the tab
          active,    \* activeCallRef: the overlay that is shown, or 0
          dialing,   \* clicks on "call" that still prepare the topic
          inbox,     \* packets on their way from Tinode to this tab
          outbox,    \* packets on their way from Tinode to the other end
          lastSeq,   \* sequence number of the topic's last invitation
          dialed,    \* calls started so far, at both ends
          faults     \* faults so far, at both ends

vars == <<overlay, active, dialing, inbox, outbox, lastSeq, dialed, faults>>

-----------------------------------------------------------------------------

Overlays == 1..MaxCalls

Events == {"invite", "confirm", "ringing", "accept", "offer", "answer",
           "candidate", "hang-up"}

\* of: the connection that a description describes, or the overlay that a
\* confirmation is for.
Packet == [event : Events, seq : 1..MaxCalls, of : 0..MaxCalls]

Signal(event, seq, of) == [event |-> event, seq |-> seq, of |-> of]

\* Awaited calls of an overlay.
Stages == {"startMedia", "publish", "acceptMedia", "offerMedia", "offer",
           "answerMedia", "setOffer", "answer", "setAnswer"}

\* Those of getLocalMedia.
MediaStages == {"startMedia", "acceptMedia", "offerMedia", "answerMedia"}

\* stream: localStreamRef.  stray: a running stream that it no longer names.
\* twice: the overlay asked for the camera while it had it or was asking.
Overlay == [dir : {"none", "incoming", "outgoing"}, seq : 0..MaxCalls,
            view : {"no", "loading", "mounted", "gone"}, ending : BOOLEAN,
            phase : {"incoming", "setup"},
            stream : BOOLEAN, twice : BOOLEAN, stray : BOOLEAN,
            pc : {"none", "open", "closed"}, ice : {"new", "connected", "disconnected"},
            local : BOOLEAN, remote : 0..MaxCalls,
            queue : 0..MaxCalls, trickled : BOOLEAN,
            offered : BOOLEAN, answered : BOOLEAN, answerSet : BOOLEAN,
            setup : BOOLEAN, lost : BOOLEAN, doing : SUBSET Stages]

NoOverlay == [dir |-> "none", seq |-> 0, view |-> "no", ending |-> FALSE,
              phase |-> "setup", stream |-> FALSE, twice |-> FALSE,
              stray |-> FALSE, pc |-> "none", ice |-> "new", local |-> FALSE,
              remote |-> 0, queue |-> 0, trickled |-> FALSE,
              offered |-> FALSE, answered |-> FALSE, answerSet |-> FALSE,
              setup |-> FALSE, lost |-> FALSE, doing |-> {}]

TypeOK ==
    /\ overlay \in [Overlays -> Overlay]
    /\ active \in 0..MaxCalls
    /\ dialing \in 0..MaxCalls
    /\ inbox \in Seq(Packet) /\ outbox \in Seq(Packet)
    /\ lastSeq \in 0..MaxCalls /\ dialed \in 0..MaxCalls
    /\ faults \in 0..MaxFaults

Init ==
    /\ overlay = [i \in Overlays |-> NoOverlay]
    /\ active = 0 /\ dialing = 0

-----------------------------------------------------------------------------
(* The tab as a value: overlays, the active one, and what it sends. *)

Tab == [all |-> overlay, act |-> active, out |-> <<>>]

Becomes(t) ==
    /\ overlay' = t.all /\ active' = t.act /\ outbox' = outbox \o t.out

Put(t, i, o) == [t EXCEPT !.all[i] = o]

Say(t, event, seq, of) == [t EXCEPT !.out = Append(@, Signal(event, seq, of))]

HangUpIf(t, yes, seq) == IF yes /\ seq # 0 THEN Say(t, "hang-up", seq, 0) ELSE t

\* cleanupMedia: timers, connection and stream of this overlay.  What only
\* its event handlers read is forgotten, since they are detached.
Cleaned(o) == [NoOverlay EXCEPT
               !.dir = o.dir, !.seq = o.seq, !.view = o.view,
               !.ending = o.ending, !.doing = o.doing,
               !.twice = o.twice, !.stray = o.stray,
               !.pc = IF o.pc = "none" THEN "none" ELSE "closed"]

\* clearActiveCall: the shown overlay unmounts.  If it was not ending it hangs
\* up.
Cleared(t) ==
    LET j == t.act IN
    IF j = 0 THEN t
    ELSE LET o == t.all[j] IN
         [Put(HangUpIf(t, o.view = "mounted" /\ ~o.ending, o.seq), j,
              [Cleaned(o) EXCEPT !.view = "gone"])
          EXCEPT !.act = 0]

\* closeCall: at most once per overlay; it clears whatever call is active.
Closed(t, i, notify) ==
    LET o == t.all[i] IN
    IF o.ending THEN t
    ELSE Cleared(Put(HangUpIf(t, notify, o.seq), i,
                     [Cleaned(o) EXCEPT !.ending = TRUE]))

Failed(t, i) == Closed(t, i, TRUE)

Alive(o) == o.view = "mounted" /\ ~o.ending

Did(o, stage) == [o EXCEPT !.doing = @ \ {stage}]

Begun(o, stage) == [o EXCEPT !.doing = @ \cup {stage}]

\* getLocalMedia, which asks if there is no stream yet.
Asked(o, stage) ==
    [Begun(o, stage) EXCEPT
     !.twice = @ \/ o.stream \/ o.doing \cap MediaStages # {}]

WithPeer(o) == [o EXCEPT !.pc = IF @ = "none" THEN "open" ELSE @]

Calm == UNCHANGED <<dialing, inbox, lastSeq, dialed, faults>>

MayFault == faults < MaxFaults

-----------------------------------------------------------------------------
(* Starting and answering *)

FreeOverlay == {i \in Overlays : overlay[i].dir = "none"}

NewOverlay(t, dir, seq) ==
    LET i == CHOOSE i \in FreeOverlay : \A j \in FreeOverlay : i <= j IN
    [Put(t, i, [NoOverlay EXCEPT
                !.dir = dir, !.seq = seq, !.view = "loading",
                !.phase = IF dir = "incoming" THEN "incoming" ELSE "setup"])
     EXCEPT !.act = i]

\* The button is there while no call is active; the call starts after awaits.
Dial ==
    /\ active = 0 /\ dialed < MaxCalls
    /\ dialing' = dialing + 1 /\ dialed' = dialed + 1
    /\ UNCHANGED <<overlay, active, inbox, outbox, lastSeq, faults>>

\* It replaces whatever call has become active meanwhile.
Dialed ==
    /\ dialing > 0 /\ dialing' = dialing - 1
    /\ \/ Becomes(NewOverlay(Cleared(Tab), "outgoing", 0)) /\ UNCHANGED faults
       \/ /\ MayFault /\ faults' = faults + 1
          /\ UNCHANGED <<overlay, active, outbox>>
    /\ UNCHANGED <<inbox, lastSeq, dialed>>

\* The component's code has loaded.
Mount(i) ==
    LET o == [overlay[i] EXCEPT !.view = "mounted", !.setup = TRUE]
        out == Put(Tab, i, Asked(o, "startMedia"))
        in  == Put(Tab, i, o)
    IN
    /\ overlay[i].view = "loading"
    /\ \/ o.dir = "outgoing" /\ Becomes(out) /\ UNCHANGED faults
       \/ /\ o.dir = "incoming"
          /\ \/ Becomes(Say(in, "ringing", o.seq, 0)) /\ UNCHANGED faults
             \/ MayFault /\ faults' = faults + 1 /\ Becomes(Failed(in, i))
    /\ UNCHANGED <<dialing, inbox, lastSeq, dialed>>

Accept(i) ==
    LET o == overlay[i] IN
    /\ Alive(o) /\ o.phase = "incoming"
    /\ Becomes(Put(Tab, i, Asked([o EXCEPT !.phase = "setup"], "acceptMedia")))
    /\ Calm

HangUp(i) == Alive(overlay[i]) /\ Becomes(Closed(Tab, i, TRUE)) /\ Calm

\* Escape clears the active call without closing it.
Escape == active # 0 /\ Becomes(Cleared(Tab)) /\ Calm

-----------------------------------------------------------------------------
(* Awaited calls that come back.  Most of them may fail, which ends the    *)
(* call unless it is ending.                                               *)

\* Mutated form: a stream that comes too late is kept
WithStreamAnyway(o) == [o EXCEPT !.stream = TRUE]

\* A stream that comes when the overlay is gone or ending is stopped.  Whether
\* there is one already was tested before the await only.
WithStream(o) ==
    IF Alive(o) THEN [o EXCEPT !.stream = TRUE, !.stray = @ \/ o.stream] ELSE o

\* What follows the camera.
AfterMedia(o, stage) ==
    CASE stage = "startMedia"  -> Begun(o, "publish")
      [] stage = "offerMedia"  -> Begun(WithPeer(o), "offer")
      [] stage = "answerMedia" -> Begun(WithPeer(o), "setOffer")
      [] OTHER                 -> o

MediaOpens(i, stage) ==
    LET o == WithStream(Did(overlay[i], stage))
        accepted == Put(Tab, i, AfterMedia(o, stage))
    IN
    /\ stage \in overlay[i].doing \cap MediaStages
    /\ \/ ~Alive(o) /\ Becomes(Closed(Put(Tab, i, o), i, stage # "startMedia"))
                    /\ UNCHANGED faults
       \/ Alive(o) /\ stage # "acceptMedia" /\ Becomes(accepted)
                   /\ UNCHANGED faults
       \/ /\ Alive(o) /\ stage = "acceptMedia"
          /\ \/ Becomes(Say(accepted, "accept", o.seq, 0)) /\ UNCHANGED faults
             \/ MayFault /\ faults' = faults + 1 /\ Becomes(Failed(accepted, i))
    /\ UNCHANGED <<dialing, inbox, lastSeq, dialed>>

\* Permission is refused, or there is no camera.
MediaFails(i, stage) ==
    /\ stage \in overlay[i].doing \cap MediaStages
    /\ MayFault /\ faults' = faults + 1
    /\ Becomes(Closed(Put(Tab, i, Did(overlay[i], stage)), i,
                      stage # "startMedia"))
    /\ UNCHANGED <<dialing, inbox, lastSeq, dialed>>

\* Tinode stores the invitation; the confirmation may get lost.
Publish(i) ==
    LET t == Put(Tab, i, Did(overlay[i], "publish"))
        invited == Say(t, "invite", lastSeq + 1, 0)
    IN
    /\ "publish" \in overlay[i].doing
    /\ \/ /\ Becomes(invited) /\ lastSeq' = lastSeq + 1
          /\ inbox' = Append(inbox, Signal("confirm", lastSeq + 1, i))
          /\ UNCHANGED faults
       \/ /\ MayFault /\ faults' = faults + 1 /\ UNCHANGED inbox
          /\ \/ Becomes(Closed(t, i, FALSE)) /\ UNCHANGED lastSeq
             \/ Becomes(Closed(invited, i, FALSE)) /\ lastSeq' = lastSeq + 1
    /\ UNCHANGED <<dialing, dialed>>

\* createOffer or createAnswer, then setLocalDescription and the signal.  A
\* closed connection refuses.
Describe(i, stage) ==
    LET o == Did(overlay[i], stage)
        t == Put(Tab, i, [o EXCEPT !.local = TRUE])
    IN
    /\ stage \in overlay[i].doing \cap {"offer", "answer"}
    /\ \/ o.pc = "open" /\ Becomes(Say(t, stage, o.seq, i)) /\ UNCHANGED faults
       \/ o.pc = "open" /\ MayFault /\ faults' = faults + 1 /\ Becomes(Failed(t, i))
       \/ o.pc # "open" /\ Becomes(Failed(Put(Tab, i, o), i)) /\ UNCHANGED faults
    /\ UNCHANGED <<dialing, inbox, lastSeq, dialed>>

\* drainRemoteCandidates adds what has been queued.
Drained(o) == [o EXCEPT !.queue = 0]

\* Mutated form: the caller does not drain the queue
RemoteSetUndrained(o, stage) ==
    IF stage = "setOffer" THEN Begun(Drained(Did(o, stage)), "answer")
                          ELSE Did(o, stage)

RemoteSet(o, stage) ==
    IF stage = "setOffer" THEN Begun(Drained(Did(o, stage)), "answer")
                          ELSE Drained(Did(o, stage))

\* setRemoteDescription has resolved.
SetRemote(i, stage) ==
    LET o == overlay[i] IN
    /\ stage \in o.doing \cap {"setOffer", "setAnswer"}
    /\ Becomes(IF o.pc = "open" THEN Put(Tab, i, RemoteSet(o, stage))
               ELSE Failed(Put(Tab, i, Did(o, stage)), i))
    /\ Calm

\* onicecandidate
Trickle(i) ==
    LET o == overlay[i] IN
    /\ o.pc = "open" /\ o.local /\ ~o.trickled /\ o.seq # 0
    /\ Becomes(Say(Put(Tab, i, [o EXCEPT !.trickled = TRUE]),
                   "candidate", o.seq, i))
    /\ Calm

-----------------------------------------------------------------------------
(* Packets, in the order Tinode relays them *)

\* The first signal of the topic tells an overlay its number.
Seen(o, p) == [o EXCEPT !.seq = IF @ = 0 THEN p.seq ELSE @]

\* handleOffer, handleAnswer: a description is taken once.  While it is being
\* set, remote is not yet there for candidates.
TakeOffer(o, p) ==
    IF o.dir # "incoming" \/ o.answered THEN o
    ELSE [(IF o.stream THEN Begun(WithPeer(o), "setOffer")
                       ELSE Asked(o, "answerMedia"))
          EXCEPT !.answered = TRUE, !.remote = p.of]

TakeAnswer(o, p) ==
    IF o.dir # "outgoing" \/ o.pc # "open" \/ o.answerSet THEN o
    ELSE [Begun(o, "setAnswer") EXCEPT !.answerSet = TRUE, !.remote = p.of]

TakeAccept(o) ==
    IF o.dir # "outgoing" \/ o.offered THEN o
    ELSE [(IF o.stream THEN Begun(WithPeer(o), "offer") ELSE Asked(o, "offerMedia"))
          EXCEPT !.offered = TRUE]

\* pc.remoteDescription is set.
Described(o) ==
    /\ o.pc = "open" /\ o.remote # 0
    /\ o.doing \cap {"answerMedia", "setOffer", "setAnswer"} = {}

TakeCandidate(o) == IF Described(o) THEN o ELSE [o EXCEPT !.queue = @ + 1]

Heard(o, p) ==
    CASE p.event = "accept"    -> TakeAccept(o)
      [] p.event = "offer"     -> TakeOffer(o, p)
      [] p.event = "answer"    -> TakeAnswer(o, p)
      [] p.event = "candidate" -> TakeCandidate(o)
      [] OTHER                 -> o

\* A signal goes to the overlay that is mounted, if its number fits.
Receive(p) ==
    LET i == active  o == Seen(overlay[i], p)  t == Put(Tab, i, o) IN
    IF i = 0 \/ overlay[i].view # "mounted" \/ o.seq # p.seq THEN Becomes(Tab)
    ELSE IF p.event = "hang-up" THEN Becomes(Closed(t, i, FALSE))
    ELSE Becomes(Put(t, i, Heard(o, p)))

\* An invitation is answered with a hang-up while a call is active.
ReceiveInvite(p) ==
    \/ active # 0 /\ Becomes(Say(Tab, "hang-up", p.seq, 0)) /\ UNCHANGED faults
    \/ active = 0 /\ Becomes(NewOverlay(Tab, "incoming", p.seq)) /\ UNCHANGED faults
    \/ /\ active = 0 /\ MayFault /\ faults' = faults + 1
       /\ Becomes(Say(Tab, "hang-up", p.seq, 0))

Deliver ==
    /\ inbox # <<>> /\ inbox' = Tail(inbox)
    /\ LET p == Head(inbox) IN
       \/ p.event = "invite" /\ ReceiveInvite(p)
       \/ /\ p.event = "confirm"
          /\ Becomes(Put(Tab, p.of, [overlay[p.of] EXCEPT !.seq = p.seq]))
          /\ UNCHANGED faults
       \/ p.event \notin {"invite", "confirm"} /\ Receive(p) /\ UNCHANGED faults
    /\ UNCHANGED <<dialing, lastSeq, dialed>>

-----------------------------------------------------------------------------
(* The connection and the timers *)

\* markConnected
IceConnected(i) ==
    LET o == overlay[i] IN
    /\ o.pc = "open" /\ o.ice # "connected"
    /\ Becomes(Put(Tab, i, [o EXCEPT !.ice = "connected", !.setup = FALSE,
                            !.lost = FALSE]))
    /\ Calm

\* Mutated form: a lost connection is shown but nothing ends the call
LostUntimed(o) == [o EXCEPT !.ice = "disconnected"]

Lost(o) == [o EXCEPT !.ice = "disconnected", !.lost = TRUE]

IceDisconnected(i) ==
    LET o == overlay[i] IN
    /\ o.pc = "open" /\ o.ice = "connected"
    /\ Becomes(Put(Tab, i, Lost(o)))
    /\ Calm

IceFailed(i) ==
    LET o == overlay[i] IN
    /\ o.pc = "open" /\ o.local /\ Described(o) /\ o.ice # "connected"
    /\ Becomes(Closed(Tab, i, TRUE))
    /\ Calm

SetupTimeout(i) == overlay[i].setup /\ Becomes(Closed(Tab, i, TRUE)) /\ Calm

DisconnectTimeout(i) == overlay[i].lost /\ Becomes(Closed(Tab, i, TRUE)) /\ Calm

-----------------------------------------------------------------------------

User == Dial \/ Escape \/ \E i \in Overlays : Accept(i) \/ HangUp(i)

Work ==
    \/ Dialed
    \/ \E i \in Overlays :
          \/ Publish(i) \/ Trickle(i)
          \/ \E stage \in overlay[i].doing :
                \/ MediaOpens(i, stage) \/ MediaFails(i, stage)
                \/ Describe(i, stage) \/ SetRemote(i, stage)

Timeout == \E i \in Overlays : SetupTimeout(i) \/ DisconnectTimeout(i)

\* The camera and the microphone belong to the call that is shown: an overlay
\* that was closed, replaced or left while it asked for them holds neither.
\* Only if it asked for them a second time before it had them, a stream may be
\* left that nobody stops.
CameraBelongsToCall ==
    \A i \in Overlays :
       /\ overlay[i].stream => Alive(overlay[i]) /\ i = active
       /\ overlay[i].stray => overlay[i].twice

\* No candidate is left in the queue once the remote description is there, in
\* whatever order candidates and descriptions come.
NoCandidateLeft == \A i \in Overlays : Described(overlay[i]) => overlay[i].queue = 0
=============================================================================
