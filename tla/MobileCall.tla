------------------------------- MODULE MobileCall -------------------------------
(***************************************************************************)
(* Calls on a phone: callStore.ts.  One call at a time in the store; its   *)
(* connection, its camera, its timers and its queue are variables of the   *)
(* module, shared by every call.  Asynchronous steps hold the call they    *)
(* were started for, but act on the store and the module as they find      *)
(* them, also when that call has been cleared.                             *)
(*                                                                         *)
(* Left out: as in WebCall, and the keys that drop repeated candidates,    *)
(* since Tinode relays each packet once.                                   *)
(***************************************************************************)
EXTENDS Naturals, Sequences, FiniteSets

CONSTANTS MaxCalls, MaxFaults   \* bounds, as in WebCall

VARIABLES call,      \* the call in the store
          device,    \* module variables: connection, stream, flags, timers
          conn,      \* conn[k]: the connection that a step of call k created
          tasks,     \* asynchronous steps in progress
          made,      \* calls the store has had
          inbox, outbox, lastSeq, dialed, faults   \* as in WebCall

vars == <<call, device, conn, tasks, made, inbox, outbox, lastSeq, dialed, faults>>

-----------------------------------------------------------------------------

Calls == 1..MaxCalls

Call == [id : Calls, dir : {"incoming", "outgoing"}, seq : 0..MaxCalls,
         phase : {"incoming", "setup"}]

NoCall == [id |-> 0, dir |-> "none", seq |-> 0, phase |-> "setup"]

Device == [peer : 0..MaxCalls, stream : BOOLEAN, queue : 0..MaxCalls,
           offered : BOOLEAN, answered : BOOLEAN, answerSet : BOOLEAN,
           setup : BOOLEAN, lost : BOOLEAN]

Idle == [peer |-> 0, stream |-> FALSE, queue |-> 0, offered |-> FALSE,
         answered |-> FALSE, answerSet |-> FALSE, setup |-> FALSE,
         lost |-> FALSE]

\* A closed connection reports once that it is closed: nothing detaches its
\* handlers.
Connection == [state : {"none", "open", "closing", "closed"},
               ice : {"new", "connected", "disconnected"}, local : BOOLEAN,
               remote : 0..MaxCalls, trickled : BOOLEAN]

NoConnection == [state |-> "none", ice |-> "new", local |-> FALSE,
                 remote |-> 0, trickled |-> FALSE]

Stages == {"startMedia", "publish", "acceptMedia", "offerMedia", "offer",
           "answerMedia", "setOffer", "answer", "setAnswer"}

\* id, seq: the captured call.  on: the captured connection.  of: the
\* description that came with the signal.
Task == [stage : Stages, id : Calls, seq : 0..MaxCalls, on : 0..MaxCalls,
         of : 0..MaxCalls]

TypeOK ==
    /\ call \in Call \cup {NoCall}
    /\ device \in Device
    /\ conn \in [Calls -> Connection]
    /\ tasks \subseteq Task
    /\ made \in 0..MaxCalls

Init ==
    /\ call = NoCall /\ device = Idle
    /\ conn = [k \in Calls |-> NoConnection]
    /\ tasks = {} /\ made = 0

Signal(event, seq, of) == [event |-> event, seq |-> seq, of |-> of]

-----------------------------------------------------------------------------
(* The store as a value *)

Store == [call |-> call, dev |-> device, conn |-> conn, tasks |-> tasks,
          out |-> <<>>]

Becomes(t) ==
    /\ call' = t.call /\ device' = t.dev /\ conn' = t.conn /\ tasks' = t.tasks
    /\ outbox' = outbox \o t.out

Say(t, event, seq, of) == [t EXCEPT !.out = Append(@, Signal(event, seq, of))]

\* clearCall resets the module for whoever comes next.
Cleared(t) ==
    [t EXCEPT !.call = NoCall, !.dev = Idle,
              !.conn = IF t.dev.peer = 0 THEN @
                       ELSE [@ EXCEPT ![t.dev.peer] =
                             [NoConnection EXCEPT !.state = "closing"]]]

\* closeCall, which is failCall too: it ends the call that is there.
Closed(t, notify) ==
    Cleared(IF notify /\ t.call.seq # 0 THEN Say(t, "hang-up", t.call.seq, 0)
            ELSE t)

Without(t, task) == [t EXCEPT !.tasks = @ \ {task}]

With(t, task) == [t EXCEPT !.tasks = @ \cup {task}]

NewTask(stage, c, of) ==
    [stage |-> stage, id |-> c.id, seq |-> c.seq, on |-> 0, of |-> of]

\* createPeer: the connection that is there, or a new one.
Peered(t, k) ==
    IF t.dev.peer # 0 THEN t
    ELSE [t EXCEPT !.dev.peer = k, !.conn[k] = [NoConnection EXCEPT !.state = "open"]]

OnPeer(t, task, stage) ==
    LET p == Peered(t, task.id) IN
    With(p, [task EXCEPT !.stage = stage, !.on = p.dev.peer])

Calm == UNCHANGED <<made, inbox, lastSeq, dialed, faults>>

MayFault == faults < MaxFaults

-----------------------------------------------------------------------------
(* Starting and answering *)

\* Mutated form: only calls that go out get a time limit
WithCallUntimed(t, c) == [t EXCEPT !.call = c, !.dev.setup = (c.dir = "outgoing")]

\* startTimeout follows in both directions.
WithCall(t, c) == [t EXCEPT !.call = c, !.dev.setup = TRUE]

NextCall(dir, seq) ==
    [id |-> made + 1, dir |-> dir, seq |-> seq,
     phase |-> IF dir = "incoming" THEN "incoming" ELSE "setup"]

\* What getLocalMedia leads to when a stream is there already.
AfterMedia(t, task) ==
    CASE task.stage = "startMedia"  -> With(t, [task EXCEPT !.stage = "publish"])
      [] task.stage = "offerMedia"  -> OnPeer(t, task, "offer")
      [] task.stage = "answerMedia" -> OnPeer(t, task, "setOffer")
      [] task.stage = "acceptMedia" -> t

AskMedia(t, task) == IF t.dev.stream /\ task.stage # "acceptMedia"
                     THEN AfterMedia(t, task) ELSE With(t, task)

StartCall ==
    /\ call = NoCall /\ dialed < MaxCalls
    /\ LET c == NextCall("outgoing", 0) IN
       Becomes(AskMedia(WithCall(Store, c), NewTask("startMedia", c, 0)))
    /\ dialed' = dialed + 1 /\ made' = made + 1
    /\ UNCHANGED <<inbox, lastSeq, faults>>

\* A second invitation is refused; an unavailable phone refuses every one.
HandleInvite(p) ==
    \/ /\ call # NoCall
       /\ Becomes(Say(Store, "hang-up", p.seq, 0)) /\ UNCHANGED <<made, faults>>
    \/ /\ call = NoCall /\ MayFault /\ faults' = faults + 1
       /\ Becomes(Say(Store, "hang-up", p.seq, 0)) /\ UNCHANGED made
    \/ /\ call = NoCall /\ made' = made + 1
       /\ LET t == WithCall(Store, NextCall("incoming", p.seq)) IN
          \/ Becomes(Say(t, "ringing", p.seq, 0)) /\ UNCHANGED faults
          \/ MayFault /\ faults' = faults + 1 /\ Becomes(Closed(t, TRUE))

Accept ==
    /\ call.dir = "incoming" /\ call.phase = "incoming"
    /\ Becomes(AskMedia([Store EXCEPT !.call.phase = "setup"],
                        NewTask("acceptMedia", call, 0)))
    /\ Calm

\* Hanging up, rejecting, and signing out.
HangUp == call # NoCall /\ Becomes(Closed(Store, TRUE)) /\ Calm

-----------------------------------------------------------------------------
(* Asynchronous steps that come back *)

\* The stream is kept whether or not the call is still there.
MediaOpens(task) ==
    LET t == [Without(Store, task) EXCEPT !.dev.stream = TRUE] IN
    /\ task.stage \in {"startMedia", "acceptMedia", "offerMedia", "answerMedia"}
    /\ \/ task.stage # "acceptMedia" /\ Becomes(AfterMedia(t, task))
          /\ UNCHANGED faults
       \/ /\ task.stage = "acceptMedia"
          /\ \/ /\ Becomes(Say([t EXCEPT !.call.phase = "setup"],
                               "accept", task.seq, 0))
                /\ UNCHANGED faults
             \/ MayFault /\ faults' = faults + 1 /\ Becomes(Closed(t, TRUE))
    /\ UNCHANGED <<made, inbox, lastSeq, dialed>>

MediaFails(task) ==
    /\ task.stage \in {"startMedia", "acceptMedia", "offerMedia", "answerMedia"}
    /\ MayFault /\ faults' = faults + 1
    /\ Becomes(Closed(Without(Store, task), task.stage # "startMedia"))
    /\ UNCHANGED <<made, inbox, lastSeq, dialed>>

Publish(task) ==
    LET t == Without(Store, task)  invited == Say(t, "invite", lastSeq + 1, 0) IN
    /\ task.stage = "publish"
    /\ \/ /\ Becomes(invited) /\ lastSeq' = lastSeq + 1
          /\ inbox' = Append(inbox, Signal("confirm", lastSeq + 1, task.id))
          /\ UNCHANGED faults
       \/ /\ MayFault /\ faults' = faults + 1 /\ UNCHANGED inbox
          /\ \/ Becomes(Closed(t, FALSE)) /\ UNCHANGED lastSeq
             \/ Becomes(Closed(invited, FALSE)) /\ lastSeq' = lastSeq + 1
    /\ UNCHANGED <<made, dialed>>

Describe(task) ==
    LET t == Without(Store, task)
        described == [t EXCEPT !.conn[task.on].local = TRUE]
        open == conn[task.on].state = "open"
        sent == open /\ task.seq # 0   \* a call without a number sends nothing
    IN
    /\ task.stage \in {"offer", "answer"}
    /\ \/ /\ sent /\ UNCHANGED faults
          /\ Becomes(Say(described, task.stage, task.seq, task.on))
       \/ sent /\ MayFault /\ faults' = faults + 1
          /\ Becomes(Closed(described, TRUE))
       \/ ~sent /\ Becomes(Closed(IF open THEN described ELSE t, TRUE))
          /\ UNCHANGED faults
    /\ UNCHANGED <<made, inbox, lastSeq, dialed>>

\* drainCandidates looks at the connection that is there now.
Drained(t) ==
    IF t.dev.peer # 0 /\ t.conn[t.dev.peer].remote # 0
    THEN [t EXCEPT !.dev.queue = 0] ELSE t

SetRemote(task) ==
    LET t == [Without(Store, task) EXCEPT !.conn[task.on].remote = task.of] IN
    /\ task.stage \in {"setOffer", "setAnswer"}
    /\ Becomes(IF conn[task.on].state # "open" THEN Closed(Without(Store, task), TRUE)
               ELSE IF task.stage = "setOffer"
                    THEN With(Drained(t), [task EXCEPT !.stage = "answer"])
                    ELSE Drained([t EXCEPT !.dev.answerSet = TRUE]))
    /\ Calm

\* onicecandidate sends for the call that is there.
Trickle(k) ==
    LET t == [Store EXCEPT !.conn[k].trickled = TRUE] IN
    /\ conn[k].state = "open" /\ conn[k].local /\ ~conn[k].trickled
    /\ \/ call.seq = 0 /\ Becomes(t) /\ UNCHANGED faults
       \/ /\ call.seq # 0
          /\ \/ Becomes(Say(t, "candidate", call.seq, k)) /\ UNCHANGED faults
             \/ MayFault /\ faults' = faults + 1 /\ Becomes(Closed(t, TRUE))
    /\ UNCHANGED <<made, inbox, lastSeq, dialed>>

-----------------------------------------------------------------------------
(* Packets, in the order Tinode relays them *)

TakeAccept(t) ==
    IF t.call.dir # "outgoing" \/ t.dev.offered THEN t
    ELSE AskMedia([t EXCEPT !.dev.offered = TRUE, !.call.phase = "setup"],
                  NewTask("offerMedia", t.call, 0))

TakeOffer(t, p) ==
    IF t.call.dir # "incoming" \/ t.dev.answered THEN t
    ELSE AskMedia([t EXCEPT !.dev.answered = TRUE, !.call.phase = "setup"],
                  NewTask("answerMedia", t.call, p.of))

TakeAnswer(t, p) ==
    IF t.dev.answerSet \/ t.dev.peer = 0 THEN t
    ELSE With(t, [NewTask("setAnswer", t.call, p.of) EXCEPT !.on = t.dev.peer])

TakeCandidate(t) ==
    IF t.dev.peer # 0 /\ t.conn[t.dev.peer].remote # 0 THEN t
    ELSE [t EXCEPT !.dev.queue = @ + 1]

\* handleSignal: a call that has no number yet hears every signal of its topic.
HandleSignal(p) ==
    IF call = NoCall \/ (call.seq # 0 /\ call.seq # p.seq) THEN Becomes(Store)
    ELSE Becomes(CASE p.event = "accept"    -> TakeAccept(Store)
                   [] p.event = "offer"     -> TakeOffer(Store, p)
                   [] p.event = "answer"    -> TakeAnswer(Store, p)
                   [] p.event = "candidate" -> TakeCandidate(Store)
                   [] p.event = "hang-up"   -> Closed(Store, FALSE)
                   [] OTHER                 -> Store)

\* Mutated form: the number goes to the store although no call is there
NumberedAlways(c, seq) == [c EXCEPT !.seq = seq]

\* startCall gives the number to the call that is there when it arrives.
Numbered(c, seq) == IF c = NoCall THEN c ELSE [c EXCEPT !.seq = seq]

Deliver ==
    /\ inbox # <<>> /\ inbox' = Tail(inbox)
    /\ LET p == Head(inbox) IN
       \/ p.event = "invite" /\ HandleInvite(p)
       \/ /\ p.event = "confirm"
          /\ Becomes([Store EXCEPT !.call = Numbered(@, p.seq)])
          /\ UNCHANGED <<made, faults>>
       \/ /\ p.event \notin {"invite", "confirm"}
          /\ HandleSignal(p) /\ UNCHANGED <<made, faults>>
    /\ UNCHANGED <<lastSeq, dialed>>

-----------------------------------------------------------------------------
(* Connections and timers *)

IceConnected(k) ==
    /\ conn[k].state = "open" /\ conn[k].ice # "connected"
    /\ Becomes([Store EXCEPT !.conn[k].ice = "connected", !.call.phase = "setup",
                              !.dev.setup = FALSE, !.dev.lost = FALSE])
    /\ Calm

IceDisconnected(k) ==
    /\ conn[k].state = "open" /\ conn[k].ice = "connected"
    /\ Becomes([Store EXCEPT !.conn[k].ice = "disconnected",
                              !.call.phase = "setup", !.dev.lost = TRUE])
    /\ Calm

IceFailed(k) ==
    /\ conn[k].state = "open" /\ conn[k].local /\ conn[k].remote # 0
    /\ conn[k].ice # "connected"
    /\ Becomes(Closed(Store, TRUE))
    /\ Calm

\* The end of a connection is reported when another call may be there.
ReportClosed(k) ==
    /\ conn[k].state = "closing"
    /\ Becomes(Closed([Store EXCEPT !.conn[k].state = "closed"], FALSE))
    /\ Calm

SetupTimeout == device.setup /\ Becomes(Closed(Store, TRUE)) /\ Calm

DisconnectTimeout == device.lost /\ Becomes(Closed(Store, TRUE)) /\ Calm

-----------------------------------------------------------------------------

User == StartCall \/ Accept \/ HangUp

Work ==
    \/ \E task \in tasks :
          \/ MediaOpens(task) \/ MediaFails(task) \/ Publish(task)
          \/ Describe(task) \/ SetRemote(task)
    \/ \E k \in Calls : Trickle(k) \/ ReportClosed(k)

Timeout == SetupTimeout \/ DisconnectTimeout

\* No candidate is left in the queue once the remote description is there.
NoCandidateLeft ==
    device.peer # 0 /\ conn[device.peer].remote # 0 => device.queue = 0
=============================================================================
