-------------------------------- MODULE CallPair --------------------------------
(***************************************************************************)
(* A browser tab and a phone that call each other over one Tinode topic:   *)
(* WebCall and MobileCall, two queues of packets, and the media path       *)
(* between their connections.  Either side may start, also both at once.   *)
(***************************************************************************)
EXTENDS Naturals, Sequences, FiniteSets

CONSTANTS MaxCalls, MaxFaults   \* bounds, as in WebCall

ASSUME PairAssumption == MaxCalls \in Nat /\ MaxFaults \in Nat

VARIABLES overlay, active, dialing,          \* the tab
          call, device, conn, tasks, made,   \* the phone
          toWeb, toPhone,                    \* packets Tinode relays
          lastSeq, dialed, faults

webVars == <<overlay, active, dialing>>
phoneVars == <<call, device, conn, tasks, made>>
vars == <<webVars, phoneVars, toWeb, toPhone, lastSeq, dialed, faults>>

Web == INSTANCE WebCall WITH inbox <- toWeb, outbox <- toPhone
Phone == INSTANCE MobileCall WITH inbox <- toPhone, outbox <- toWeb

TypeOK == Web!TypeOK /\ Phone!TypeOK

Init ==
    /\ Web!Init /\ Phone!Init
    /\ toWeb = <<>> /\ toPhone = <<>>
    /\ lastSeq = 0 /\ dialed = 0 /\ faults = 0

-----------------------------------------------------------------------------
(* Media flows between two open connections that describe each other. *)

Linked(i, k) ==
    /\ overlay[i].pc = "open" /\ overlay[i].local /\ overlay[i].remote = k
    /\ Web!Described(overlay[i])
    /\ conn[k].state = "open" /\ conn[k].local /\ conn[k].remote = i

WebStep(A) == A /\ UNCHANGED phoneVars
PhoneStep(A) == A /\ UNCHANGED webVars

WebLinks(i) == (\E k \in Phone!Calls : Linked(i, k)) /\ WebStep(Web!IceConnected(i))

PhoneLinks(k) == (\E i \in Web!Overlays : Linked(i, k)) /\ PhoneStep(Phone!IceConnected(k))

\* Media may fail for a while at any time.  A connection whose other end is
\* gone notices it.
WebLoses(i) ==
    (\A k \in Phone!Calls : ~Linked(i, k)) /\ WebStep(Web!IceDisconnected(i))

PhoneLoses(k) ==
    (\A i \in Web!Overlays : ~Linked(i, k)) /\ PhoneStep(Phone!IceDisconnected(k))

\* A lost confirmation is a failed publication, and an invitation is stored.
Losable(queue) == queue # <<>> /\ Head(queue).event \notin {"confirm", "invite"}

\* The network loses packets.
Lose ==
    /\ faults < MaxFaults /\ faults' = faults + 1
    /\ \/ Losable(toWeb) /\ toWeb' = Tail(toWeb) /\ UNCHANGED toPhone
       \/ Losable(toPhone) /\ toPhone' = Tail(toPhone) /\ UNCHANGED toWeb
    /\ UNCHANGED <<webVars, phoneVars, lastSeq, dialed>>

Fails ==
    \/ \E i \in Web!Overlays : WebStep(Web!IceFailed(i))
    \/ \E k \in Phone!Calls : PhoneStep(Phone!IceFailed(k))

Next ==
    \/ WebStep(Web!User) \/ WebStep(Web!Work) \/ WebStep(Web!Timeout)
    \/ \E i \in Web!Overlays : WebStep(Web!Mount(i)) \/ WebLinks(i)
                             \/ WebStep(Web!IceDisconnected(i))
    \/ WebStep(Web!Deliver)
    \/ PhoneStep(Phone!User) \/ PhoneStep(Phone!Work) \/ PhoneStep(Phone!Timeout)
    \/ \E k \in Phone!Calls : PhoneLinks(k) \/ PhoneStep(Phone!IceDisconnected(k))
    \/ PhoneStep(Phone!Deliver)
    \/ Lose \/ Fails

\* Timers fire, the component loads, and a connection without a counterpart
\* is noticed (the WebRTC consent checks).  Nothing is assumed of the camera,
\* of Tinode or of the users.
Fairness ==
    /\ WF_vars(\E i \in Web!Overlays : WebStep(Web!Mount(i)))
    /\ WF_vars(WebStep(Web!Timeout))
    /\ WF_vars(\E i \in Web!Overlays : WebLoses(i))
    /\ WF_vars(PhoneStep(Phone!Timeout))
    /\ WF_vars(\E k \in Phone!Calls : PhoneLoses(k))

Spec == Init /\ [][Next]_vars /\ Fairness

-----------------------------------------------------------------------------
(* Properties *)

CameraBelongsToCall == Web!CameraBelongsToCall

NoCandidateLeft == Web!NoCandidateLeft /\ Phone!NoCandidateLeft

\* The call shown in the tab and that of the phone share their connections.
Joined == active # 0 /\ device.peer # 0 /\ Linked(active, device.peer)

\* Every call has something that will end it, or media that flows: a timer of
\* the set-up, one of a lost connection, or a connection that can be lost.  In
\* the tab no timer outlives its call; on the phone that of the set-up.
CallIsTimed ==
    /\ \A i \in Web!Overlays :
          Web!Alive(overlay[i]) <=>
             overlay[i].setup \/ overlay[i].lost \/ overlay[i].ice = "connected"
    /\ call.id # 0 =>
          \/ device.setup \/ device.lost
          \/ device.peer # 0 /\ conn[device.peer].ice = "connected"
    /\ device.setup => call.id # 0

\* Nobody stays in a call that leads nowhere: whatever is refused, lost or left
\* halfway, and whenever the other side leaves, the tab and the phone come back
\* again and again to having no call or to one that both have joined.
NobodyHangs ==
    /\ []<>(active = 0 \/ Joined)
    /\ []<>(call.id = 0 \/ Joined)
=============================================================================
