------------------------- MODULE GroupBindingProofs -------------------------
(***************************************************************************)
(* Proofs about GroupBinding for any tabs, users, processes, faults and    *)
(* any number of openings.  The invariant IInv says of a request how far   *)
(* it got, and of the persisted topic that the request which created it    *)
(* has committed and was not refused: but for the tabs in abandoned,       *)
(* nobody discards a topic after it was persisted, and nobody persists it  *)
(* after that.  OwnedOk adds whose the persisted topic is, NamesOk and     *)
(* HeldOk who may know a topic and in whose hands it is at each step of    *)
(* its bind.                                                               *)
(***************************************************************************)
EXTENDS GroupBinding, TLAPS

Unloaded == {"unsent", "arriving"}

\* A request r of the opening o, when T is persisted.
RequestOk(o, r, T) ==
  /\ r.pc # "unsent" => r.asked \in Opens
  /\ r.asked \notin {o, None} => T # None
  /\ r.loaded # None => T # None
  /\ r.pc \in Unloaded => r.loaded = None
  /\ r.pc \notin Unloaded /\ r.asked # o => r.loaded # None
  /\ r.requested => r.loaded = None /\ r.pc \notin Unloaded \cup {"lock", "prepare"}
  /\ r.pc \in {"offer", "accept"} \cup Undoing => r.requested
  /\ r.pc \in {"reconcile", "verify", "commit", "serialize"} /\ r.requested => r.accepted
  /\ r.reply # "none" => r.pc \in Undoing \cup {"ended"}

RequestsOk == \A o \in Opens : RequestOk(o, req[o], topic)

\* A topic exists while the request that is to bind it is under way, unless
\* the tab that created it threw it away without having been refused.
RoomsOk == \A o \in Opens \ abandoned :
  req[o].asked = o /\ req[o].pc \notin {"unsent", "ended"} => room[o].state = "live"

\* A tab has not used the openings after its current one.
TabsOk == \A t \in Tabs :
  /\ tab[t].seen # None => topic # None /\ req[tab[t].seen].pc # "unsent"
  /\ tab[t].pc # "idle" => tab[t].n \in 1..MaxOpens
  /\ tab[t].pc = "prepared" => req[<<t, tab[t].n>>] = NoRequest
  /\ \A n \in 1..MaxOpens : n > tab[t].n => req[<<t, n>>] = NoRequest

\* The request r that created and persisted the topic T.
Committed(T, r) ==
  /\ r.asked = T /\ r.loaded = None
  /\ r.requested => r.accepted
  /\ r.pc \in {"serialize", "ended"} \cup Undoing
  /\ r.reply # "rejected"
  /\ r.reply = "ok" => r.canon = T

PersistedOk == topic # None =>
  /\ Committed(topic, req[topic])
  /\ topic \notin abandoned => room[topic].state = "live"

IInv == TypeOK /\ RequestsOk /\ RoomsOk /\ TabsOk /\ PersistedOk

LEMMA StepNames ==
  /\ Unloaded \cup Synchronous \cup Awaiting \cup Undoing \cup {"ended"} \subseteq Steps
  /\ Replies = {"none", "ok", "rejected", "failed"}
BY DEF Unloaded, Synchronous, Awaiting, Undoing, Steps, Replies

-----------------------------------------------------------------------------
(* The steps of a handler.                                                 *)

\* Only the request o changes, and keeps what it asked for; no topic is
\* created or deleted.
Handles(o) ==
  /\ req' \in [Opens -> Request] /\ room' \in [Opens -> Room]
  /\ lock' \in Opens \cup {None} /\ unsure' \in SUBSET Opens
  /\ tab' = tab /\ abandoned' = abandoned
  /\ req[o].pc \notin {"unsent", "ended"} /\ req'[o].pc # "unsent"
  /\ req'[o].asked = req[o].asked
  /\ \A p \in Opens \ {o} : req'[p] = req[p]
  /\ \A p \in Opens : room'[p].state = room[p].state

(* A step of a handler that leaves its request in order, and commits, if it *)
(* does, the topic it created, keeps the invariant.                         *)
LEMMA HandlesKeeps ==
  ASSUME IInv, NEW o \in Opens, Handles(o), RequestOk(o, req'[o], topic'),
         \/ topic' = topic /\ (topic = o => Committed(o, req'[o]))
         \/ topic' = o /\ Committed(o, req'[o])
  PROVE IInv'
<1> USE BindingAssumption
<1>0. None \notin Opens
  BY DEF Opens
<1>1. TypeOK'
  BY DEF IInv, TypeOK, Handles
<1>2. topic # None => topic' # None
  BY <1>0
<1>3. RequestsOk'
  <2> SUFFICES ASSUME NEW p \in Opens PROVE RequestOk(p, req'[p], topic')
    BY DEF RequestsOk
  <2>1. CASE p = o
    BY <2>1
  <2>2. CASE p # o
    <3>1. req'[p] = req[p] /\ RequestOk(p, req[p], topic)
      BY <2>2 DEF Handles, IInv, RequestsOk
    <3> QED BY <3>1, <1>2 DEF RequestOk
  <2> QED BY <2>1, <2>2
<1>4. RoomsOk'
  BY DEF IInv, RoomsOk, Handles
<1>5. TabsOk'
  <2> SUFFICES ASSUME NEW t \in Tabs
               PROVE /\ tab[t].seen # None => topic' # None /\ req'[tab[t].seen].pc # "unsent"
                     /\ tab[t].pc # "idle" => tab[t].n \in 1..MaxOpens
                     /\ tab[t].pc = "prepared" => req'[<<t, tab[t].n>>] = NoRequest
                     /\ \A n \in 1..MaxOpens : n > tab[t].n => req'[<<t, n>>] = NoRequest
    BY DEF TabsOk, Handles
  <2>1. req[o] # NoRequest
    BY DEF Handles, NoRequest
  <2>2. \A n \in 1..MaxOpens : <<t, n>> \in Opens
    BY DEF Opens
  <2>3. \A n \in 1..MaxOpens : req[<<t, n>>] = NoRequest => req'[<<t, n>>] = NoRequest
    BY <2>1, <2>2 DEF Handles
  <2>4. tab[t].seen \in Opens \cup {None}
    BY DEF IInv, TypeOK, Tab
  <2>5. \A p \in Opens : req[p].pc # "unsent" => req'[p].pc # "unsent"
    BY DEF Handles
  <2> QED BY <1>2, <2>3, <2>4, <2>5 DEF IInv, TabsOk
<1>6. PersistedOk'
  <2>1. CASE topic' = topic /\ topic # o
    BY <2>1 DEF IInv, PersistedOk, Handles, TypeOK
  <2>2. CASE topic' = topic /\ topic = o
    BY <2>2, <1>0 DEF IInv, PersistedOk, Handles
  <2>3. CASE topic' = o /\ topic # o
    <3>1. req[o].asked = o
      BY <2>3 DEF Committed, Handles
    <3>2. o \notin abandoned => room[o].state = "live"
      BY <3>1 DEF IInv, RoomsOk, Handles
    <3> QED BY <2>3, <3>2 DEF PersistedOk, Handles
  <2> QED BY <2>1, <2>2, <2>3
<1> QED BY <1>1, <1>3, <1>4, <1>5, <1>6 DEF IInv

(* What a handler does when an exception ends its bind.                    *)
LEMMA FailFacts ==
  ASSUME IInv, NEW o \in Opens, NEW reply \in {"rejected", "failed"}, Fail(o, reply),
         UNCHANGED <<topic, tab, abandoned>>, room' \in [Opens -> Room],
         unsure' \in SUBSET Opens,
         \A p \in Opens : room'[p].state = room[p].state,
         req[o].pc \notin {"unsent", "arriving", "ended"},
         topic = o => reply = "failed"
  PROVE /\ Handles(o) /\ RequestOk(o, req'[o], topic')
        /\ topic = o => Committed(o, req'[o])
        /\ req'[o].pc \in {"undoGrant", "undoMode", "ended"}
<1>1. req \in [Opens -> Request] /\ req[o] \in Request /\ lock \in Opens \cup {None}
  BY DEF IInv, TypeOK
<1>2. FirstUndo(o) \in {"undoGrant", "undoMode", "ended"}
      /\ (FirstUndo(o) # "ended" => req[o].requested)
  BY <1>1 DEF FirstUndo, Request
<1>3. /\ req' = [req EXCEPT ![o].pc = FirstUndo(o), ![o].reply = reply]
      /\ lock' \in Opens \cup {None}
  BY <1>1 DEF Fail, Unlocked
<1>4. FirstUndo(o) \in Steps /\ reply \in Replies
  BY <1>2 DEF Steps, Awaiting, Undoing, Replies
<1>5. req' \in [Opens -> Request]
  BY <1>1, <1>3, <1>4 DEF Request
<1>6. /\ req'[o].pc = FirstUndo(o) /\ req'[o].reply = reply
      /\ req'[o].asked = req[o].asked /\ req'[o].loaded = req[o].loaded
      /\ req'[o].requested = req[o].requested /\ req'[o].accepted = req[o].accepted
  BY <1>1, <1>3 DEF Request
<1>7. Handles(o)
  BY <1>1, <1>2, <1>3, <1>5, <1>6 DEF Handles
<1>8. RequestOk(o, req[o], topic)
  BY DEF IInv, RequestsOk
<1>9. RequestOk(o, req'[o], topic')
  BY <1>2, <1>6, <1>8 DEF RequestOk, Unloaded, Undoing
<1>10. ASSUME topic = o PROVE Committed(o, req'[o])
  <2>1. req[o].asked = o /\ req[o].loaded = None /\ (req[o].requested => req[o].accepted)
    BY <1>10, BindingAssumption DEF IInv, PersistedOk, Committed, Opens
  <2> QED BY <2>1, <1>10, <1>2, <1>6 DEF Committed, Undoing
<1> QED BY <1>2, <1>6, <1>7, <1>9, <1>10

Calls == {"offer", "accept", "reconcile"} \cup Undoing

\* The request o moves on to the step pc.
Moves(o, pc) ==
  /\ req' \in [Opens -> Request] /\ lock' = lock
  /\ req'[o].pc = pc
  /\ req'[o].asked = req[o].asked /\ req'[o].loaded = req[o].loaded
  /\ req'[o].requested = req[o].requested /\ req'[o].reply = req[o].reply
  /\ req'[o].canon = req[o].canon /\ (req[o].accepted => req'[o].accepted)
  /\ \A p \in Opens \ {o} : req'[p] = req[p]

LEMMA GotoMoves ==
  ASSUME TypeOK, NEW o \in Opens, NEW pc \in Steps, lock' = lock,
         \/ Goto(o, pc)
         \/ req' = [req EXCEPT ![o].pc = pc, ![o].accepted = TRUE]
  PROVE Moves(o, pc)
<1>1. req \in [Opens -> Request] /\ req[o] \in Request
  BY DEF TypeOK
<1>2. req' \in [Opens -> Request]
  BY <1>1 DEF Request, Goto
<1> QED BY <1>1, <1>2 DEF Moves, Goto, Request

LEMMA NameInOpens ==
  ASSUME IInv, NEW o \in Opens, req[o].pc # "unsent"
  PROVE NameOf(o) \in Opens /\ room[NameOf(o)] \in Room
BY DEF IInv, TypeOK, RequestsOk, RequestOk, NameOf, Request

\* What a call to Tinode does to the topics, whatever becomes of it.
RoomsKept ==
  /\ room' \in [Opens -> Room] /\ unsure' \in SUBSET Opens /\ abandoned' = abandoned
  /\ \A p \in Opens : room'[p].state = room[p].state

LEMMA RoomChange ==
  ASSUME IInv, NEW o \in Opens, NEW after \in Room, req[o].pc # "unsent",
         after.state = room[NameOf(o)].state,
         room' = room \/ room' = [room EXCEPT ![NameOf(o)] = after],
         unsure' = unsure \/ unsure' = unsure \cup {o}, abandoned' = abandoned
  PROVE RoomsKept
<1>1. NameOf(o) \in Opens /\ room \in [Opens -> Room]
  BY NameInOpens DEF IInv, TypeOK
<1>2. room' \in [Opens -> Room]
  BY <1>1
<1>3. unsure' \in SUBSET Opens
  BY DEF IInv, TypeOK
<1> QED BY <1>1, <1>2, <1>3 DEF RoomsKept

(* A call that was not confirmed ends the bind or the undoing.             *)
LEMMA UnconfirmedKeeps ==
  ASSUME IInv, NEW o \in Opens, RoomsKept, UNCHANGED <<topic, tab>>,
         req[o].pc \in Calls,
         \E reply \in {"rejected", "failed"} :
            IF req[o].pc \in Undoing
            THEN Goto(o, "ended") /\ lock' = lock
            ELSE Fail(o, reply)
  PROVE IInv'
<1>1. TypeOK /\ lock \in Opens \cup {None} /\ RequestOk(o, req[o], topic)
  BY DEF IInv, TypeOK, RequestsOk
<1>2. topic = o => Committed(o, req[o])
  BY BindingAssumption DEF IInv, PersistedOk, Opens
<1>3. CASE req[o].pc \in Undoing
  <2>1. Moves(o, "ended")
    BY <1>1, <1>3, GotoMoves DEF Steps
  <2>2. Handles(o)
    BY <1>1, <1>3, <2>1 DEF Handles, Moves, RoomsKept, Undoing
  <2>3. RequestOk(o, req'[o], topic')
    BY <1>1, <1>3, <2>1 DEF RequestOk, Moves, Unloaded, Undoing
  <2>4. topic = o => Committed(o, req'[o])
    BY <1>2, <2>1 DEF Committed, Moves
  <2> QED BY <2>2, <2>3, <2>4, HandlesKeeps
<1>4. CASE req[o].pc \notin Undoing
  <2>1. PICK reply \in {"rejected", "failed"} : Fail(o, reply)
    BY <1>4
  <2>2. topic # o
    BY <1>2, <1>4 DEF Committed, Calls, Undoing
  <2>3. req[o].pc \notin {"unsent", "arriving", "ended"}
    BY DEF Calls, Undoing
  <2>4. Handles(o) /\ RequestOk(o, req'[o], topic')
    BY <2>1, <2>2, <2>3, FailFacts DEF RoomsKept
  <2> QED BY <2>2, <2>4, HandlesKeeps
<1> QED BY <1>3, <1>4

(* A confirmed call takes the handler to its next step.                    *)
LEMMA ConfirmedKeeps ==
  ASSUME IInv, NEW o \in Opens, RoomsKept, UNCHANGED <<topic, tab>>,
         NEW pc \in Steps, Moves(o, pc),
         \/ req[o].pc = "offer" /\ pc = "accept"
         \/ req[o].pc = "accept" /\ pc = "reconcile" /\ req'[o].accepted
         \/ req[o].pc = "reconcile" /\ pc = "verify"
         \/ req[o].pc = "verify" /\ pc = "commit"
         \/ req[o].pc \in Undoing /\ pc \in {"undoAccept", "undoMode", "ended"}
  PROVE IInv'
<1>1. lock \in Opens \cup {None} /\ RequestOk(o, req[o], topic)
  BY DEF IInv, TypeOK, RequestsOk
<1>2. topic = o => Committed(o, req[o])
  BY BindingAssumption DEF IInv, PersistedOk, Opens
<1>3. Handles(o)
  BY <1>1 DEF Handles, Moves, RoomsKept, Undoing
<1>4. RequestOk(o, req'[o], topic')
  BY <1>1 DEF RequestOk, Moves, Unloaded, Undoing
<1>5. topic = o => Committed(o, req'[o])
  BY <1>2 DEF Committed, Moves, Undoing
<1> QED BY <1>3, <1>4, <1>5, HandlesKeeps

(* The calls to Tinode of a bind and of its undoing.                       *)
LEMMA CallsKeep ==
  ASSUME IInv, NEW o \in Opens,
         \/ Offer(o) \/ Accept(o) \/ Reconcile(o)
         \/ UndoGrant(o) \/ UndoAccept(o) \/ UndoMode(o)
  PROVE IInv'
<1> DEFINE r == room[NameOf(o)]
<1> USE BindingAssumption
<1>0. TypeOK /\ ViewerOf(o) \in Users
  BY DEF IInv, ViewerOf, Opens
<1>r. ASSUME req[o].pc # "unsent"
      PROVE /\ r \in Room
            /\ \A u \in Users : [r EXCEPT !.offered = u] \in Room
            /\ \A u \in Users : [r EXCEPT !.owner = u, !.offered = None] \in Room
            /\ [r EXCEPT !.offered = None] \in Room
  BY <1>r, NameInOpens DEF Room
<1>s. {"accept", "reconcile", "verify", "undoAccept", "undoMode", "ended"} \subseteq Steps
  BY DEF Steps, Awaiting, Undoing
<1>1. CASE Offer(o)
  <2> DEFINE after == [r EXCEPT !.offered = GroupOwner]
  <2>1. req[o].pc = "offer" /\ TinodeCall(o, OwnedBy(r, ViewerOf(o)), after, Goto(o, "accept") /\ lock' = lock)
    BY <1>1 DEF Offer, At
  <2>2. after \in Room /\ after.state = r.state
    BY <2>1, <1>r DEF Room
  <2> HIDE DEF r, after
  <2>3. RoomsKept /\ UNCHANGED <<topic, tab>>
    BY <2>1, <2>2, RoomChange DEF TinodeCall, r
  <2>4. CASE Goto(o, "accept") /\ lock' = lock
    BY <2>1, <2>3, <2>4, <1>0, <1>s, GotoMoves, ConfirmedKeeps
  <2>5. CASE ~(Goto(o, "accept") /\ lock' = lock)
    BY <2>1, <2>3, <2>5, UnconfirmedKeeps DEF TinodeCall, Calls
  <2> QED BY <2>4, <2>5
<1>2. CASE Accept(o)
  <2> DEFINE after == [r EXCEPT !.owner = GroupOwner, !.offered = None]
             next == /\ req' = [req EXCEPT ![o].pc = "reconcile", ![o].accepted = TRUE]
                     /\ lock' = lock
  <2>1. req[o].pc = "accept" /\ TinodeCall(o, OfferedTo(r, GroupOwner), after, next)
    BY <1>2 DEF Accept, At
  <2>2. after \in Room /\ after.state = r.state
    BY <2>1, <1>r DEF Room
  <2> HIDE DEF r, after
  <2>3. RoomsKept /\ UNCHANGED <<topic, tab>>
    BY <2>1, <2>2, RoomChange DEF TinodeCall, r
  <2>4. CASE next
    <3>1. req'[o].accepted
      BY <2>4, <1>0 DEF TypeOK, Request
    <3> QED BY <2>1, <2>3, <2>4, <3>1, <1>0, <1>s, GotoMoves, ConfirmedKeeps
  <2>5. CASE ~next
    BY <2>1, <2>3, <2>5, UnconfirmedKeeps DEF TinodeCall, Calls
  <2> QED BY <2>4, <2>5
<1>3. CASE Reconcile(o)
  <2> DEFINE after == [r EXCEPT !.owner = GroupOwner, !.offered = IF @ = GroupOwner THEN None ELSE @]
  <2>1. /\ req[o].pc = "reconcile"
        /\ TinodeCall(o, OwnedBy(r, GroupOwner) \/ OfferedTo(r, GroupOwner), after,
                      Goto(o, "verify") /\ lock' = lock)
    BY <1>3 DEF Reconcile, At
  <2>2. after \in Room /\ after.state = r.state
    BY <2>1, <1>r DEF Room
  <2> HIDE DEF r, after
  <2>3. RoomsKept /\ UNCHANGED <<topic, tab>>
    BY <2>1, <2>2, RoomChange DEF TinodeCall, r
  <2>4. CASE Goto(o, "verify") /\ lock' = lock
    BY <2>1, <2>3, <2>4, <1>0, <1>s, GotoMoves, ConfirmedKeeps
  <2>5. CASE ~(Goto(o, "verify") /\ lock' = lock)
    BY <2>1, <2>3, <2>5, UnconfirmedKeeps DEF TinodeCall, Calls
  <2> QED BY <2>4, <2>5
<1>4. CASE UndoGrant(o)
  <2> DEFINE after == [r EXCEPT !.offered = ViewerOf(o)]
  <2>1. req[o].pc = "undoGrant" /\ TinodeCall(o, OwnedBy(r, GroupOwner), after, Goto(o, "undoAccept") /\ lock' = lock)
    BY <1>4 DEF UndoGrant, At
  <2>2. after \in Room /\ after.state = r.state
    BY <2>1, <1>r, <1>0 DEF Room
  <2> HIDE DEF r, after
  <2>3. RoomsKept /\ UNCHANGED <<topic, tab>>
    BY <2>1, <2>2, RoomChange DEF TinodeCall, r
  <2>4. CASE Goto(o, "undoAccept") /\ lock' = lock
    BY <2>1, <2>3, <2>4, <1>0, <1>s, GotoMoves, ConfirmedKeeps DEF Undoing
  <2>5. CASE ~(Goto(o, "undoAccept") /\ lock' = lock)
    BY <2>1, <2>3, <2>5, UnconfirmedKeeps DEF TinodeCall, Calls, Undoing
  <2> QED BY <2>4, <2>5
<1>5. CASE UndoAccept(o)
  <2> DEFINE after == [r EXCEPT !.owner = ViewerOf(o), !.offered = None]
  <2>1. req[o].pc = "undoAccept" /\ TinodeCall(o, OfferedTo(r, ViewerOf(o)), after, Goto(o, "undoMode") /\ lock' = lock)
    BY <1>5 DEF UndoAccept, At
  <2>2. after \in Room /\ after.state = r.state
    BY <2>1, <1>r, <1>0 DEF Room
  <2> HIDE DEF r, after
  <2>3. RoomsKept /\ UNCHANGED <<topic, tab>>
    BY <2>1, <2>2, RoomChange DEF TinodeCall, r
  <2>4. CASE Goto(o, "undoMode") /\ lock' = lock
    BY <2>1, <2>3, <2>4, <1>0, <1>s, GotoMoves, ConfirmedKeeps DEF Undoing
  <2>5. CASE ~(Goto(o, "undoMode") /\ lock' = lock)
    BY <2>1, <2>3, <2>5, UnconfirmedKeeps DEF TinodeCall, Calls, Undoing
  <2> QED BY <2>4, <2>5
<1>6. CASE UndoMode(o)
  <2> DEFINE after == [r EXCEPT !.offered = None]
  <2>1. req[o].pc = "undoMode" /\ TinodeCall(o, OwnedBy(r, ViewerOf(o)), after, Goto(o, "ended") /\ lock' = lock)
    BY <1>6 DEF UndoMode, At
  <2>2. after \in Room /\ after.state = r.state
    BY <2>1, <1>r DEF Room
  <2> HIDE DEF r, after
  <2>3. RoomsKept /\ UNCHANGED <<topic, tab>>
    BY <2>1, <2>2, RoomChange DEF TinodeCall, r
  <2>4. CASE Goto(o, "ended") /\ lock' = lock
    BY <2>1, <2>3, <2>4, <1>0, <1>s, GotoMoves, ConfirmedKeeps DEF Undoing
  <2>5. CASE ~(Goto(o, "ended") /\ lock' = lock)
    BY <2>1, <2>3, <2>5, UnconfirmedKeeps DEF TinodeCall, Calls, Undoing
  <2> QED BY <2>4, <2>5
<1> QED BY <1>1, <1>2, <1>3, <1>4, <1>5, <1>6

(* The steps that do not call Tinode, or only read from it.                *)
LEMMA OtherStepsKeep ==
  ASSUME IInv, NEW o \in Opens,
         Arrive(o) \/ TakeLock(o) \/ Prepare(o) \/ Verify(o) \/ Commit(o) \/ Serialize(o)
  PROVE IInv'
<1>0. /\ TypeOK /\ lock \in Opens \cup {None} /\ topic \in Opens \cup {None}
      /\ req \in [Opens -> Request] /\ req[o] \in Request /\ room \in [Opens -> Room]
      /\ RequestOk(o, req[o], topic) /\ unsure \in SUBSET Opens
  BY DEF IInv, TypeOK, RequestsOk
<1>n. None \notin Opens
  BY BindingAssumption DEF Opens
<1>c. topic = o => Committed(o, req[o])
  BY <1>n DEF IInv, PersistedOk
<1>s. {"lock", "prepare", "offer", "reconcile", "verify", "commit", "serialize", "ended"} \subseteq Steps
  BY DEF Steps, Awaiting, Synchronous
<1>1. CASE Arrive(o)
  <2>1. /\ req[o].pc = "arriving" /\ UNCHANGED <<topic, lock, room, tab, history>>
        /\ req' = [req EXCEPT ![o].loaded = topic, ![o].pc = "lock"]
    BY <1>1 DEF Arrive, At
  <2>2. req' \in [Opens -> Request]
    BY <2>1, <1>0, <1>s DEF Request
  <2>3. /\ req'[o].pc = "lock" /\ req'[o].loaded = topic /\ req'[o].asked = req[o].asked
        /\ req'[o].requested = req[o].requested /\ req'[o].reply = req[o].reply
    BY <2>1, <1>0 DEF Request
  <2>4. Handles(o)
    BY <2>1, <2>2, <2>3, <1>0 DEF Handles, history
  <2>5. RequestOk(o, req'[o], topic')
    BY <2>1, <2>3, <1>0, <1>n DEF RequestOk, Unloaded, Undoing
  <2>6. topic # o
    BY <2>1, <1>c DEF Committed, Undoing
  <2> QED BY <2>1, <2>4, <2>5, <2>6, HandlesKeeps
<1>2. CASE TakeLock(o)
  <2>1. req[o].pc = "lock" /\ lock' = o /\ Goto(o, "prepare") /\ UNCHANGED <<topic, room, tab, history>>
    BY <1>2 DEF TakeLock, At
  <2>2. req' \in [Opens -> Request]
    BY <2>1, <1>0, <1>s DEF Goto, Request
  <2>3. /\ req'[o].pc = "prepare" /\ req'[o].loaded = req[o].loaded /\ req'[o].asked = req[o].asked
        /\ req'[o].requested = req[o].requested /\ req'[o].reply = req[o].reply
    BY <2>1, <1>0 DEF Goto, Request
  <2>4. Handles(o)
    BY <2>1, <2>2, <2>3, <1>0 DEF Handles, Goto, history
  <2>5. RequestOk(o, req'[o], topic')
    BY <2>1, <2>3, <1>0 DEF RequestOk, Unloaded, Undoing
  <2>6. topic # o
    BY <2>1, <1>c DEF Committed, Undoing
  <2> QED BY <2>1, <2>4, <2>5, <2>6, HandlesKeeps
<1>3. CASE Prepare(o)
  <2>1. req[o].pc = "prepare" /\ UNCHANGED <<topic, room, tab, history>>
    BY <1>3 DEF Prepare, At
  <2>2. topic # o
    BY <2>1, <1>c DEF Committed, Undoing
  <2>3. CASE /\ req' = [req EXCEPT ![o].pc = IF MustTransfer(o) THEN "offer" ELSE "reconcile",
                                   ![o].requested = MustTransfer(o)]
             /\ lock' = lock
    <3>1. MustTransfer(o) \in BOOLEAN /\ (MustTransfer(o) => req[o].loaded = None)
      BY DEF MustTransfer
    <3>2. req' \in [Opens -> Request]
      BY <2>3, <3>1, <1>0, <1>s DEF Request
    <3>3. /\ req'[o].pc = IF MustTransfer(o) THEN "offer" ELSE "reconcile"
          /\ req'[o].loaded = req[o].loaded /\ req'[o].asked = req[o].asked
          /\ req'[o].requested = MustTransfer(o) /\ req'[o].reply = req[o].reply
      BY <2>3, <1>0 DEF Request
    <3>4. Handles(o)
      BY <2>1, <2>3, <3>2, <3>3, <1>0 DEF Handles, history
    <3>5. RequestOk(o, req'[o], topic')
      BY <2>1, <3>1, <3>3, <1>0 DEF RequestOk, Unloaded, Undoing
    <3> QED BY <2>1, <2>2, <3>4, <3>5, HandlesKeeps
  <2>4. CASE \E reply \in {"rejected", "failed"} : Fail(o, reply)
    BY <2>1, <2>2, <2>4, <1>0, FailFacts, HandlesKeeps DEF history
  <2> QED BY <1>3, <2>3, <2>4 DEF Prepare
<1>4. CASE Verify(o)
  <2>1. req[o].pc = "verify" /\ UNCHANGED <<topic, room, tab, history>>
    BY <1>4 DEF Verify, At
  <2>2. RoomsKept
    BY <2>1, <1>0 DEF RoomsKept, history
  <2>3. CASE Goto(o, "commit") /\ lock' = lock
    BY <2>1, <2>2, <2>3, <1>0, <1>s, GotoMoves, ConfirmedKeeps DEF history
  <2>4. CASE \E reply \in {"rejected", "failed"} : Fail(o, reply)
    <3>1. topic # o
      BY <2>1, <1>c DEF Committed, Undoing
    <3> QED BY <2>1, <2>4, <3>1, <1>0, FailFacts, HandlesKeeps DEF history
  <2> QED BY <1>4, <2>3, <2>4 DEF Verify
<1>5. CASE Commit(o)
  <2>1. req[o].pc = "commit" /\ UNCHANGED <<room, tab, history>>
    BY <1>5 DEF Commit, At
  <2>2. topic # o
    BY <2>1, <1>c DEF Committed, Undoing
  <2>3. CASE /\ topic' = IF NameOf(o) # req[o].loaded THEN NameOf(o) ELSE topic
             /\ lock' = None /\ Goto(o, "serialize")
    <3>1. req' \in [Opens -> Request]
      BY <2>3, <1>0, <1>s DEF Goto, Request
    <3>2. /\ req'[o].pc = "serialize" /\ req'[o].loaded = req[o].loaded /\ req'[o].asked = req[o].asked
          /\ req'[o].requested = req[o].requested /\ req'[o].reply = req[o].reply
          /\ req'[o].accepted = req[o].accepted
      BY <2>3, <1>0 DEF Goto, Request
    <3>3. Handles(o)
      BY <2>1, <2>3, <3>1, <3>2, <1>0 DEF Handles, Goto, history
    <3>4. req[o].loaded = None => req[o].asked = o
      BY <2>1, <1>0 DEF RequestOk, Unloaded
    <3>5. topic' = topic \/ (topic' = o /\ req[o].loaded = None /\ req[o].asked = o)
      BY <2>3, <3>4 DEF NameOf
    <3>6. topic # None => topic' # None
      BY <3>5, <1>n
    <3>7. req[o].reply = "none" /\ (req[o].requested => req[o].accepted)
      BY <2>1, <1>0 DEF RequestOk, Undoing
    <3>8. RequestOk(o, req'[o], topic')
      BY <2>1, <3>2, <3>6, <3>7, <1>0 DEF RequestOk, Unloaded, Undoing
    <3>9. topic' = o => Committed(o, req'[o])
      BY <3>2, <3>5, <3>7, <2>2 DEF Committed
    <3> QED BY <2>2, <3>3, <3>5, <3>8, <3>9, HandlesKeeps
  <2>4. CASE Fail(o, "failed") /\ topic' = topic
    BY <2>1, <2>2, <2>4, <1>0, FailFacts, HandlesKeeps DEF history
  <2> QED BY <1>5, <2>3, <2>4 DEF Commit
<1>6. CASE Serialize(o)
  <2>1. req[o].pc = "serialize" /\ UNCHANGED <<topic, room, tab, history>>
    BY <1>6 DEF Serialize, At
  <2>2. CASE /\ req' = [req EXCEPT ![o].pc = "ended", ![o].reply = "ok", ![o].canon = topic]
             /\ lock' = lock
    <3>1. req' \in [Opens -> Request]
      BY <2>2, <1>0, <1>s DEF Request, Replies
    <3>2. /\ req'[o].pc = "ended" /\ req'[o].loaded = req[o].loaded /\ req'[o].asked = req[o].asked
          /\ req'[o].requested = req[o].requested /\ req'[o].reply = "ok" /\ req'[o].canon = topic
          /\ req'[o].accepted = req[o].accepted
      BY <2>2, <1>0 DEF Request
    <3>3. Handles(o)
      BY <2>1, <2>2, <3>1, <3>2, <1>0 DEF Handles, history
    <3>4. RequestOk(o, req'[o], topic')
      BY <2>1, <3>2, <1>0 DEF RequestOk, Unloaded, Undoing
    <3>5. topic = o => Committed(o, req'[o])
      BY <1>c, <3>2 DEF Committed
    <3> QED BY <2>1, <3>3, <3>4, <3>5, HandlesKeeps
  <2>3. CASE Fail(o, "failed")
    BY <2>1, <2>3, <1>0, FailFacts, HandlesKeeps DEF history
  <2> QED BY <1>6, <2>2, <2>3 DEF Serialize
<1> QED BY <1>1, <1>2, <1>3, <1>4, <1>5, <1>6

-----------------------------------------------------------------------------
(* The steps of a tab.                                                     *)

LEMMA TabStepsKeep ==
  ASSUME IInv, NEW t \in Tabs, Browse(t)
  PROVE IInv'
<1> USE BindingAssumption
<1> DEFINE o == <<t, tab[t].n>>
<1>0. /\ topic \in Opens \cup {None} /\ lock \in Opens \cup {None}
      /\ req \in [Opens -> Request] /\ room \in [Opens -> Room]
      /\ tab \in [Tabs -> Tab] /\ tab[t] \in Tab
      /\ abandoned \in SUBSET Opens /\ unsure \in SUBSET Opens
  BY DEF IInv, TypeOK
<1>n. None \notin Opens
  BY DEF Opens
<1>1. CASE OpenGroup(t)
  <2>1. /\ tab[t].pc = "idle" /\ tab[t].n < MaxOpens /\ UNCHANGED <<topic, lock, room, req, history>>
        /\ tab' = [tab EXCEPT ![t].pc = "prepared", ![t].n = @ + 1, ![t].seen = topic]
    BY <1>1 DEF OpenGroup
  <2>2. tab[t].n + 1 \in 1..MaxOpens /\ tab[t].n \in Nat
    BY <2>1, <1>0 DEF Tab
  <2>3. tab' \in [Tabs -> Tab]
    BY <2>1, <2>2, <1>0 DEF Tab
  <2>4. /\ tab'[t].pc = "prepared" /\ tab'[t].n = tab[t].n + 1 /\ tab'[t].seen = topic
        /\ \A u \in Tabs \ {t} : tab'[u] = tab[u]
    BY <2>1, <1>0 DEF Tab
  <2>5. TypeOK'
    BY <2>1, <2>3, <1>0 DEF TypeOK, history
  <2>6. TabsOk'
    <3> SUFFICES ASSUME NEW u \in Tabs
                 PROVE /\ tab'[u].seen # None => topic # None /\ req[tab'[u].seen].pc # "unsent"
                       /\ tab'[u].pc # "idle" => tab'[u].n \in 1..MaxOpens
                       /\ tab'[u].pc = "prepared" => req[<<u, tab'[u].n>>] = NoRequest
                       /\ \A n \in 1..MaxOpens : n > tab'[u].n => req[<<u, n>>] = NoRequest
      BY <2>1 DEF TabsOk
    <3>1. CASE u # t
      BY <3>1, <2>4 DEF IInv, TabsOk
    <3>2. CASE u = t
      <4>1. \A n \in 1..MaxOpens : n > tab[t].n => req[<<t, n>>] = NoRequest
        BY DEF IInv, TabsOk
      <4>2. topic # None => req[topic].pc # "unsent"
        BY DEF IInv, PersistedOk, Committed, Undoing
      <4> QED BY <3>2, <4>1, <4>2, <2>2, <2>4
    <3> QED BY <3>1, <3>2
  <2>7. (RequestsOk /\ RoomsOk /\ PersistedOk)'
    BY <2>1 DEF IInv, RequestsOk, RoomsOk, PersistedOk, history
  <2> QED BY <2>5, <2>6, <2>7 DEF IInv
<1>2. CASE Bind(t)
  <2> DEFINE asked == IF tab[t].seen = None THEN o ELSE tab[t].seen
  <2>1. /\ tab[t].pc = "prepared" /\ UNCHANGED <<topic, lock, abandoned, unsure>>
        /\ room' = IF tab[t].seen = None
                   THEN [room EXCEPT ![o] = [state |-> "live", owner |-> Viewer[t], offered |-> None]]
                   ELSE room
        /\ tab' = [tab EXCEPT ![t].pc = "waiting"]
    BY <1>2 DEF Bind, Created, history
  <2>2. PICK p \in Procs : req' = [req EXCEPT ![o].pc = "arriving", ![o].proc = p, ![o].asked = asked]
    BY <1>2 DEF Bind
  <2>3. /\ o \in Opens /\ req[o] = NoRequest /\ tab[t].n \in 1..MaxOpens
        /\ tab[t].seen # None => topic # None /\ tab[t].seen # o
    <3>1. o \in Opens /\ req[o] = NoRequest /\ tab[t].n \in 1..MaxOpens
      BY <2>1 DEF IInv, TabsOk, Opens
    <3>2. tab[t].seen # None => topic # None /\ req[tab[t].seen].pc # "unsent"
      BY DEF IInv, TabsOk
    <3> QED BY <3>1, <3>2 DEF NoRequest
  <2>4. asked \in Opens /\ (asked # o => topic # None)
    BY <2>3, <1>0 DEF Tab
  <2> HIDE DEF asked
  <2>5. req' \in [Opens -> Request]
    <3>1. "arriving" \in Steps /\ p \in Procs \cup {None} /\ asked \in Opens \cup {None}
      BY <2>4 DEF Steps
    <3>2. [req[o] EXCEPT !.pc = "arriving", !.proc = p, !.asked = asked] \in Request
      <4> DEFINE r == req[o]
      <4>1. r \in Request
        BY <2>3, <1>0
      <4> HIDE DEF r
      <4>2. [r EXCEPT !.pc = "arriving", !.proc = p, !.asked = asked] \in Request
        BY <3>1, <4>1 DEF Request
      <4> QED BY <4>2 DEF r
    <3>3. req' = [req EXCEPT ![o] = [req[o] EXCEPT !.pc = "arriving", !.proc = p, !.asked = asked]]
      BY <2>2
    <3> QED BY <2>3, <3>2, <3>3, <1>0
  <2>6. /\ req'[o].pc = "arriving" /\ req'[o].asked = asked /\ req'[o].loaded = None
        /\ ~req'[o].requested /\ req'[o].reply = "none"
        /\ \A q \in Opens \ {o} : req'[q] = req[q]
    BY <2>2, <2>3, <1>0 DEF NoRequest, Request
  <2>7. /\ [state |-> "live", owner |-> Viewer[t], offered |-> None] \in Room
        /\ room' \in [Opens -> Room]
        /\ \A q \in Opens \ {o} : room'[q] = room[q]
        /\ tab[t].seen = None => room'[o].state = "live"
    BY <2>1, <2>3, <1>0 DEF Room
  <2>8. tab' \in [Tabs -> Tab] /\ TypeOK'
    BY <2>1, <2>5, <2>7, <1>0 DEF TypeOK, Tab
  <2>9. topic # o
    BY <2>3, <1>n DEF IInv, PersistedOk, Committed, NoRequest, Undoing
  <2>10. RequestsOk'
    <3> SUFFICES ASSUME NEW q \in Opens PROVE RequestOk(q, req'[q], topic)
      BY <2>1 DEF RequestsOk
    <3>1. CASE q # o
      BY <3>1, <2>6 DEF IInv, RequestsOk
    <3>2. CASE q = o
      BY <3>2, <2>4, <2>6 DEF RequestOk, Unloaded, Undoing
    <3> QED BY <3>1, <3>2
  <2>11. RoomsOk'
    <3> SUFFICES ASSUME NEW q \in Opens, q \notin abandoned, req'[q].asked = q,
                        req'[q].pc \notin {"unsent", "ended"}
                 PROVE room'[q].state = "live"
      BY <2>1 DEF RoomsOk
    <3>1. CASE q # o
      BY <3>1, <2>6, <2>7 DEF IInv, RoomsOk
    <3>2. CASE q = o /\ tab[t].seen = None
      BY <3>2, <2>7
    <3>3. CASE q = o /\ tab[t].seen # None
      <4>1. asked = tab[t].seen /\ asked = o
        BY <3>3, <2>6 DEF asked
      <4> QED BY <3>3, <4>1, <2>3
    <3> QED BY <3>1, <3>2, <3>3
  <2>12. TabsOk'
    <3> SUFFICES ASSUME NEW u \in Tabs
                 PROVE /\ tab'[u].seen # None => topic # None /\ req'[tab'[u].seen].pc # "unsent"
                       /\ tab'[u].pc # "idle" => tab'[u].n \in 1..MaxOpens
                       /\ tab'[u].pc = "prepared" => req'[<<u, tab'[u].n>>] = NoRequest
                       /\ \A n \in 1..MaxOpens : n > tab'[u].n => req'[<<u, n>>] = NoRequest
      BY <2>1 DEF TabsOk
    <3>1. /\ tab'[u].seen = tab[u].seen /\ tab'[u].n = tab[u].n
          /\ tab'[u].pc = IF u = t THEN "waiting" ELSE tab[u].pc
          /\ tab[u].n \in Nat
      BY <2>1, <1>0 DEF Tab
    <3>2. \A n \in 1..MaxOpens : <<u, n>> \in Opens /\ (<<u, n>> = o => u = t /\ n = tab[t].n)
      BY DEF Opens
    <3>3. tab[u].seen \in Opens \cup {None}
      BY <1>0 DEF Tab
    <3>4. tab[u].seen # None => topic # None /\ req'[tab[u].seen].pc # "unsent"
      BY <3>3, <2>6 DEF IInv, TabsOk
    <3> QED BY <3>1, <3>2, <3>4, <2>3, <2>6 DEF IInv, TabsOk
  <2>13. PersistedOk'
    BY <2>1, <2>6, <2>7, <2>9, <1>0 DEF IInv, PersistedOk
  <2> QED BY <2>8, <2>10, <2>11, <2>12, <2>13 DEF IInv
<1>3. CASE Answer(t) \/ GiveUp(t)
  <2>0. o \in Opens /\ req[o].reply \in Replies
    BY <1>3, <1>0 DEF Answer, GiveUp, IInv, TabsOk, Opens, Request
  <2>1. /\ tab[t].pc = "waiting" /\ UNCHANGED <<topic, lock, req, unsure>>
        /\ room' \in {room, Discard(o)} /\ abandoned' \in {abandoned, abandoned \cup {o}}
        /\ room' # room /\ o \notin abandoned' =>
              /\ req[o].asked = o /\ req[o].pc = "ended"
              /\ \/ req[o].reply = "ok" /\ req[o].canon # req[o].asked
                 \/ req[o].reply = "rejected"
    <3>1. CASE Answer(t)
      BY <2>0, <3>1 DEF Answer, DiscardsOn, Replies, history
    <3>2. CASE GiveUp(t)
      BY <3>2 DEF GiveUp, DiscardsOn
    <3> QED BY <1>3, <3>1, <3>2
  <2>2. o \in Opens
    BY <2>0
  <2>3. /\ room' \in [Opens -> Room]
        /\ \A q \in Opens : q # o => room'[q] = room[q]
    <3>1. [room[o] EXCEPT !.state = "deleted"] \in Room
      BY <2>2, <1>0 DEF Room
    <3>2. Discard(o) = room \/ Discard(o) = [room EXCEPT ![o] = [room[o] EXCEPT !.state = "deleted"]]
      BY <2>2, <1>0 DEF Discard
    <3>3. room' = room \/ room' = [room EXCEPT ![o] = [room[o] EXCEPT !.state = "deleted"]]
      BY <2>1, <3>2
    <3> QED BY <2>2, <3>1, <3>3, <1>0
  <2>4. /\ tab' \in [Tabs -> Tab]
        /\ tab'[t].pc = "idle" /\ tab'[t].n = tab[t].n /\ tab'[t].seen = tab[t].seen
        /\ \A u \in Tabs \ {t} : tab'[u] = tab[u]
    <3>1. req[o].canon \in Opens \cup {None}
      BY <2>2, <1>0 DEF Request
    <3>2. \/ tab' = [tab EXCEPT ![t].pc = "idle"]
          \/ tab' = [tab EXCEPT ![t].pc = "idle", ![t].adopted = req[o].canon]
          \/ tab' = [tab EXCEPT ![t].pc = "idle", ![t].adopted = tab[t].adopted]
      BY <1>3, <1>0 DEF Answer, GiveUp
    <3>3. \A a \in Opens \cup {None} : [tab[t] EXCEPT !.pc = "idle", !.adopted = a] \in Tab
      BY <1>0 DEF Tab
    <3>4. [tab[t] EXCEPT !.pc = "idle"] \in Tab /\ tab[t].adopted \in Opens \cup {None}
      BY <1>0 DEF Tab
    <3>5. CASE tab' = [tab EXCEPT ![t].pc = "idle"]
      BY <3>4, <3>5, <1>0 DEF Tab
    <3>6. CASE tab' = [tab EXCEPT ![t].pc = "idle", ![t].adopted = req[o].canon]
      BY <3>1, <3>3, <3>6, <1>0, ZenonT(60) DEF Tab
    <3>7. CASE tab' = [tab EXCEPT ![t].pc = "idle", ![t].adopted = tab[t].adopted]
      BY <3>3, <3>4, <3>7, <1>0, ZenonT(60) DEF Tab
    <3> QED BY <3>2, <3>5, <3>6, <3>7
  <2>5. TypeOK'
    BY <2>1, <2>2, <2>3, <2>4, <1>0 DEF TypeOK
  <2>6. RequestsOk'
    BY <2>1 DEF IInv, RequestsOk
  <2>7. RoomsOk'
    BY <2>1, <2>2, <2>3 DEF IInv, RoomsOk
  <2>8. TabsOk'
    <3> SUFFICES ASSUME NEW u \in Tabs
                 PROVE /\ tab'[u].seen # None => topic # None /\ req[tab'[u].seen].pc # "unsent"
                       /\ tab'[u].pc # "idle" => tab'[u].n \in 1..MaxOpens
                       /\ tab'[u].pc = "prepared" => req[<<u, tab'[u].n>>] = NoRequest
                       /\ \A n \in 1..MaxOpens : n > tab'[u].n => req[<<u, n>>] = NoRequest
      BY <2>1 DEF TabsOk
    <3> QED BY <2>4 DEF IInv, TabsOk
  <2>9. PersistedOk'
    <3>1. topic = o /\ o \notin abandoned' => room' = room
      BY <2>1, <2>2, <1>n DEF IInv, PersistedOk, Committed
    <3> QED BY <3>1, <2>1, <2>3, <1>0 DEF IInv, PersistedOk
  <2> QED BY <2>5, <2>6, <2>7, <2>8, <2>9 DEF IInv
<1>4. CASE BindUnsent(t)
  <2>1. /\ tab[t].pc = "prepared" /\ UNCHANGED <<topic, lock, req, abandoned, unsure>>
        /\ tab' = [tab EXCEPT ![t].pc = "idle"]
    BY <1>4 DEF BindUnsent, history
  <2>2. o \in Opens /\ req[o] = NoRequest
    BY <2>1 DEF IInv, TabsOk, Opens
  <2>3. room' \in [Opens -> Room] /\ \A q \in Opens \ {o} : room'[q] = room[q]
    <3> DEFINE fresh == [state |-> "live", owner |-> Viewer[t], offered |-> None]
    <3>1. fresh \in Room /\ [fresh EXCEPT !.state = "deleted"] \in Room
      BY DEF Room
    <3>2. \/ room' = room
          \/ room' = [room EXCEPT ![o] = fresh]
          \/ room' = [[room EXCEPT ![o] = fresh] EXCEPT ![o].state = "deleted"]
      BY <1>4 DEF BindUnsent, Created
    <3>3. [[room EXCEPT ![o] = fresh] EXCEPT ![o].state = "deleted"]
             = [room EXCEPT ![o] = [fresh EXCEPT !.state = "deleted"]]
      <4> HIDE DEF fresh
      <4> QED BY <2>2, <1>0
    <3> HIDE DEF fresh
    <3> QED BY <2>2, <3>1, <3>2, <3>3, <1>0
  <2>4. /\ tab' \in [Tabs -> Tab] /\ \A u \in Tabs \ {t} : tab'[u] = tab[u]
        /\ tab'[t].pc = "idle" /\ tab'[t].n = tab[t].n /\ tab'[t].seen = tab[t].seen
    BY <2>1, <1>0 DEF Tab
  <2>5. TypeOK'
    BY <2>1, <2>3, <2>4, <1>0 DEF TypeOK
  <2>6. RequestsOk' /\ RoomsOk'
    BY <2>1, <2>2, <2>3 DEF IInv, RequestsOk, RoomsOk, NoRequest
  <2>7. TabsOk'
    <3> SUFFICES ASSUME NEW u \in Tabs
                 PROVE /\ tab'[u].seen # None => topic # None /\ req[tab'[u].seen].pc # "unsent"
                       /\ tab'[u].pc # "idle" => tab'[u].n \in 1..MaxOpens
                       /\ tab'[u].pc = "prepared" => req[<<u, tab'[u].n>>] = NoRequest
                       /\ \A n \in 1..MaxOpens : n > tab'[u].n => req[<<u, n>>] = NoRequest
      BY <2>1 DEF TabsOk
    <3> QED BY <2>4 DEF IInv, TabsOk
  <2>8. topic # o
    BY <2>2, <1>n DEF IInv, PersistedOk, Committed, NoRequest, Undoing
  <2>9. PersistedOk'
    BY <2>1, <2>3, <2>8, <1>0 DEF IInv, PersistedOk
  <2> QED BY <2>5, <2>6, <2>7, <2>9 DEF IInv
<1> QED BY <1>1, <1>2, <1>3, <1>4 DEF Browse

-----------------------------------------------------------------------------
(* The theorems.                                                           *)

LEMMA InitIInv == Init => IInv
<1> SUFFICES ASSUME Init PROVE IInv
  OBVIOUS
<1> USE BindingAssumption
<1>1. NoRoom \in Room /\ NoRequest \in Request
  <2>1. "unsent" \in Steps /\ "none" \in Replies
    BY DEF Steps, Replies
  <2> QED BY <2>1 DEF NoRoom, Room, NoRequest, Request
<1>2. [pc |-> "idle", n |-> 0, seen |-> None, adopted |-> None] \in Tab
  BY DEF Tab
<1>3. TypeOK
  BY <1>1, <1>2 DEF Init, TypeOK
<1>4. RequestsOk
  BY DEF Init, RequestsOk, RequestOk, NoRequest, Unloaded, Undoing
<1>5. RoomsOk /\ PersistedOk
  BY DEF Init, RoomsOk, PersistedOk, NoRequest
<1>6. TabsOk
  BY DEF Init, TabsOk, Opens
<1> QED BY <1>3, <1>4, <1>5, <1>6 DEF IInv

LEMMA StepIInv == IInv /\ [Next]_vars => IInv'
<1> SUFFICES ASSUME IInv, [Next]_vars PROVE IInv'
  OBVIOUS
<1>1. ASSUME NEW o \in Opens, Handle(o) PROVE IInv'
  BY <1>1, OtherStepsKeep, CallsKeep DEF Handle
<1>2. ASSUME NEW t \in Tabs, Browse(t) PROVE IInv'
  BY <1>2, TabStepsKeep
<1>3. CASE UNCHANGED vars
  BY <1>3 DEF vars, IInv, TypeOK, RequestsOk, RoomsOk, TabsOk, PersistedOk
<1> QED BY <1>1, <1>2, <1>3 DEF Next

(* IInv holds in every reachable state.                                    *)
THEOREM Invariance == Spec => []IInv
BY InitIInv, StepIInv, PTL DEF Spec

(* Every variable of the binding keeps its type: a request is always in a  *)
(* known step, and works on a topic that some opening created.             *)
THEOREM TypeCorrect == Spec => []TypeOK
<1>1. IInv => TypeOK
  BY DEF IInv
<1> QED BY <1>1, Invariance, PTL

(* For any number of tabs, processes and retries, and whatever fails, the  *)
(* topic the conversation row names has not been deleted: the tab that     *)
(* created it was not refused, and one that lost a race has another topic. *)
(* The tabs that take a failure of their own for a refusal are excepted.   *)
THEOREM PersistedTopicIsLive == Spec => []PersistedTopicLive
<1>1. IInv => PersistedTopicLive
  BY DEF IInv, PersistedOk, PersistedTopicLive
<1> QED BY <1>1, Invariance, PTL

-----------------------------------------------------------------------------
(* Who owns the persisted topic: a transfer is undone after the commit     *)
(* only by a request whose answer could not be built, and that says so.    *)

OwnedOk ==
  /\ \A o \in Opens : req[o].pc \in {"verify", "commit"} /\ req[o].loaded = None
                      => room[o].owner = GroupOwner
  /\ topic # None /\ req[topic].reply # "failed" =>
        room[topic].owner = GroupOwner /\ req[topic].pc \notin Undoing

\* Apart from the topic of o, topics only pass to the group's owner.
OwnersKept(o) ==
  \A p \in Opens : \/ room'[p].owner \in {room[p].owner, GroupOwner}
                   \/ p = o /\ req'[o].pc \notin {"verify", "commit"}

LEMMA OwnedKeeps ==
  ASSUME IInv, OwnedOk, NEW o \in Opens, topic' = topic, topic # o, OwnersKept(o),
         \A p \in Opens \ {o} : req'[p] = req[p],
         req'[o].pc \in {"verify", "commit"} /\ req'[o].loaded = None
            => room'[o].owner = GroupOwner
  PROVE OwnedOk'
<1>1. topic \in Opens \cup {None}
  BY DEF IInv, TypeOK
<1>2. \A p \in Opens : req'[p].pc \in {"verify", "commit"} /\ req'[p].loaded = None
                       => room'[p].owner = GroupOwner
  BY DEF OwnedOk, OwnersKept
<1>3. topic # None /\ req'[topic].reply # "failed" =>
         room'[topic].owner = GroupOwner /\ req'[topic].pc \notin Undoing
  BY <1>1 DEF OwnedOk, OwnersKept
<1> QED BY <1>2, <1>3 DEF OwnedOk

(* The request that persisted the topic has failed, and takes the topic    *)
(* back from the group's owner.                                            *)
LEMMA OwnedOfFailed ==
  ASSUME IInv, OwnedOk, NEW o \in Opens, topic' = topic, topic = o,
         req'[o].reply = "failed", req'[o].pc \notin {"verify", "commit"},
         \A p \in Opens \ {o} : req'[p] = req[p] /\ room'[p].owner = room[p].owner
  PROVE OwnedOk'
BY DEF OwnedOk

\* How a handler goes on after a step that is not the last of its bind.
GoesOn(o) ==
  \/ Fail(o, "rejected") \/ Fail(o, "failed")
  \/ \E pc \in {"prepare", "accept", "undoAccept", "undoMode", "ended"} : Goto(o, pc)
  \/ req' = [req EXCEPT ![o].pc = "reconcile", ![o].accepted = TRUE]

LEMMA GoesOnKeeps ==
  ASSUME IInv, OwnedOk, NEW o \in Opens, topic' = topic, topic # o, GoesOn(o),
         \A p \in Opens \ {o} : room'[p].owner \in {room[p].owner, GroupOwner}
  PROVE OwnedOk'
<1>1. req \in [Opens -> Request]
  BY DEF IInv, TypeOK
<1>2. FirstUndo(o) \in {"undoGrant", "undoMode", "ended"}
  BY DEF FirstUndo
<1>3. req'[o].pc \notin {"verify", "commit"} /\ \A p \in Opens \ {o} : req'[p] = req[p]
  BY <1>1, <1>2 DEF GoesOn, Fail, Goto, Request
<1> QED BY <1>3, OwnedKeeps DEF OwnersKept

LEMMA HandlersKeepOwner ==
  ASSUME IInv, OwnedOk, NEW o \in Opens, Handle(o)
  PROVE OwnedOk'
<1>0. /\ req \in [Opens -> Request] /\ req[o] \in Request /\ room \in [Opens -> Room]
      /\ topic \in Opens \cup {None} /\ RequestOk(o, req[o], topic)
  BY DEF IInv, TypeOK, RequestsOk
<1>n. None \notin Opens
  BY BindingAssumption DEF Opens
<1>c. req[o].pc \notin {"serialize", "ended", "undoGrant", "undoAccept", "undoMode"}
      => topic # o
  BY <1>n DEF IInv, PersistedOk, Committed, Undoing
<1>u. req[o].pc \in Undoing => NameOf(o) = o
  BY <1>0 DEF RequestOk, NameOf, Undoing, Unloaded
<1>m. req[o].pc # "unsent" => NameOf(o) \in Opens /\ room[NameOf(o)] \in Room
  BY NameInOpens
<1>1. CASE Arrive(o)
  <2>1. req[o].pc = "arriving" /\ UNCHANGED <<topic, room>>
        /\ req'[o].pc = "lock" /\ \A p \in Opens \ {o} : req'[p] = req[p]
    BY <1>1, <1>0 DEF Arrive, At, Request
  <2> QED BY <2>1, <1>c, OwnedKeeps DEF OwnersKept
<1>2. CASE TakeLock(o)
  BY <1>2, <1>c, GoesOnKeeps DEF TakeLock, At, GoesOn
<1>3. CASE Prepare(o)
  <2>1. req[o].pc = "prepare" /\ UNCHANGED <<topic, room>> /\ topic # o
    BY <1>3, <1>c DEF Prepare, At
  <2>2. CASE GoesOn(o)
    BY <2>1, <2>2, GoesOnKeeps
  <2>3. CASE req' = [req EXCEPT ![o].pc = IF MustTransfer(o) THEN "offer" ELSE "reconcile",
                                ![o].requested = MustTransfer(o)]
    <3>1. req'[o].pc \in {"offer", "reconcile"} /\ \A p \in Opens \ {o} : req'[p] = req[p]
      BY <2>3, <1>0 DEF Request
    <3> QED BY <2>1, <3>1, OwnedKeeps DEF OwnersKept
  <2> QED BY <1>3, <2>2, <2>3 DEF Prepare, GoesOn
<1>4. CASE Offer(o)
  <2>1. /\ req[o].pc = "offer" /\ topic' = topic /\ topic # o /\ GoesOn(o)
        /\ room' = room \/ room' = [room EXCEPT ![NameOf(o)] =
                                        [room[NameOf(o)] EXCEPT !.offered = GroupOwner]]
    BY <1>4, <1>c DEF Offer, At, TinodeCall, GoesOn
  <2>2. \A p \in Opens : room'[p].owner = room[p].owner
    BY <2>1, <1>0, <1>m DEF Room
  <2> QED BY <2>1, <2>2, GoesOnKeeps
<1>5. CASE Accept(o)
  <2>1. /\ req[o].pc = "accept" /\ topic' = topic /\ topic # o /\ GoesOn(o)
        /\ room' = room \/ room' = [room EXCEPT ![NameOf(o)] =
                              [room[NameOf(o)] EXCEPT !.owner = GroupOwner, !.offered = None]]
    BY <1>5, <1>c DEF Accept, At, TinodeCall, GoesOn
  <2>2. \A p \in Opens : room'[p].owner \in {room[p].owner, GroupOwner}
    BY <2>1, <1>0, <1>m, ZenonT(60) DEF Room
  <2> QED BY <2>1, <2>2, GoesOnKeeps
<1>6. CASE Reconcile(o)
  <2> DEFINE after == [room[NameOf(o)] EXCEPT !.owner = GroupOwner,
                         !.offered = IF @ = GroupOwner THEN None ELSE @]
  <2>1. /\ req[o].pc = "reconcile" /\ topic' = topic /\ topic # o
        /\ room' = room \/ room' = [room EXCEPT ![NameOf(o)] = after]
        /\ GoesOn(o) \/ (Goto(o, "verify") /\ room' = [room EXCEPT ![NameOf(o)] = after])
    BY <1>6, <1>c DEF Reconcile, At, TinodeCall, GoesOn, Undoing
  <2>2. after.owner = GroupOwner
    BY <2>1, <1>m DEF Room
  <2> HIDE DEF after
  <2>3. \A p \in Opens : room'[p].owner \in {room[p].owner, GroupOwner}
    BY <2>1, <2>2, <1>0, <1>m
  <2>4. CASE GoesOn(o)
    BY <2>1, <2>3, <2>4, GoesOnKeeps
  <2>5. CASE Goto(o, "verify") /\ room' = [room EXCEPT ![NameOf(o)] = after]
    <3>1. /\ req'[o].loaded = req[o].loaded
          /\ \A p \in Opens \ {o} : req'[p] = req[p]
      BY <2>5, <1>0 DEF Goto, Request
    <3>2. req[o].loaded = None => NameOf(o) = o
      BY <2>1, <1>0 DEF RequestOk, NameOf, Unloaded
    <3> QED BY <2>1, <2>2, <2>3, <2>5, <3>1, <3>2, <1>0, OwnedKeeps DEF OwnersKept
  <2> QED BY <2>1, <2>4, <2>5
<1>7. CASE Verify(o)
  <2>1. req[o].pc = "verify" /\ UNCHANGED <<topic, room>> /\ topic # o
    BY <1>7, <1>c DEF Verify, At
  <2>2. CASE GoesOn(o)
    BY <2>1, <2>2, GoesOnKeeps
  <2>3. CASE Goto(o, "commit")
    <3>1. req'[o].loaded = req[o].loaded /\ \A p \in Opens \ {o} : req'[p] = req[p]
      BY <2>3, <1>0 DEF Goto, Request
    <3> QED BY <2>1, <3>1, OwnedKeeps DEF OwnersKept, OwnedOk
  <2> QED BY <1>7, <2>2, <2>3 DEF Verify, GoesOn
<1>8. CASE Commit(o)
  <2>1. req[o].pc = "commit" /\ room' = room /\ topic # o
    BY <1>8, <1>c DEF Commit, At
  <2>2. CASE GoesOn(o) /\ topic' = topic
    BY <2>1, <2>2, GoesOnKeeps
  <2>3. CASE /\ topic' = IF NameOf(o) # req[o].loaded THEN NameOf(o) ELSE topic
             /\ Goto(o, "serialize")
    <3>1. req'[o].pc = "serialize" /\ \A p \in Opens \ {o} : req'[p] = req[p]
      BY <2>3, <1>0 DEF Goto, Request
    <3>2. CASE topic' = topic
      BY <2>1, <3>1, <3>2, OwnedKeeps DEF OwnersKept
    <3>3. CASE topic' # topic
      <4>1. topic' = o /\ req[o].loaded = None
        BY <2>1, <2>3, <3>3, <1>0 DEF NameOf, RequestOk, Unloaded
      <4> QED BY <2>1, <3>1, <4>1 DEF OwnedOk, Undoing
    <3> QED BY <3>2, <3>3
  <2> QED BY <1>8, <2>2, <2>3 DEF Commit, GoesOn
<1>9. CASE Serialize(o)
  <2>1. req[o].pc = "serialize" /\ UNCHANGED <<topic, room>>
    BY <1>9 DEF Serialize, At
  <2>2. CASE req' = [req EXCEPT ![o].pc = "ended", ![o].reply = "ok", ![o].canon = topic]
    <3>1. /\ req'[o].pc = "ended" /\ \A p \in Opens \ {o} : req'[p] = req[p]
          /\ req[o].reply = "none"
      BY <2>1, <2>2, <1>0 DEF Request, RequestOk, Undoing
    <3> QED BY <2>1, <3>1, <1>0 DEF OwnedOk, Undoing
  <2>3. CASE Fail(o, "failed") /\ topic # o
    BY <2>1, <2>3, GoesOnKeeps DEF GoesOn
  <2>4. CASE Fail(o, "failed") /\ topic = o
    <3>1. FirstUndo(o) \in {"undoGrant", "undoMode", "ended"}
      BY DEF FirstUndo
    <3>2. /\ req'[o].reply = "failed" /\ req'[o].pc \notin {"verify", "commit"}
          /\ \A p \in Opens \ {o} : req'[p] = req[p]
      BY <2>4, <3>1, <1>0 DEF Fail, Request
    <3> QED BY <2>1, <2>4, <3>2, OwnedOfFailed
  <2> QED BY <1>9, <2>2, <2>3, <2>4 DEF Serialize
<1>10. CASE UndoGrant(o) \/ UndoAccept(o) \/ UndoMode(o)
  <2>1. /\ req[o].pc \in Undoing /\ topic' = topic /\ NameOf(o) = o
        /\ \E pc \in {"undoAccept", "undoMode", "ended"} : Goto(o, pc)
    BY <1>10, <1>u DEF UndoGrant, UndoAccept, UndoMode, At, TinodeCall, Undoing
  <2>2. \A p \in Opens \ {o} : room'[p] = room[p]
    BY <1>10, <2>1, <1>0 DEF UndoGrant, UndoAccept, UndoMode, TinodeCall
  <2>3. CASE topic # o
    BY <2>1, <2>2, <2>3, GoesOnKeeps DEF GoesOn
  <2>4. CASE topic = o
    <3>1. req[o].reply = "failed"
      BY <2>1, <2>4, <1>n DEF OwnedOk
    <3>2. /\ req'[o].reply = "failed" /\ req'[o].pc \notin {"verify", "commit"}
          /\ \A p \in Opens \ {o} : req'[p] = req[p]
      BY <2>1, <3>1, <1>0 DEF Goto, Request
    <3> QED BY <2>1, <2>2, <2>4, <3>2, OwnedOfFailed
  <2> QED BY <2>3, <2>4
<1> QED BY <1>1, <1>2, <1>3, <1>4, <1>5, <1>6, <1>7, <1>8, <1>9, <1>10 DEF Handle

LEMMA TabsKeepOwner ==
  ASSUME IInv, OwnedOk, NEW t \in Tabs, Browse(t)
  PROVE OwnedOk'
<1> DEFINE o == <<t, tab[t].n>>
<1>0. /\ req \in [Opens -> Request] /\ room \in [Opens -> Room]
      /\ topic \in Opens \cup {None}
  BY DEF IInv, TypeOK
<1>1. CASE OpenGroup(t)
  BY <1>1 DEF OpenGroup, OwnedOk
<1>2. CASE Bind(t)
  <2>1. o \in Opens /\ req[o] = NoRequest /\ topic' = topic
    BY <1>2 DEF Bind, IInv, TabsOk, Opens
  <2>2. topic # o
    BY <2>1, BindingAssumption DEF IInv, PersistedOk, Committed, NoRequest, Undoing, Opens
  <2>3. /\ \A p \in Opens \ {o} : req'[p] = req[p] /\ room'[p] = room[p]
        /\ req'[o].pc = "arriving"
    BY <1>2, <2>1, <1>0 DEF Bind, Created, Request
  <2> QED BY <2>1, <2>2, <2>3, OwnedKeeps DEF OwnersKept
<1>3. CASE Answer(t) \/ GiveUp(t)
  <2>1. o \in Opens /\ UNCHANGED <<topic, req>> /\ room' \in {room, Discard(o)}
    BY <1>3 DEF Answer, GiveUp, IInv, TabsOk, Opens
  <2>2. \A p \in Opens : room'[p].owner = room[p].owner
    BY <2>1, <1>0, SMTT(30) DEF Discard, Room
  <2> QED BY <2>1, <2>2, <1>0 DEF OwnedOk
<1>4. CASE BindUnsent(t)
  <2>1. o \in Opens /\ req[o] = NoRequest /\ UNCHANGED <<topic, req>>
    BY <1>4 DEF BindUnsent, IInv, TabsOk, Opens
  <2>2. topic # o
    BY <2>1, BindingAssumption DEF IInv, PersistedOk, Committed, NoRequest, Undoing, Opens
  <2>3. \A p \in Opens \ {o} : room'[p] = room[p]
    BY <1>4, <2>1, <1>0 DEF BindUnsent, Created
  <2> QED BY <2>1, <2>2, <2>3, <1>0 DEF OwnedOk, NoRequest
<1> QED BY <1>1, <1>2, <1>3, <1>4 DEF Browse

(* Whoever opened the group first, however the tabs race and whatever      *)
(* fails, the persisted topic belongs in Tinode to the group's owner, but  *)
(* for one that was persisted by a request that failed after its commit.   *)
THEOREM OwnerOwnsPersistedTopic == Spec => []GroupOwnerOwnsTopic
<1>1. Init => OwnedOk
  BY BindingAssumption DEF Init, OwnedOk, NoRequest
<1>2. IInv /\ OwnedOk /\ [Next]_vars => OwnedOk'
  <2> SUFFICES ASSUME IInv, OwnedOk, [Next]_vars PROVE OwnedOk'
    OBVIOUS
  <2>1. ASSUME NEW o \in Opens, Handle(o) PROVE OwnedOk'
    BY <2>1, HandlersKeepOwner
  <2>2. ASSUME NEW t \in Tabs, Browse(t) PROVE OwnedOk'
    BY <2>2, TabsKeepOwner
  <2>3. CASE UNCHANGED vars
    BY <2>3 DEF vars, OwnedOk
  <2> QED BY <2>1, <2>2, <2>3 DEF Next
<1>3. OwnedOk => GroupOwnerOwnsTopic
  BY DEF OwnedOk, GroupOwnerOwnsTopic
<1> QED BY <1>1, <1>2, <1>3, Invariance, PTL DEF Spec


-----------------------------------------------------------------------------
(* A bind that failed.  Each call finds the topic as the one before it     *)
(* left it, or is refused because the topic is gone; and the only call     *)
(* that other requests make on the topic leaves it as it is, because they  *)
(* know it only once its own request has committed it.  What one cannot    *)
(* say is said by unsure: there the handler does not know whose it is.     *)

After == {"serialize", "ended"} \cup Undoing

\* The request that created the topic o has committed it.
Settled(o) ==
  /\ req[o].asked = o /\ req[o].loaded = None /\ req[o].pc \in After
  /\ req[o].requested => req[o].accepted

NamesOk ==
  /\ \A p, o \in Opens : req[p].loaded = o \/ (req[p].asked = o /\ p # o) => Settled(o)
  /\ \A t \in Tabs : tab[t].seen # None => Settled(tab[t].seen)

Has(r, owner, offered) == r.owner = owner /\ r.offered = offered

\* The topic r of the opening o, when its request q has got so far.
Held(o, q, r) ==
  /\ q.requested => ViewerOf(o) # GroupOwner
  /\ q.loaded # None => Has(r, ViewerOf(o), None)
  /\ q.loaded = None =>
     /\ q.pc \in {"arriving", "lock", "prepare", "offer"} =>
           ~q.accepted /\ Has(r, ViewerOf(o), None)
     /\ q.pc = "accept" => ~q.accepted /\ Has(r, ViewerOf(o), GroupOwner)
     /\ q.pc \in {"reconcile", "verify", "commit", "serialize"} =>
           /\ Has(r, GroupOwner, None)
           /\ IF q.requested THEN q.accepted ELSE ViewerOf(o) = GroupOwner
     /\ q.pc = "undoGrant" => Has(r, GroupOwner, None)
     /\ q.pc = "undoAccept" => Has(r, GroupOwner, ViewerOf(o))
     /\ q.pc = "undoMode" =>
           \/ Has(r, ViewerOf(o), None)
           \/ ~q.accepted /\ Has(r, ViewerOf(o), GroupOwner)
     /\ q.pc = "ended" /\ r.state = "live" =>
           \/ q.reply = "ok" /\ Has(r, GroupOwner, None)
           \/ q.reply # "ok" /\ Has(r, ViewerOf(o), None)
     /\ q.pc \in Undoing => q.reply # "ok"

HeldOk == \A o \in Opens \ unsure : req[o].asked = o => Held(o, req[o], room[o])

\* What every step of a handler keeps, and where it may lead.
LEMMA HandlerFrame ==
  ASSUME IInv, NEW o \in Opens, Handle(o)
  PROVE  /\ UNCHANGED tab
         /\ req[o].pc \notin {"unsent", "ended"}
         /\ \A p \in Opens : p # o => req'[p] = req[p]
         /\ req'[o].asked = req[o].asked
         /\ req'[o].loaded = IF req[o].pc = "arriving" THEN topic ELSE req[o].loaded
         /\ req[o].pc \in After => /\ req'[o].pc \in After
                                  /\ req'[o].requested = req[o].requested
                                  /\ req'[o].accepted = req[o].accepted
         /\ unsure \subseteq unsure'
<1>0. req \in [Opens -> Request] /\ req[o] \in Request
  BY DEF IInv, TypeOK
<1>h. unsure \subseteq unsure'
  BY DEF Handle, Arrive, TakeLock, Prepare, Offer, Accept, Reconcile, Verify,
     Commit, Serialize, UndoGrant, UndoAccept, UndoMode, TinodeCall, history
<1>1. UNCHANGED tab
  BY DEF Handle, Arrive, TakeLock, Prepare, Offer, Accept, Reconcile, Verify,
     Commit, Serialize, UndoGrant, UndoAccept, UndoMode, TinodeCall
<1>2. CASE Arrive(o)
  BY <1>0, <1>1, <1>h, <1>2 DEF Arrive, At, Request, After, Undoing
<1>3. CASE Prepare(o) /\ req' = [req EXCEPT ![o].pc = IF MustTransfer(o) THEN "offer" ELSE "reconcile",
                                            ![o].requested = MustTransfer(o)]
  <2>1. req[o].pc = "prepare"
    BY <1>3 DEF Prepare, At
  <2> QED  BY <1>0, <1>1, <1>h, <1>3, <2>1 DEF After, Undoing, Request
<1>4. CASE Serialize(o)
  <2>1. /\ req[o].pc = "serialize"
        /\ \/ Fail(o, "failed")
           \/ req' = [req EXCEPT ![o].pc = "ended", ![o].reply = "ok", ![o].canon = topic]
    BY <1>4 DEF Serialize, At
  <2>2. FirstUndo(o) \in After
    BY DEF FirstUndo, After, Undoing
  <2> QED  BY <1>0, <1>1, <1>h, <2>1, <2>2 DEF Fail, After, Request
<1>5. CASE /\ ~Arrive(o) /\ ~Serialize(o)
           /\ ~(Prepare(o) /\ req' = [req EXCEPT ![o].pc = IF MustTransfer(o) THEN "offer" ELSE "reconcile",
                                                 ![o].requested = MustTransfer(o)])
  <2>1. /\ req[o].pc \notin {"unsent", "arriving", "ended", "serialize"}
        /\ \/ \E reply \in Replies : Fail(o, reply)
           \/ \E pc \in Steps : Goto(o, pc) /\ (req[o].pc \in Undoing => pc \in After)
           \/ /\ req' = [req EXCEPT ![o].pc = "reconcile", ![o].accepted = TRUE]
              /\ req[o].pc = "accept"
    <3>1. CASE TakeLock(o)
      BY <3>1 DEF TakeLock, At, Steps, Awaiting, Undoing
    <3>2. CASE Prepare(o)
      BY <1>5, <3>2 DEF Prepare, At, Replies
    <3>3. CASE Offer(o)
      BY <3>3 DEF Offer, At, TinodeCall, Steps, Awaiting, Undoing, Replies
    <3>4. CASE Accept(o)
      BY <3>4 DEF Accept, At, TinodeCall, Undoing, Replies
    <3>5. CASE Reconcile(o)
      BY <3>5 DEF Reconcile, At, TinodeCall, Steps, Awaiting, Undoing, Replies
    <3>6. CASE Verify(o)
      BY <3>6 DEF Verify, At, Steps, Synchronous, Undoing, Replies
    <3>7. CASE Commit(o)
      BY <3>7 DEF Commit, At, Steps, Synchronous, Undoing, Replies
    <3>8. CASE UndoGrant(o)
      BY <3>8 DEF UndoGrant, At, TinodeCall, Steps, Awaiting, Undoing, After
    <3>9. CASE UndoAccept(o)
      BY <3>9 DEF UndoAccept, At, TinodeCall, Steps, Awaiting, Undoing, After
    <3>10. CASE UndoMode(o)
      BY <3>10 DEF UndoMode, At, TinodeCall, Steps, Awaiting, Undoing, After
    <3> QED  BY <1>5, <3>1, <3>2, <3>3, <3>4, <3>5, <3>6, <3>7, <3>8, <3>9, <3>10 DEF Handle
  <2>2. CASE \E reply \in Replies : Fail(o, reply)
    <3>1. FirstUndo(o) \in After
      BY DEF FirstUndo, After, Undoing
    <3> QED  BY <1>0, <1>1, <1>h, <2>1, <2>2, <3>1, ZenonT(60) DEF Fail, Request
  <2>3. CASE \E pc \in Steps : Goto(o, pc) /\ (req[o].pc \in Undoing => pc \in After)
    BY <1>0, <1>1, <1>h, <2>1, <2>3 DEF Goto, Request, After
  <2>4. CASE /\ req' = [req EXCEPT ![o].pc = "reconcile", ![o].accepted = TRUE]
             /\ req[o].pc = "accept"
    BY <1>0, <1>1, <1>h, <2>1, <2>4 DEF Request, After, Undoing
  <2> QED  BY <2>1, <2>2, <2>3, <2>4
<1> QED  BY <1>h, <1>2, <1>3, <1>4, <1>5

\* A request names the topic of another one only after that has committed.
LEMMA HandlerNames ==
  ASSUME IInv, NamesOk, NEW o \in Opens, Handle(o)
  PROVE  NamesOk'
<1>0. None \notin Opens /\ topic \in Opens \cup {None}
  BY BindingAssumption DEF Opens, IInv, TypeOK
<1>1. ASSUME NEW q \in Opens, Settled(q) PROVE Settled(q)'
  <2>1. req[q].pc \in After /\ req[q].pc # "arriving"
    BY <1>1 DEF Settled, After, Undoing
  <2> QED  BY <1>1, <2>1, HandlerFrame DEF Settled
<1>2. topic # None => Settled(topic)
  BY DEF IInv, PersistedOk, Committed, Settled, After
<1>3. ASSUME NEW p \in Opens, NEW q \in Opens,
             req'[p].loaded = q \/ (req'[p].asked = q /\ p # q)
      PROVE  Settled(q)'
  <2>1. \/ req[p].loaded = q \/ (req[p].asked = q /\ p # q)
        \/ topic = q
    BY <1>3, HandlerFrame
  <2>2. Settled(q)
    BY <1>0, <1>2, <2>1 DEF NamesOk
  <2> QED  BY <1>1, <2>2
<1>4. ASSUME NEW t \in Tabs, tab'[t].seen # None PROVE Settled(tab[t].seen)'
  <2>1. tab' = tab /\ tab[t].seen \in Opens /\ Settled(tab[t].seen)
    BY <1>4, HandlerFrame DEF IInv, TypeOK, Tab, NamesOk
  <2>2. PICK s \in Opens : s = tab[t].seen
    BY <2>1
  <2>3. Settled(s)'
    BY <1>1, <2>1, <2>2
  <2> QED  BY <2>1, <2>2, <2>3
<1> QED  BY <1>3, <1>4 DEF NamesOk

\* A handler changes the topic of another opening in no way that matters.
LEMMA HandlerElsewhere ==
  ASSUME IInv, NamesOk, HeldOk, NEW o \in Opens, Handle(o), NEW q \in Opens \ unsure,
         \/ q # o
         \/ q = o /\ req[o].loaded # None
  PROVE  /\ room'[q].owner = room[q].owner /\ room'[q].offered = room[q].offered
         /\ room'[q].state = room[q].state
<1> USE BindingAssumption
<1>0. /\ req \in [Opens -> Request] /\ room \in [Opens -> Room] /\ req[o] \in Request
      /\ RequestOk(o, req[o], topic) /\ None \notin Opens
      /\ req[o].pc # "unsent" /\ NameOf(o) \in Opens
  BY HandlerFrame, NameInOpens DEF IInv, TypeOK, RequestsOk, Opens
<1>1. CASE NameOf(o) # q
  <2>1. room' = room \/ \E r : room' = [room EXCEPT ![NameOf(o)] = r]
    BY DEF Handle, Arrive, TakeLock, Prepare, Offer, Accept, Reconcile, Verify,
       Commit, Serialize, UndoGrant, UndoAccept, UndoMode, TinodeCall
  <2> QED  BY <1>0, <1>1, <2>1
<1>2. CASE NameOf(o) = q
  <2>1. Settled(q)
    BY <1>0, <1>2 DEF NamesOk, NameOf
  <2>2. q # o /\ ~req[o].requested
    BY <1>0, <1>2, <2>1 DEF Settled, RequestOk, NameOf
  <2>3. req[o].pc \notin {"offer", "accept"} \cup Undoing
    BY <1>0, <2>2 DEF RequestOk
  <2>4. room[q].state = "live" => room[q].offered # GroupOwner
    <3>1. Held(q, req[q], room[q]) /\ RequestOk(q, req[q], topic)
      BY <2>1 DEF HeldOk, Settled, IInv, RequestsOk
    <3> QED  BY <2>1, <3>1 DEF Held, Has, RequestOk, Settled, After, Undoing
  <2>5. CASE Reconcile(o)
    <3> DEFINE r == room[q]
    <3>1. \/ room' = room
          \/ /\ OwnedBy(r, GroupOwner) \/ OfferedTo(r, GroupOwner)
             /\ room' = [room EXCEPT ![q] =
                   [r EXCEPT !.owner = GroupOwner,
                             !.offered = IF @ = GroupOwner THEN None ELSE @]]
      BY <1>2, <2>5 DEF Reconcile, TinodeCall
    <3>2. r \in Room
      BY <1>0
    <3> DEFINE after == [r EXCEPT !.owner = GroupOwner,
                                  !.offered = IF @ = GroupOwner THEN None ELSE @]
    <3>3. /\ after.owner = GroupOwner /\ after.state = r.state
          /\ r.state = "live" => after.offered = r.offered
      BY <2>4, <3>2 DEF Room
    <3>4. room' # room => room'[q] = after /\ r.owner = GroupOwner /\ r.state = "live"
      BY <1>0, <2>4, <3>1 DEF OwnedBy, OfferedTo
    <3> QED  BY <3>3, <3>4
  <2>6. CASE ~Reconcile(o)
    <3>1. room' = room
      BY <2>3, <2>6 DEF Handle, Arrive, TakeLock, Prepare, Offer, Accept, Verify,
         Commit, Serialize, UndoGrant, UndoAccept, UndoMode, At, Undoing
    <3> QED  BY <3>1
  <2> QED  BY <2>5, <2>6
<1> QED  BY <1>1, <1>2

\* A bind that fails starts its undoing where the transfer stopped.
LEMMA FailHeld ==
  ASSUME IInv, NEW o \in Opens, NEW reply \in {"rejected", "failed"}, Fail(o, reply),
         req[o].loaded = None,
         \/ ~req[o].requested /\ Has(room'[o], ViewerOf(o), None)
         \/ /\ req[o].requested /\ req[o].accepted /\ ViewerOf(o) # GroupOwner
            /\ Has(room'[o], GroupOwner, None)
         \/ /\ req[o].requested /\ ~req[o].accepted /\ ViewerOf(o) # GroupOwner
            /\ room'[o].owner = ViewerOf(o) /\ room'[o].offered \in {None, GroupOwner}
  PROVE  Held(o, req'[o], room'[o])
<1>1. req \in [Opens -> Request] /\ req[o] \in Request
  BY DEF IInv, TypeOK
<1>2. /\ req'[o].pc = FirstUndo(o) /\ req'[o].reply = reply /\ req'[o].loaded = None
      /\ req'[o].requested = req[o].requested /\ req'[o].accepted = req[o].accepted
  BY <1>1 DEF Fail, Request
<1>3. CASE ~req[o].requested
  BY <1>2, <1>3 DEF FirstUndo, Held, Undoing
<1>4. CASE req[o].requested /\ req[o].accepted
  <2>1. FirstUndo(o) = "undoGrant"
    BY <1>4 DEF FirstUndo
  <2> QED  BY <1>2, <1>4, <2>1 DEF Held, Undoing
<1>5. CASE req[o].requested /\ ~req[o].accepted
  <2>1. FirstUndo(o) = "undoMode"
    BY <1>5 DEF FirstUndo
  <2> QED  BY <1>2, <1>5, <2>1 DEF Held, Has, Undoing
<1> QED  BY <1>3, <1>4, <1>5

\* A handler that binds the topic its tab created takes that from hand to hand,
\* and back if the bind fails.
LEMMA HandlerHolds ==
  ASSUME IInv, NEW o \in Opens, Handle(o), o \notin unsure',
         req[o].asked = o, req[o].loaded = None, Held(o, req[o], room[o])
  PROVE  Held(o, req'[o], room'[o])
<1> USE BindingAssumption
<1> DEFINE V == ViewerOf(o)
<1>0. /\ req \in [Opens -> Request] /\ room \in [Opens -> Room]
      /\ req[o] \in Request /\ room[o] \in Room
      /\ RequestOk(o, req[o], topic) /\ None \notin Opens /\ None \notin Users
      /\ NameOf(o) = o /\ V \in Users
  BY DEF IInv, TypeOK, RequestsOk, Opens, NameOf, ViewerOf
<1> HIDE DEF V
<1>2. CASE Arrive(o)
  <2>1. /\ req[o].pc = "arriving" /\ room' = room /\ req'[o].pc = "lock"
        /\ req'[o].accepted = req[o].accepted /\ req'[o].requested = req[o].requested
        /\ req'[o].reply = req[o].reply
    BY <1>0, <1>2 DEF Arrive, At, Request
  <2> QED  BY <2>1 DEF Held, Undoing
<1>3. CASE TakeLock(o)
  <2>1. /\ req[o].pc = "lock" /\ room' = room /\ req'[o] = [req[o] EXCEPT !.pc = "prepare"]
    BY <1>0, <1>3 DEF TakeLock, At, Goto
  <2> QED  BY <1>0, <2>1 DEF Held, Undoing, Request
<1>4. CASE Prepare(o)
  <2>1. /\ req[o].pc = "prepare" /\ room' = room /\ ~req[o].requested
        /\ ~req[o].accepted /\ Has(room[o], V, None)
    BY <1>0, <1>4 DEF Prepare, At, RequestOk, Unloaded, Held, V
  <2>2. CASE \E reply \in {"rejected", "failed"} : Fail(o, reply)
    BY <2>1, <2>2, FailHeld DEF V
  <2>3. CASE req' = [req EXCEPT ![o].pc = IF MustTransfer(o) THEN "offer" ELSE "reconcile",
                                ![o].requested = MustTransfer(o)]
    <3>1. /\ req'[o].pc = IF MustTransfer(o) THEN "offer" ELSE "reconcile"
          /\ req'[o].requested = MustTransfer(o) /\ req'[o].loaded = None
          /\ req'[o].accepted = req[o].accepted
      BY <1>0, <2>3 DEF Request
    <3>2. MustTransfer(o) <=> V # GroupOwner
      BY DEF MustTransfer, V
    <3>3. CASE MustTransfer(o)
      BY <2>1, <3>1, <3>2, <3>3 DEF Held, Undoing, V
    <3>4. CASE ~MustTransfer(o)
      BY <2>1, <3>1, <3>2, <3>4 DEF Held, Undoing, Has, V
    <3> QED  BY <3>3, <3>4
  <2> QED  BY <1>4, <2>2, <2>3 DEF Prepare
<1>5. CASE Offer(o)
  <2>1. /\ req[o].pc = "offer" /\ Has(room[o], V, None) /\ ~req[o].accepted
        /\ req[o].requested /\ V # GroupOwner
    BY <1>0, <1>5 DEF Offer, At, Held, RequestOk, V
  <2> DEFINE after == [room[o] EXCEPT !.offered = GroupOwner]
  <2>2. Has(after, V, GroupOwner)
    BY <1>0, <2>1 DEF Has, Room
  <2> HIDE DEF after
  <2>3. \/ room' = [room EXCEPT ![o] = after] /\ Goto(o, "accept")
        \/ /\ room' \in {room, [room EXCEPT ![o] = after]}
           /\ \E reply \in {"rejected", "failed"} : Fail(o, reply)
    BY <1>0, <1>5, <2>1 DEF Offer, TinodeCall, Undoing, after
  <2>4. CASE room' = [room EXCEPT ![o] = after] /\ Goto(o, "accept")
    <3>1. req'[o] = [req[o] EXCEPT !.pc = "accept"] /\ room'[o] = after
      BY <1>0, <2>4 DEF Goto
    <3> QED  BY <1>0, <2>1, <2>2, <3>1 DEF Held, Undoing, Request, V
  <2>5. CASE /\ room' \in {room, [room EXCEPT ![o] = after]}
             /\ \E reply \in {"rejected", "failed"} : Fail(o, reply)
    <3>1. room'[o] \in {room[o], after}
      BY <1>0, <2>5
    <3>2. room'[o].owner = V /\ room'[o].offered \in {None, GroupOwner}
      BY <2>1, <2>2, <3>1 DEF Has
    <3> QED  BY <2>1, <2>5, <3>2, FailHeld DEF V
  <2> QED  BY <2>3, <2>4, <2>5
<1>6. CASE Accept(o)
  <2>1. /\ req[o].pc = "accept" /\ Has(room[o], V, GroupOwner) /\ ~req[o].accepted
        /\ req[o].requested /\ V # GroupOwner
    BY <1>0, <1>6 DEF Accept, At, Held, RequestOk, V
  <2> DEFINE after == [room[o] EXCEPT !.owner = GroupOwner, !.offered = None]
  <2>2. Has(after, GroupOwner, None)
    BY <1>0 DEF Has, Room
  <2> HIDE DEF after
  <2>3. \/ /\ room' = [room EXCEPT ![o] = after]
           /\ req' = [req EXCEPT ![o].pc = "reconcile", ![o].accepted = TRUE]
        \/ room' = room /\ \E reply \in {"rejected", "failed"} : Fail(o, reply)
    BY <1>0, <1>6, <2>1 DEF Accept, TinodeCall, Undoing, after
  <2>4. CASE /\ room' = [room EXCEPT ![o] = after]
             /\ req' = [req EXCEPT ![o].pc = "reconcile", ![o].accepted = TRUE]
    <3>1. /\ req'[o].pc = "reconcile" /\ req'[o].accepted /\ req'[o].requested
          /\ req'[o].loaded = None /\ room'[o] = after
      BY <1>0, <2>1, <2>4 DEF Request
    <3> QED  BY <2>1, <2>2, <3>1 DEF Held, Undoing, V
  <2>5. CASE room' = room /\ \E reply \in {"rejected", "failed"} : Fail(o, reply)
    <3>1. room'[o].owner = V /\ room'[o].offered \in {None, GroupOwner}
      BY <2>1, <2>5 DEF Has
    <3> QED  BY <2>1, <2>5, <3>1, FailHeld DEF V
  <2> QED  BY <2>3, <2>4, <2>5
<1>7. CASE Reconcile(o)
  <2>1. /\ req[o].pc = "reconcile" /\ Has(room[o], GroupOwner, None)
        /\ IF req[o].requested THEN req[o].accepted /\ V # GroupOwner ELSE V = GroupOwner
    BY <1>0, <1>7 DEF Reconcile, At, Held, V
  <2> DEFINE after == [room[o] EXCEPT !.owner = GroupOwner,
                             !.offered = IF @ = GroupOwner THEN None ELSE @]
  <2>2. Has(after, GroupOwner, None)
    BY <1>0, <2>1 DEF Has, Room
  <2> HIDE DEF after
  <2>3. /\ room' \in {room, [room EXCEPT ![o] = after]}
        /\ Goto(o, "verify") \/ \E reply \in {"rejected", "failed"} : Fail(o, reply)
    BY <1>0, <1>7, <2>1 DEF Reconcile, TinodeCall, Undoing, after
  <2>4. Has(room'[o], GroupOwner, None)
    BY <1>0, <2>1, <2>2, <2>3
  <2>5. CASE Goto(o, "verify")
    <3>1. req'[o] = [req[o] EXCEPT !.pc = "verify"]
      BY <1>0, <2>5 DEF Goto
    <3> QED  BY <1>0, <2>1, <2>4, <3>1 DEF Held, Undoing, Request, V
  <2>6. CASE \E reply \in {"rejected", "failed"} : Fail(o, reply)
    BY <2>1, <2>4, <2>6, FailHeld DEF V
  <2> QED  BY <2>3, <2>5, <2>6
<1>8. CASE Verify(o) \/ Commit(o) \/ Serialize(o)
  <2>1. /\ req[o].pc \in {"verify", "commit", "serialize"} /\ room' = room
        /\ Has(room[o], GroupOwner, None)
        /\ IF req[o].requested THEN req[o].accepted /\ V # GroupOwner ELSE V = GroupOwner
    BY <1>8 DEF Verify, Commit, Serialize, At, Held, V
  <2>2. CASE \E reply \in {"rejected", "failed"} : Fail(o, reply)
    BY <2>1, <2>2, FailHeld DEF V
  <2>3. ASSUME NEW pc \in {"commit", "serialize"}, Goto(o, pc)
        PROVE  Held(o, req'[o], room'[o])
    <3>1. req'[o] = [req[o] EXCEPT !.pc = pc]
      BY <1>0, <2>3 DEF Goto
    <3> QED  BY <1>0, <2>1, <3>1 DEF Held, Undoing, Request, V
  <2>4. CASE req' = [req EXCEPT ![o].pc = "ended", ![o].reply = "ok", ![o].canon = topic]
    <3>1. /\ req'[o].pc = "ended" /\ req'[o].reply = "ok" /\ req'[o].loaded = None
          /\ req'[o].requested = req[o].requested
      BY <1>0, <2>4 DEF Request
    <3> QED  BY <2>1, <3>1 DEF Held, Undoing, V
  <2> QED  BY <1>8, <2>2, <2>3, <2>4 DEF Verify, Commit, Serialize
<1>9. CASE UndoGrant(o)
  <2>1. /\ req[o].pc = "undoGrant" /\ Has(room[o], GroupOwner, None)
        /\ req[o].reply # "ok" /\ req[o].requested /\ V # GroupOwner
    BY <1>0, <1>9 DEF UndoGrant, At, Held, RequestOk, Undoing, V
  <2> DEFINE after == [room[o] EXCEPT !.offered = V]
  <2>2. Has(after, GroupOwner, V)
    BY <1>0, <2>1 DEF Has, Room
  <2> HIDE DEF after
  <2>3. \/ room' = [room EXCEPT ![o] = after] /\ Goto(o, "undoAccept")
        \/ room' = room /\ Goto(o, "ended") /\ ~OwnedBy(room[o], GroupOwner)
    BY <1>0, <1>9, <2>1 DEF UndoGrant, TinodeCall, Undoing, after, V
  <2>4. CASE room' = [room EXCEPT ![o] = after] /\ Goto(o, "undoAccept")
    <3>1. req'[o] = [req[o] EXCEPT !.pc = "undoAccept"] /\ room'[o] = after
      BY <1>0, <2>4 DEF Goto
    <3> QED  BY <1>0, <2>1, <2>2, <3>1 DEF Held, Undoing, Request, V
  <2>5. CASE room' = room /\ Goto(o, "ended") /\ ~OwnedBy(room[o], GroupOwner)
    <3>1. req'[o] = [req[o] EXCEPT !.pc = "ended"] /\ room[o].state # "live"
      BY <1>0, <2>1, <2>5 DEF Goto, OwnedBy, Has
    <3> QED  BY <1>0, <2>1, <2>5, <3>1 DEF Held, Undoing, Request, V
  <2> QED  BY <2>3, <2>4, <2>5
<1>10. CASE UndoAccept(o)
  <2>1. /\ req[o].pc = "undoAccept" /\ Has(room[o], GroupOwner, V)
        /\ req[o].reply # "ok" /\ req[o].requested /\ V # GroupOwner
    BY <1>0, <1>10 DEF UndoAccept, At, Held, RequestOk, Undoing, V
  <2> DEFINE after == [room[o] EXCEPT !.owner = V, !.offered = None]
  <2>2. Has(after, V, None)
    BY <1>0 DEF Has, Room
  <2> HIDE DEF after
  <2>3. \/ room' = [room EXCEPT ![o] = after] /\ Goto(o, "undoMode")
        \/ room' = room /\ Goto(o, "ended") /\ ~OfferedTo(room[o], V)
    BY <1>0, <1>10, <2>1 DEF UndoAccept, TinodeCall, Undoing, after, V
  <2>4. CASE room' = [room EXCEPT ![o] = after] /\ Goto(o, "undoMode")
    <3>1. req'[o] = [req[o] EXCEPT !.pc = "undoMode"] /\ room'[o] = after
      BY <1>0, <2>4 DEF Goto
    <3> QED  BY <1>0, <2>1, <2>2, <3>1 DEF Held, Undoing, Request, V
  <2>5. CASE room' = room /\ Goto(o, "ended") /\ ~OfferedTo(room[o], V)
    <3>1. req'[o] = [req[o] EXCEPT !.pc = "ended"] /\ room[o].state # "live"
      BY <1>0, <2>1, <2>5 DEF Goto, OfferedTo, Has
    <3> QED  BY <1>0, <2>1, <2>5, <3>1 DEF Held, Undoing, Request, V
  <2> QED  BY <2>3, <2>4, <2>5
<1>11. CASE UndoMode(o)
  <2>1. /\ req[o].pc = "undoMode" /\ room[o].owner = V
        /\ req[o].reply # "ok" /\ req[o].requested /\ V # GroupOwner
    BY <1>0, <1>11 DEF UndoMode, At, Held, Has, RequestOk, Undoing, V
  <2> DEFINE after == [room[o] EXCEPT !.offered = None]
  <2>2. Has(after, V, None)
    BY <1>0, <2>1 DEF Has, Room
  <2> HIDE DEF after
  <2>3. \/ room' = [room EXCEPT ![o] = after] /\ Goto(o, "ended")
        \/ room' = room /\ Goto(o, "ended") /\ ~OwnedBy(room[o], V)
    BY <1>0, <1>11, <2>1 DEF UndoMode, TinodeCall, Undoing, after, V
  <2>4. req'[o] = [req[o] EXCEPT !.pc = "ended"]
    BY <1>0, <2>3 DEF Goto
  <2>5. room'[o].state = "live" => Has(room'[o], V, None)
    BY <1>0, <2>1, <2>2, <2>3 DEF OwnedBy
  <2> QED  BY <1>0, <2>1, <2>4, <2>5 DEF Held, Undoing, Request, V
<1> QED  BY <1>2, <1>3, <1>4, <1>5, <1>6, <1>7, <1>8, <1>9, <1>10, <1>11 DEF Handle

\* No step of a handler disturbs what other requests rely on.
LEMMA HandlersHold ==
  ASSUME IInv, NamesOk, HeldOk, NEW o \in Opens, Handle(o)
  PROVE  HeldOk'
<1> SUFFICES ASSUME NEW q \in Opens, q \notin unsure', req'[q].asked = q
             PROVE  Held(q, req'[q], room'[q])
  BY DEF HeldOk
<1>1. q \notin unsure /\ req[q].asked = q /\ Held(q, req[q], room[q])
  BY HandlerFrame DEF HeldOk
<1>2. CASE q # o
  BY <1>1, <1>2, HandlerFrame, HandlerElsewhere DEF Held, Has
<1>3. CASE q = o /\ req[o].loaded = None
  BY <1>1, <1>3, HandlerHolds
<1>4. CASE q = o /\ req[o].loaded # None
  <2>1. RequestOk(o, req[o], topic) /\ req \in [Opens -> Request] /\ req[o] \in Request
    BY DEF IInv, TypeOK, RequestsOk
  <2>2. req[o].pc \notin Unloaded /\ ~req[o].requested
    BY <1>4, <2>1 DEF RequestOk
  <2>3. req'[o].loaded = req[o].loaded
    BY <2>2, HandlerFrame DEF Unloaded
  <2>4. ~req'[o].requested
    <3>1. CASE Prepare(o)
      <4>1. ~MustTransfer(o)
        BY <1>4 DEF MustTransfer
      <4> QED  BY <2>1, <2>2, <3>1, <4>1 DEF Prepare, Fail, Request
    <3>2. CASE ~Prepare(o)
      <4>1. /\ ~Accept(o) /\ ~Arrive(o)
        BY <2>1, <2>2 DEF Accept, Arrive, At, RequestOk, Unloaded
      <4>2. \/ \E reply \in {"rejected", "failed"} : Fail(o, reply)
            \/ \E pc : Goto(o, pc)
            \/ req' = [req EXCEPT ![o].pc = "ended", ![o].reply = "ok", ![o].canon = topic]
        BY <3>2, <4>1 DEF Handle, TakeLock, Offer, Reconcile, Verify, Commit,
           Serialize, UndoGrant, UndoAccept, UndoMode, TinodeCall
      <4> QED  BY <2>1, <2>2, <4>2 DEF Fail, Goto, Request
    <3> QED  BY <3>1, <3>2
  <2>5. room'[o].owner = room[o].owner /\ room'[o].offered = room[o].offered
    BY <1>1, <1>4, HandlerElsewhere
  <2> QED  BY <1>1, <1>4, <2>3, <2>4, <2>5 DEF Held, Has
<1> QED  BY <1>2, <1>3, <1>4

\* A tab opens the group, asks for a bind or takes the answer.
LEMMA TabsHold ==
  ASSUME IInv, NamesOk, HeldOk, NEW t \in Tabs, Browse(t)
  PROVE  NamesOk' /\ HeldOk'
<1> USE BindingAssumption
<1> DEFINE o == <<t, tab[t].n>>
<1>0. /\ req \in [Opens -> Request] /\ room \in [Opens -> Room] /\ tab \in [Tabs -> Tab]
      /\ topic \in Opens \cup {None} /\ None \notin Opens
  BY DEF IInv, TypeOK, Opens
<1>h. unsure' = unsure
  BY DEF Browse, OpenGroup, Bind, BindUnsent, Answer, GiveUp, history
<1>1. CASE OpenGroup(t)
  <2>1. UNCHANGED <<req, room>> /\ tab' = [tab EXCEPT ![t] =
           [tab[t] EXCEPT !.pc = "prepared", !.n = @ + 1, !.seen = topic]]
    BY <1>0, <1>1 DEF OpenGroup
  <2>2. \A u \in Tabs : tab'[u].seen = IF u = t THEN topic ELSE tab[u].seen
    BY <1>0, <2>1 DEF Tab
  <2>3. topic # None => Settled(topic)
    BY DEF IInv, PersistedOk, Committed, Settled, After
  <2>4. \A p : Settled(p)' <=> Settled(p)
    BY <2>1 DEF Settled
  <2>5. ASSUME NEW u \in Tabs, tab'[u].seen # None PROVE Settled(tab[u].seen)'
    BY <2>1, <2>2, <2>3, <2>5 DEF NamesOk, Settled
  <2> QED  BY <2>1, <2>4, <2>5, <1>h DEF NamesOk, HeldOk
<1>2. CASE Bind(t)
  <2> DEFINE asked == IF tab[t].seen = None THEN o ELSE tab[t].seen
  <2>1. /\ tab[t].pc = "prepared"
        /\ room' = IF tab[t].seen = None
                   THEN [room EXCEPT ![o] = [state |-> "live", owner |-> Viewer[t], offered |-> None]]
                   ELSE room
        /\ tab' = [tab EXCEPT ![t].pc = "waiting"]
    BY <1>2 DEF Bind, Created
  <2>2. PICK p \in Procs : req' = [req EXCEPT ![o].pc = "arriving", ![o].proc = p, ![o].asked = asked]
    BY <1>2 DEF Bind
  <2>3. o \in Opens /\ req[o] = NoRequest
    BY <2>1 DEF IInv, TabsOk, Opens
  <2>4. /\ req'[o].pc = "arriving" /\ req'[o].asked = asked /\ req'[o].loaded = None
        /\ ~req'[o].requested /\ ~req'[o].accepted
        /\ \A q \in Opens : q # o => req'[q] = req[q]
    BY <1>0, <2>2, <2>3 DEF NoRequest, Request
  <2>5. ~Settled(o)
    BY <2>3 DEF Settled, NoRequest, After, Undoing
  <2>6. tab[t].seen # None => Settled(tab[t].seen) /\ tab[t].seen \in Opens
    BY <1>0 DEF NamesOk, Tab
  <2>7. asked = o \/ (asked \in Opens /\ Settled(asked))
    BY <2>6
  <2>8. asked = o <=> tab[t].seen = None
    BY <2>5, <2>6
  <2> HIDE DEF asked
  <2>9. ASSUME NEW q \in Opens, Settled(q) PROVE Settled(q)'
    BY <2>4, <2>5, <2>9 DEF Settled
  <2>10. ASSUME NEW x \in Opens, NEW q \in Opens,
                req'[x].loaded = q \/ (req'[x].asked = q /\ x # q)
         PROVE  Settled(q)
    <3>1. CASE x = o
      BY <1>0, <2>4, <2>7, <2>10, <3>1
    <3>2. CASE x # o
      BY <2>4, <2>10, <3>2 DEF NamesOk
    <3> QED  BY <3>1, <3>2
  <2>11. ASSUME NEW u \in Tabs, tab'[u].seen # None PROVE Settled(tab[u].seen)'
    <3>1. tab'[u].seen = tab[u].seen
      BY <1>0, <2>1 DEF Tab
    <3>2. PICK s \in Opens : s = tab[u].seen
      BY <1>0, <2>11, <3>1 DEF Tab
    <3>3. Settled(s)
      BY <2>11, <3>1, <3>2 DEF NamesOk
    <3>4. Settled(s)'
      BY <2>9, <3>3
    <3> QED  BY <3>1, <3>2, <3>4
  <2>12. NamesOk'
    BY <2>9, <2>10, <2>11 DEF NamesOk
  <2>13. ASSUME NEW q \in Opens \ unsure, req'[q].asked = q PROVE Held(q, req'[q], room'[q])
    <3>1. CASE q # o
      <4>1. req'[q] = req[q] /\ room'[q] = room[q]
        BY <1>0, <2>1, <2>3, <2>4, <3>1
      <4> QED  BY <2>13, <4>1 DEF HeldOk
    <3>2. CASE q = o
      <4>1. room'[o] = [state |-> "live", owner |-> ViewerOf(o), offered |-> None]
        BY <1>0, <2>1, <2>3, <2>4, <2>8, <2>13, <3>2 DEF ViewerOf
      <4>2. Has(room'[o], ViewerOf(o), None)
        BY <4>1 DEF Has
      <4> HIDE DEF o
      <4> QED  BY <2>4, <3>2, <4>2 DEF Held, Undoing
    <3> QED  BY <3>1, <3>2
  <2> QED  BY <2>12, <2>13, <1>h DEF HeldOk
<1>3. CASE Answer(t) \/ GiveUp(t)
  <2>1. o \in Opens
    BY <1>3 DEF Answer, GiveUp, IInv, TabsOk, Opens
  <2>2. /\ req' = req /\ room' \in {room, Discard(o)}
        /\ \/ tab' = [tab EXCEPT ![t].pc = "idle"]
           \/ \E a : tab' = [tab EXCEPT ![t].pc = "idle", ![t].adopted = a]
    BY <1>3 DEF Answer, GiveUp
  <2>3. \A p \in Opens : /\ room'[p].owner = room[p].owner /\ room'[p].offered = room[p].offered
                         /\ room'[p].state = "live" => room[p].state = "live"
    <3>1. room' = room \/ room' = [room EXCEPT ![o] = [room[o] EXCEPT !.state = "deleted"]]
      BY <1>0, <2>1, <2>2 DEF Discard
    <3>2. room[o] \in Room
      BY <1>0, <2>1
    <3> DEFINE after == [room[o] EXCEPT !.state = "deleted"]
    <3>3. /\ after.owner = room[o].owner /\ after.offered = room[o].offered
          /\ after.state # "live"
      BY <3>2 DEF Room
    <3>4. room' = room \/ room' = [room EXCEPT ![o] = after]
      BY <3>1
    <3> HIDE DEF after, o
    <3> QED  BY <1>0, <2>1, <3>3, <3>4
  <2>4. \A u \in Tabs : tab'[u].seen = tab[u].seen
    <3>1. CASE tab' = [tab EXCEPT ![t].pc = "idle"]
      BY <1>0, <3>1 DEF Tab
    <3>2. CASE \E a : tab' = [tab EXCEPT ![t].pc = "idle", ![t].adopted = a]
      BY <1>0, <3>2 DEF Tab
    <3> QED  BY <2>2, <3>1, <3>2
  <2>5. NamesOk'
    BY <2>2, <2>4 DEF NamesOk, Settled
  <2>6. ASSUME NEW q \in Opens \ unsure, req'[q].asked = q PROVE Held(q, req'[q], room'[q])
    <3>1. Held(q, req[q], room[q]) /\ req'[q] = req[q]
      BY <2>2, <2>6 DEF HeldOk
    <3> QED  BY <2>3, <3>1 DEF Held, Has
  <2> QED  BY <2>5, <2>6, <1>h DEF HeldOk
<1>4. CASE BindUnsent(t)
  <2>1. o \in Opens /\ req[o] = NoRequest /\ req' = req /\ tab' = [tab EXCEPT ![t].pc = "idle"]
    BY <1>4 DEF BindUnsent, IInv, TabsOk, Opens
  <2>2. \A q \in Opens : q # o => room'[q] = room[q]
    BY <1>0, <1>4, <2>1 DEF BindUnsent, Created
  <2>3. \A u \in Tabs : tab'[u].seen = tab[u].seen
    BY <1>0, <2>1 DEF Tab
  <2>4. NamesOk'
    BY <2>1, <2>3 DEF NamesOk, Settled
  <2>5. \A q \in Opens : req[q].asked = q => q # o
    BY <1>0, <2>1 DEF NoRequest
  <2>6. HeldOk'
    BY <2>1, <2>2, <2>5, <1>h DEF HeldOk
  <2> QED  BY <2>4, <2>6
<1> QED  BY <1>1, <1>2, <1>3, <1>4 DEF Browse

\* A bind that failed, at whatever step and whatever call, has handed its topic
\* back to the viewer who created it, who owns it alone, also when its tab gave
\* up waiting: rollback_tinode_owner_transfer finds the topic as the handler
\* left it, because no other request touches it in the meantime.  The exceptions
\* are the requests in unsure.
THEOREM FailedBindsReturnTopics == Spec => []FailedBindReturnsTopic
<1>1. Init => NamesOk /\ HeldOk
  BY BindingAssumption DEF Init, NamesOk, HeldOk, NoRequest, Opens
<1>2. IInv /\ NamesOk /\ HeldOk /\ [Next]_vars => NamesOk' /\ HeldOk'
  <2> SUFFICES ASSUME IInv, NamesOk, HeldOk, [Next]_vars PROVE NamesOk' /\ HeldOk'
    OBVIOUS
  <2>1. ASSUME NEW o \in Opens, Handle(o) PROVE NamesOk' /\ HeldOk'
    BY <2>1, HandlerNames, HandlersHold
  <2>2. ASSUME NEW t \in Tabs, Browse(t) PROVE NamesOk' /\ HeldOk'
    BY <2>2, TabsHold
  <2>3. CASE UNCHANGED vars
    BY <2>3 DEF vars, NamesOk, HeldOk, Settled
  <2> QED  BY <2>1, <2>2, <2>3 DEF Next
<1>3. HeldOk => FailedBindReturnsTopic
  <2> SUFFICES ASSUME HeldOk, NEW o \in Opens \ unsure, req[o].pc = "ended",
                      req[o].reply \in {"rejected", "failed"}, req[o].asked = o,
                      room[o].state = "live"
               PROVE  OwnedBy(room[o], ViewerOf(o)) /\ room[o].offered = None
    BY DEF FailedBindReturnsTopic
  <2>1. Held(o, req[o], room[o])
    BY DEF HeldOk
  <2> QED  BY <2>1 DEF Held, Has, OwnedBy
<1> QED  BY <1>1, <1>2, <1>3, Invariance, PTL DEF Spec

=============================================================================
