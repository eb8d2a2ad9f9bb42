---------------------------- MODULE GroupBinding ----------------------------
(***************************************************************************)
(* How a group conversation of Chatmgt gets its Tinode topic.              *)
(*                                                                         *)
(* A browser tab that opens a group without a topic creates one in Tinode  *)
(* and asks Chatmgt to bind it.  The handler locks the conversation row,   *)
(* moves the topic from the viewer to the group's owner, reconciles it,    *)
(* and commits its name.  The lock is held across awaits, a worker process *)
(* has one event loop, and its database calls are synchronous: a handler   *)
(* that waits for the lock stops every other handler of its process.  The  *)
(* tab waits a limited time only, while the handler goes on.               *)
(***************************************************************************)
EXTENDS Naturals

CONSTANTS
    Tabs,        \* browser tabs that open the group
    Users,       \* Tinode users
    Viewer,      \* Viewer[t]: the user signed in to tab t
    GroupOwner,  \* the user whose participant row has the role OWNER
    Procs,       \* Chatmgt worker processes; any may take a request
    MaxOpens,    \* bound: how often a tab opens the group
    Faults,      \* what may fail: see FaultKinds
    None         \* no topic, no request, no user

FaultKinds == {"prepare", "tinode", "verify", "database", "reply", "client"}

ASSUME BindingAssumption ==
    /\ GroupOwner \in Users
    /\ Viewer \in [Tabs -> Users]
    /\ MaxOpens \in Nat
    /\ Faults \subseteq FaultKinds
    /\ None \notin Tabs \X (1..MaxOpens)
    /\ None \notin Users

VARIABLES
    topic,     \* tinode_topic of the conversation row
    lock,      \* the request that holds the row lock
    room,      \* room[o]: the Tinode topic created when o was opened
    req,       \* req[o]: the bind request sent by that opening
    tab,       \* tab[t]: where ensureTinodeConversationTopic stands in tab t
    abandoned, \* history: openings that threw their topic away although the
               \* server had not refused it: their own time ran out, or their
               \* session could not be renewed after the answer
    unsure     \* history: requests whose acceptance was carried out without
               \* being confirmed, or whose undoing met a failing Tinode

vars == <<topic, lock, room, req, tab, abandoned, unsure>>
history == <<abandoned, unsure>>

-----------------------------------------------------------------------------
(* Data.  An opening <<t, n>> names its bind request and, if it had to     *)
(* create one, its Tinode topic.                                           *)

Opens == Tabs \X (1..MaxOpens)

ViewerOf(o) == Viewer[o[1]]

\* Steps of a handler.  In those of Synchronous it does not leave the event
\* loop; in the others it awaits Tinode or the Account service.
Synchronous == {"lock", "commit", "serialize"}
Undoing == {"undoGrant", "undoAccept", "undoMode"}
Awaiting == {"prepare", "offer", "accept", "reconcile", "verify"} \cup Undoing
Steps == {"unsent", "arriving", "ended"} \cup Synchronous \cup Awaiting

Replies == {"none", "ok", "rejected", "failed"}

\* rejected: a 4xx answer; failed: a 5xx answer.
Request == [pc : Steps, proc : Procs \cup {None}, asked : Opens \cup {None},
            loaded : Opens \cup {None}, accepted : BOOLEAN,
            requested : BOOLEAN, reply : Replies, canon : Opens \cup {None}]

NoRequest == [pc |-> "unsent", proc |-> None, asked |-> None, loaded |-> None,
              accepted |-> FALSE, requested |-> FALSE, reply |-> "none",
              canon |-> None]

\* offered: the user who was given the mode O and has not accepted it yet.
Room == [state : {"none", "live", "deleted"}, owner : Users \cup {None},
         offered : Users \cup {None}]

NoRoom == [state |-> "none", owner |-> None, offered |-> None]

Tab == [pc : {"idle", "prepared", "waiting"}, n : 0..MaxOpens,
        seen : Opens \cup {None}, adopted : Opens \cup {None}]

TypeOK ==
    /\ topic \in Opens \cup {None}
    /\ lock \in Opens \cup {None}
    /\ room \in [Opens -> Room]
    /\ req \in [Opens -> Request]
    /\ tab \in [Tabs -> Tab]
    /\ abandoned \in SUBSET Opens
    /\ unsure \in SUBSET Opens

Init ==
    /\ topic = None
    /\ lock = None
    /\ room = [o \in Opens |-> NoRoom]
    /\ req = [o \in Opens |-> NoRequest]
    /\ tab = [t \in Tabs |-> [pc |-> "idle", n |-> 0, seen |-> None,
                              adopted |-> None]]
    /\ abandoned = {}
    /\ unsure = {}

-----------------------------------------------------------------------------
(* The handler conversation_bind_tinode.                                   *)

\* The event loop of o's process is not held up by another request.
LoopFree(o) == \A p \in Opens \ {o} :
                  req[p].proc = req[o].proc => req[p].pc \notin Synchronous

At(o, pc) == req[o].pc = pc /\ LoopFree(o)

Goto(o, pc) == req' = [req EXCEPT ![o].pc = pc]

\* The topic the handler works on: the one it loaded, else the one asked for.
NameOf(o) == IF req[o].loaded = None THEN req[o].asked ELSE req[o].loaded

\* Mutated form: the session is not rolled back
UnlockedNever(o) == lock

\* The end of a transaction releases its row lock.
Unlocked(o) == IF lock = o THEN None ELSE lock

\* Mutated form: an aborted bind has a state of its own
FirstUndoAborted(o) == IF ~req[o].requested THEN "aborted"
                       ELSE IF req[o].accepted THEN "undoGrant" ELSE "undoMode"

\* Mutated form: the transfer is undone as if it had not been accepted
FirstUndoOffer(o) == IF req[o].requested THEN "undoMode" ELSE "ended"

\* rollback_tinode_owner_transfer starts where the transfer stopped.
FirstUndo(o) == IF ~req[o].requested THEN "ended"
                ELSE IF req[o].accepted THEN "undoGrant" ELSE "undoMode"

\* except: db.session.rollback(), undo the transfer, answer.
Fail(o, reply) ==
    /\ lock' = Unlocked(o)
    /\ req' = [req EXCEPT ![o].pc = FirstUndo(o), ![o].reply = reply]

\* _conversation_and_membership: the session loads the row.
Arrive(o) ==
    /\ At(o, "arriving")
    /\ req' = [req EXCEPT ![o].loaded = topic, ![o].pc = "lock"]
    /\ UNCHANGED <<topic, lock, room, tab, history>>

\* SELECT ... FOR UPDATE.  The row is in the session already, and the mapper
\* does not refresh the attributes of a loaded object.
TakeLock(o) ==
    /\ At(o, "lock") /\ lock = None
    /\ lock' = o
    /\ Goto(o, "prepare")
    /\ UNCHANGED <<topic, room, tab, history>>

\* A fresh topic belongs to the viewer who created it.
MustTransfer(o) == req[o].loaded = None /\ ViewerOf(o) # GroupOwner

\* The Account identity is checked and the members' credentials prepared.
Prepare(o) ==
    /\ At(o, "prepare")
    /\ \/ /\ req' = [req EXCEPT ![o].pc = IF MustTransfer(o) THEN "offer" ELSE "reconcile",
                                ![o].requested = MustTransfer(o)]
          /\ lock' = lock
       \/ /\ "prepare" \in Faults
          /\ \E reply \in {"rejected", "failed"} : Fail(o, reply)
    /\ UNCHANGED <<topic, room, tab, history>>

\* Mutated form: a call that failed counts as done
TinodeCallUnchecked(o, can, after, next) ==
    /\ \/ room' = IF can THEN [room EXCEPT ![NameOf(o)] = after] ELSE room
       \/ "tinode" \in Faults /\ room' = room
    /\ next
    /\ UNCHANGED <<topic, tab, history>>

\* A call that changes the topic.  Tinode refuses it unless `can`; a call that
\* fails otherwise (a time-out) may still have been carried out.
TinodeCall(o, can, after, next) ==
    /\ \/ /\ can
          /\ room' = [room EXCEPT ![NameOf(o)] = after]
          /\ next /\ unsure' = unsure
       \/ /\ ~can \/ "tinode" \in Faults
          /\ \E done \in {FALSE, can} :
                /\ room' = IF done THEN [room EXCEPT ![NameOf(o)] = after] ELSE room
                /\ unsure' = IF can /\ (req[o].pc \in Undoing \/ (req[o].pc = "accept" /\ done))
                             THEN unsure \cup {o} ELSE unsure
          /\ \E reply \in {"rejected", "failed"} :
                IF req[o].pc \in Undoing
                THEN Goto(o, "ended") /\ lock' = lock
                ELSE Fail(o, reply)
    /\ UNCHANGED <<topic, tab, abandoned>>

OwnedBy(r, u) == r.state = "live" /\ r.owner = u

OfferedTo(r, u) == r.state = "live" /\ r.offered = u

\* The viewer gives the group's owner full owner access.
Offer(o) ==
    LET r == room[NameOf(o)] IN
    /\ At(o, "offer")
    /\ TinodeCall(o, OwnedBy(r, ViewerOf(o)), [r EXCEPT !.offered = GroupOwner],
                  Goto(o, "accept") /\ lock' = lock)

\* The group's owner accepts; the viewer is no longer the owner.
Accept(o) ==
    LET r == room[NameOf(o)] IN
    /\ At(o, "accept")
    /\ TinodeCall(o, OfferedTo(r, GroupOwner),
                  [r EXCEPT !.owner = GroupOwner, !.offered = None],
                  /\ req' = [req EXCEPT ![o].pc = "reconcile", ![o].accepted = TRUE]
                  /\ lock' = lock)

\* tinode_reconcile_topic_members acts as the group's owner and ends with its
\* check that everybody has the access required of them.
Reconcile(o) ==
    LET r == room[NameOf(o)] IN
    /\ At(o, "reconcile")
    /\ TinodeCall(o, OwnedBy(r, GroupOwner) \/ OfferedTo(r, GroupOwner),
                  [r EXCEPT !.owner = GroupOwner,
                            !.offered = IF @ = GroupOwner THEN None ELSE @],
                  Goto(o, "verify") /\ lock' = lock)

\* tinode_verify_topic_access reads the topic as the viewer.
Verify(o) ==
    /\ At(o, "verify")
    /\ \/ /\ room[NameOf(o)].state = "live"
          /\ Goto(o, "commit") /\ lock' = lock
       \/ /\ room[NameOf(o)].state # "live" \/ "verify" \in Faults
          /\ \E reply \in {"rejected", "failed"} : Fail(o, reply)
    /\ UNCHANGED <<topic, room, tab, history>>

\* The UPDATE names the column only if the handler changed what it loaded.
Commit(o) ==
    /\ At(o, "commit")
    /\ \/ /\ topic' = IF NameOf(o) # req[o].loaded THEN NameOf(o) ELSE topic
          /\ lock' = None
          /\ Goto(o, "serialize")
       \/ /\ "database" \in Faults
          /\ Fail(o, "failed")
          /\ topic' = topic
    /\ UNCHANGED <<room, tab, history>>

\* _serialize_conversation: the commit expired the row, so it is read again.
Serialize(o) ==
    /\ At(o, "serialize")
    /\ \/ /\ req' = [req EXCEPT ![o].pc = "ended", ![o].reply = "ok", ![o].canon = topic]
          /\ lock' = lock
       \/ /\ "reply" \in Faults
          /\ Fail(o, "failed")
    /\ UNCHANGED <<topic, room, tab, history>>

\* rollback_tinode_owner_transfer: the owner gives the topic back, ...
UndoGrant(o) ==
    LET r == room[NameOf(o)] IN
    /\ At(o, "undoGrant")
    /\ TinodeCall(o, OwnedBy(r, GroupOwner), [r EXCEPT !.offered = ViewerOf(o)],
                  Goto(o, "undoAccept") /\ lock' = lock)

\* ... the viewer accepts, ...
UndoAccept(o) ==
    LET r == room[NameOf(o)] IN
    /\ At(o, "undoAccept")
    /\ TinodeCall(o, OfferedTo(r, ViewerOf(o)),
                  [r EXCEPT !.owner = ViewerOf(o), !.offered = None],
                  Goto(o, "undoMode") /\ lock' = lock)

\* ... and takes the mode O from the group's owner.
UndoMode(o) ==
    LET r == room[NameOf(o)] IN
    /\ At(o, "undoMode")
    /\ TinodeCall(o, OwnedBy(r, ViewerOf(o)), [r EXCEPT !.offered = None],
                  Goto(o, "ended") /\ lock' = lock)

-----------------------------------------------------------------------------
(* ensureTinodeConversationTopicInternal in a tab.  Calls within one tab   *)
(* share one request.                                                      *)

\* prepareTinodeConversation answers with the persisted topic, if any.
OpenGroup(t) ==
    /\ tab[t].pc = "idle" /\ tab[t].n < MaxOpens
    /\ tab' = [tab EXCEPT ![t].pc = "prepared", ![t].n = @ + 1, ![t].seen = topic]
    /\ UNCHANGED <<topic, lock, room, req, history>>

\* Without a topic the tab creates one.
Created(t) ==
    IF tab[t].seen = None
    THEN [room EXCEPT ![<<t, tab[t].n>>] =
             [state |-> "live", owner |-> Viewer[t], offered |-> None]]
    ELSE room

\* bindTinodeTopic renews the token and sends the bind request.
Bind(t) ==
    LET o == <<t, tab[t].n>> IN
    /\ tab[t].pc = "prepared"
    /\ room' = Created(t)
    /\ \E p \in Procs :
          req' = [req EXCEPT ![o].pc = "arriving", ![o].proc = p,
                             ![o].asked = IF tab[t].seen = None THEN o ELSE tab[t].seen]
    /\ tab' = [tab EXCEPT ![t].pc = "waiting"]
    /\ UNCHANGED <<topic, lock, history>>

\* Mutated form: any error lets the tab discard the topic it created
DiscardsOnError(outcome) == outcome # "ok"

\* What the tab takes as a refusal of its topic: a status from 400 to 499.
\* apiRequest gives its own time-out the status 408.
DiscardsOn(outcome) == outcome \in {"rejected", "timeout"}

\* delTopic of a topic this opening created; only its owner can delete it.
Discard(o) == IF OwnedBy(room[o], ViewerOf(o))
              THEN [room EXCEPT ![o].state = "deleted"]
              ELSE room

\* The token is not renewed, and the request is not sent; a fresh topic that
\* is kept is one nobody will know.
BindUnsent(t) ==
    LET o == <<t, tab[t].n>> IN
    /\ "client" \in Faults
    /\ tab[t].pc = "prepared"
    /\ \E outcome \in {"rejected", "timeout", "lost"} :
          room' = IF tab[t].seen = None /\ DiscardsOn(outcome)
                  THEN [Created(t) EXCEPT ![o].state = "deleted"]
                  ELSE Created(t)
    /\ tab' = [tab EXCEPT ![t].pc = "idle"]
    /\ UNCHANGED <<topic, lock, req, history>>

\* The answer arrives.
Answer(t) ==
    LET o == <<t, tab[t].n>>
        r == req[o]
        other == r.reply = "ok" /\ r.canon # r.asked IN
    /\ tab[t].pc = "waiting" /\ r.pc = "ended"
    /\ room' = IF r.asked = o /\ (other \/ DiscardsOn(r.reply)) THEN Discard(o) ELSE room
    /\ tab' = [tab EXCEPT ![t].pc = "idle",
                          ![t].adopted = IF r.reply = "ok" THEN r.canon ELSE @]
    /\ UNCHANGED <<topic, lock, req, history>>

\* The bind fails in the tab: no answer in time ("timeout"), the connection
\* fails or a proxy gives up ("lost"), or the session that is renewed after a
\* good answer is refused, runs out of time or is lost.  The handler goes on.
GiveUp(t) ==
    LET o == <<t, tab[t].n>> IN
    /\ "client" \in Faults
    /\ tab[t].pc = "waiting"
    /\ \E outcome \in {"timeout", "lost"} :
          /\ room' = IF req[o].asked = o /\ DiscardsOn(outcome) THEN Discard(o) ELSE room
          /\ abandoned' = IF req[o].asked = o /\ outcome = "timeout"
                          THEN abandoned \cup {o} ELSE abandoned
    /\ tab' = [tab EXCEPT ![t].pc = "idle"]
    /\ UNCHANGED <<topic, lock, req, unsure>>

-----------------------------------------------------------------------------

Handle(o) == \/ Arrive(o) \/ TakeLock(o) \/ Prepare(o) \/ Offer(o) \/ Accept(o)
             \/ Reconcile(o) \/ Verify(o) \/ Commit(o) \/ Serialize(o)
             \/ UndoGrant(o) \/ UndoAccept(o) \/ UndoMode(o)

Browse(t) == OpenGroup(t) \/ Bind(t) \/ BindUnsent(t) \/ Answer(t) \/ GiveUp(t)

Next == (\E o \in Opens : Handle(o)) \/ (\E t \in Tabs : Browse(t))

Spec == Init /\ [][Next]_vars

\* The event loop runs every task that is ready, every awaited call has a
\* time-out, and PostgreSQL hands a free row lock to a waiter.
FairSpec == Spec /\ \A o \in Opens : WF_vars(Handle(o))

-----------------------------------------------------------------------------
(* Properties                                                              *)

\* The topic in the conversation row exists: no tab discards it, neither the
\* one that created it nor one that lost the race for it, unless the tab that
\* created it ran out of time or could not renew its session.  (Then it takes
\* its own failure for a refusal, and the group keeps a topic that is gone.)
PersistedTopicLive ==
    topic \notin abandoned \cup {None} => room[topic].state = "live"

\* In Tinode the persisted topic belongs to the group's owner, whoever opened
\* the group first and whatever failed on the way, unless the request that
\* persisted it failed afterwards and undid the transfer of the topic.
GroupOwnerOwnsTopic ==
    topic # None /\ req[topic].reply # "failed" => room[topic].owner = GroupOwner

\* A bind that failed hands the topic back, wherever it stopped and whatever
\* call failed: its creator owns it, alone, and can discard it.  Only a lost
\* confirmation of the acceptance, or a failure while undoing, prevents it.
FailedBindReturnsTopic ==
    \A o \in Opens \ unsure :
        /\ req[o].pc = "ended" /\ req[o].reply \in {"rejected", "failed"}
        /\ req[o].asked = o /\ topic # o /\ room[o].state = "live"
        => OwnedBy(room[o], ViewerOf(o)) /\ room[o].offered = None

\* A bind that waits for the row lock has stopped the process of the bind that
\* holds it.
Jammed ==
    \E o, p \in Opens : /\ lock = o /\ o # p /\ req[p].pc = "lock"
                        /\ req[p].proc = req[o].proc

\* Every bind request is answered, unless two binds of the group jam a process.
BindsAnswered ==
    \A o \in Opens : req[o].pc = "arriving" ~> req[o].pc = "ended" \/ Jammed

=============================================================================
