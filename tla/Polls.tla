------------------------------- MODULE Polls --------------------------------
(***************************************************************************)
(* Polls of a group.  A poll is a message of the group's Tinode topic; its *)
(* votes, added options and its lock are later messages of the topic.  No  *)
(* server computes the result: every client replays the messages it has    *)
(* received.  The web client and the phone replay them with code of their  *)
(* own, so they are two functions here, WebView and PhoneView.             *)
(*                                                                         *)
(* A client is named by its user.  The topic is the sequence log; a client *)
(* has received a prefix of it, and what its screen shows may lag behind.  *)
(***************************************************************************)
EXTENDS Naturals, Sequences, FiniteSets

CONSTANTS
    Web,             \* users of the web client
    Phone,           \* users of the phone
    Creator,         \* the user that created the poll
    Options,         \* the options it was created with
    Extra,           \* ids for options that are added later
    Deputies,        \* users that may be the group's owner or a deputy
    None,            \* no event
    MaxOptions,      \* MAX_POLL_OPTIONS
    AllowMultiple,   \* settings.allowMultiple
    AllowAddOptions, \* settings.allowAddOptions
    MaxEvents        \* bound: events published on the poll

Users == Web \cup Phone
AllOptions == Options \cup Extra

ASSUME UsersAssumption ==
    Web \cap Phone = {} /\ Creator \in Users /\ Deputies \subseteq Users
ASSUME OptionsAssumption == Options \cap Extra = {}
\* normalizePoll cuts the first options off at MAX_POLL_OPTIONS.
ASSUME LimitAssumption ==
    /\ MaxOptions \in Nat
    /\ IsFiniteSet(Options) /\ Cardinality(Options) <= MaxOptions
ASSUME BoundAssumption == MaxEvents \in Nat

VARIABLES
    over,    \* the poll's expiresAt has passed
    log,     \* the poll's events in the topic, in the order of their seq
    out,     \* out[u]: the event u's client is publishing
    got,     \* got[u]: how many events of log u's client has received
    knows,   \* knows[u]: the owner and deputies in its member snapshot
    shown    \* shown[u]: the poll as u's client shows it

vars == <<over, log, out, got, knows, shown>>

-----------------------------------------------------------------------------
(* Data *)

Selections ==
    {s \in SUBSET AllOptions : s # {} /\ (AllowMultiple \/ Cardinality(s) = 1)}

\* late: the event's createdAt is at or past expiresAt.
Event ==
    [kind : {"vote"}, actor : Users, options : Selections, late : BOOLEAN]
    \cup [kind : {"option"}, actor : Users, option : Extra, late : BOOLEAN]
    \cup [kind : {"lock"}, actor : Users]

\* No vote is the empty selection: normalizePoll drops a vote without options.
Poll == [options : SUBSET AllOptions, votes : [Users -> SUBSET AllOptions],
         locked : BOOLEAN]

Root == [options |-> Options, votes |-> [u \in Users |-> {}], locked |-> FALSE]

Voters(poll) == {u \in Users : poll.votes[u] # {}}

TypeOK ==
    /\ over \in BOOLEAN
    /\ log \in Seq(Event) /\ Len(log) <= MaxEvents
    /\ out \in [Users -> Event \cup {None}]
    /\ got \in [Users -> 0..Len(log)]
    /\ knows \in [Users -> SUBSET Deputies]
    /\ shown \in [Users -> Poll]
    /\ \A u \in Users : Cardinality(shown[u].options) <= MaxOptions

Init ==
    /\ over = FALSE
    /\ log = <<>>
    /\ out = [u \in Users |-> None]
    /\ got = [u \in Users |-> 0]
    /\ knows = [u \in Users |-> {}]
    /\ shown = [u \in Users |-> Root]

-----------------------------------------------------------------------------
(* applyPollEvent *)

CanLock(poll, u, members) == ~poll.locked /\ (u = Creator \/ u \in members)

\* Mutated form: any number of options.
AddsOptionAlways(poll, e) == e.kind = "option" /\ AllowAddOptions

AddsOption(poll, e) ==
    /\ e.kind = "option" /\ AllowAddOptions
    /\ Cardinality(poll.options) < MaxOptions

\* Mutated form: the deadline is compared with the time of the replay.
WebApplyNow(poll, e, members) ==
    CASE e.kind = "lock" /\ CanLock(poll, e.actor, members) ->
            [poll EXCEPT !.locked = TRUE]
      [] AddsOption(poll, e) /\ ~over ->
            [poll EXCEPT !.options = @ \cup {e.option}]
      [] e.kind = "vote" /\ ~poll.locked /\ ~over ->
            [poll EXCEPT !.votes[e.actor] = e.options \cap poll.options]
      [] OTHER -> poll

\* Mutated form: a locked poll still counts votes.
WebApplyUnlocked(poll, e, members) ==
    CASE e.kind = "lock" /\ CanLock(poll, e.actor, members) ->
            [poll EXCEPT !.locked = TRUE]
      [] AddsOption(poll, e) /\ ~e.late ->
            [poll EXCEPT !.options = @ \cup {e.option}]
      [] e.kind = "vote" /\ ~e.late /\ e.options \cap poll.options # {} ->
            [poll EXCEPT !.votes[e.actor] = e.options \cap poll.options]
      [] OTHER -> poll

\* The web client: the deadline is compared with the event's own time.
WebApply(poll, e, members) ==
    CASE e.kind = "lock" /\ CanLock(poll, e.actor, members) ->
            [poll EXCEPT !.locked = TRUE]
      [] AddsOption(poll, e) /\ ~e.late ->
            [poll EXCEPT !.options = @ \cup {e.option}]
      [] /\ e.kind = "vote" /\ ~poll.locked /\ ~e.late
         /\ e.options \cap poll.options # {} ->
            [poll EXCEPT !.votes[e.actor] = e.options \cap poll.options]
      [] OTHER -> poll

\* Mutated form: a second vote is added to the first.
PhoneApplyAdds(poll, e, members, expired) ==
    CASE e.kind = "lock" /\ CanLock(poll, e.actor, members) ->
            [poll EXCEPT !.locked = TRUE]
      [] AddsOption(poll, e) /\ ~expired ->
            [poll EXCEPT !.options = @ \cup {e.option}]
      [] e.kind = "vote" /\ ~poll.locked /\ ~expired ->
            [poll EXCEPT
                !.votes[e.actor] = @ \cup (e.options \cap poll.options)]
      [] OTHER -> poll

\* The phone: the deadline is compared with the time of the replay, and a vote
\* for options nobody knows withdraws the voter's earlier vote.
PhoneApply(poll, e, members, expired) ==
    CASE e.kind = "lock" /\ CanLock(poll, e.actor, members) ->
            [poll EXCEPT !.locked = TRUE]
      [] AddsOption(poll, e) /\ ~expired ->
            [poll EXCEPT !.options = @ \cup {e.option}]
      [] e.kind = "vote" /\ ~poll.locked /\ ~expired ->
            [poll EXCEPT !.votes[e.actor] = e.options \cap poll.options]
      [] OTHER -> poll

-----------------------------------------------------------------------------
(* What a client makes of the events it has received *)

IsLock(e) == e.kind = "lock"

\* Mutated form: the role snapshot is not applied to the locks.
ProjectNothing(poll, events, members) == poll

\* projectPollsWithMembers: only the locks, with the roles of the snapshot.
Project(poll, events, members) ==
    LET after[n \in 0..Len(events)] ==
            IF n = 0 THEN poll
            ELSE IF IsLock(events[n])
                   THEN WebApply(after[n - 1], events[n], members)
                   ELSE after[n - 1]
    IN  after[Len(events)]

\* The messages are replayed without roles, so a deputy's lock has no effect
\* on the votes after it; then the locks are applied with the snapshot's roles.
WebView(events, members) ==
    LET after[n \in 0..Len(events)] ==
            IF n = 0 THEN Root ELSE WebApply(after[n - 1], events[n], {})
    IN  Project(after[Len(events)], events, members)

PhoneView(events, members, expired) ==
    LET after[n \in 0..Len(events)] ==
            IF n = 0 THEN Root
            ELSE PhoneApply(after[n - 1], events[n], members, expired)
    IN  after[Len(events)]

View(u, events, members) ==
    IF u \in Web THEN WebView(events, members)
                 ELSE PhoneView(events, members, over)

-----------------------------------------------------------------------------
(* A member acts on the poll.  The guards are those of the client, over     *)
(* what it shows.                                                          *)

\* The web client looks at the clock when the member clicks; the phone's card
\* did when it was drawn, which may have been before the deadline.
Closed(u) == shown[u].locked \/ (over /\ u \in Web)

Act(u, e) ==
    /\ out[u] = None
    /\ out' = [out EXCEPT ![u] = e]
    /\ UNCHANGED <<over, log, got, knows, shown>>

Vote(u) ==
    /\ ~Closed(u)
    /\ \E s \in Selections :
          /\ s \subseteq shown[u].options
          /\ Act(u, [kind |-> "vote", actor |-> u,
                     options |-> s, late |-> over])

\* Ids of added options are never used twice.
FreshOption(o) ==
    /\ \A i \in 1..Len(log) : log[i].kind = "option" => log[i].option # o
    /\ \A u \in Users :
          out[u] # None /\ out[u].kind = "option" => out[u].option # o

AddOption(u) ==
    /\ ~Closed(u) /\ AllowAddOptions
    /\ \E o \in Extra :
          /\ FreshOption(o)
          /\ Act(u, [kind |-> "option", actor |-> u,
                     option |-> o, late |-> over])

Lock(u) ==
    /\ CanLock(shown[u], u, knows[u])
    /\ Act(u, [kind |-> "lock", actor |-> u])

\* createdAt: the web client takes it before it awaits anything; the phone once
\* it is subscribed to the topic.
Stamped(u) ==
    IF u \in Phone /\ ~IsLock(out[u])
      THEN {out[u], [out[u] EXCEPT !.late = over]}
      ELSE {out[u]}

\* Tinode accepted the message.  The sender has received what is before it,
\* and the web client applies it at once to the poll it shows.
Publish(u) ==
    /\ out[u] # None /\ Len(log) < MaxEvents
    /\ \E e \in Stamped(u) :
          /\ log' = Append(log, e)
          /\ shown' = IF u \in Web
                        THEN [shown EXCEPT ![u] = WebApply(@, e, knows[u])]
                        ELSE shown
    /\ out' = [out EXCEPT ![u] = None]
    /\ got' = [got EXCEPT ![u] = Len(log) + 1]
    /\ UNCHANGED <<over, knows>>

PublishFails(u) ==
    /\ out[u] # None
    /\ out' = [out EXCEPT ![u] = None]
    /\ UNCHANGED <<over, log, got, knows, shown>>

-----------------------------------------------------------------------------
(* What reaches a client *)

\* Messages arrive in order, and the conversation is put together again.
Receive(u) ==
    \E n \in got[u]..Len(log) :
        /\ got' = [got EXCEPT ![u] = n]
        /\ shown' = [shown EXCEPT ![u] = View(u, SubSeq(log, 1, n), knows[u])]
        /\ UNCHANGED <<over, log, out, knows>>

\* A member snapshot.  Roles change at any time, so it may name any of the
\* deputies.  The web client projects the poll it shows; the phone reads the
\* members when it puts the conversation together.
ReceiveMembers(u) ==
    \E members \in SUBSET Deputies :
        /\ knows' = [knows EXCEPT ![u] = members]
        /\ shown' = IF u \in Web
                      THEN [shown EXCEPT
                              ![u] = Project(@, SubSeq(log, 1, got[u]), members)]
                      ELSE shown
        /\ UNCHANGED <<over, log, out, got>>

\* The page or the application starts again: everything is replayed, at first
\* without a member snapshot, and what was being published is given up.
Reload(u) ==
    /\ got' = [got EXCEPT ![u] = Len(log)]
    /\ knows' = [knows EXCEPT ![u] = {}]
    /\ shown' = [shown EXCEPT ![u] = View(u, log, {})]
    /\ out' = [out EXCEPT ![u] = None]
    /\ UNCHANGED <<over, log>>

-----------------------------------------------------------------------------
(* The world *)

Expire ==
    /\ ~over
    /\ over' = TRUE
    /\ UNCHANGED <<log, out, got, knows, shown>>

Next ==
    \/ \E u \in Users :
          \/ Vote(u) \/ AddOption(u) \/ Lock(u)
          \/ Publish(u) \/ PublishFails(u) \/ Receive(u) \/ ReceiveMembers(u) \/ Reload(u)
    \/ Expire

Spec == Init /\ [][Next]_vars

-----------------------------------------------------------------------------
(* Properties *)

\* The vote of another member, once a client shows it, stays counted (for the
\* same or another option): a client learns of it only by a replay, and no
\* later message, lock, snapshot or restart may lose it.
WebVotesStay ==
    [][\A u \in Web : Voters(shown[u]) \ {u} \subseteq Voters(shown'[u])]_vars

\* "ChatUI replays those events against the root poll to rebuild the current
\* options, votes, expiry and lock state after reconnect or reload": on the
\* phone too.
PhoneVotesStay ==
    [][\A u \in Phone :
          Voters(shown[u]) \ {u} \subseteq Voters(shown'[u])]_vars

\* A client that has received the creator's lock shows of the others only
\* votes that were published before it, although they could still vote until
\* the lock reached them.
LockStopsVotes ==
    \A u \in Users : \A k \in 1..got[u] :
        log[k].kind = "lock" /\ log[k].actor = Creator =>
            \A v \in Voters(shown[u]) \ {u} :
                \E i \in 1..(k - 1) :
                    /\ log[i].kind = "vote" /\ log[i].actor = v
                    /\ shown[u].votes[v] \subseteq log[i].options

\* The two replays agree about the same messages and roles, as long as the
\* poll is open, nobody but its creator locked it and no option was refused.
ClientsAgree ==
    /\ ~over
    /\ \A i \in 1..Len(log) : IsLock(log[i]) => log[i].actor = Creator
    /\ Cardinality(WebView(log, {}).options) < MaxOptions
    => \A members \in SUBSET Deputies :
          WebView(log, members) = PhoneView(log, members, FALSE)

\* Both clients show a poll locked exactly when its creator, or somebody their
\* member snapshot names owner or deputy, has locked it.
LocksAreShown ==
    \A members \in SUBSET Deputies :
        LET Entitled == \E i \in 1..Len(log) :
                IsLock(log[i]) /\ log[i].actor \in members \cup {Creator}
        IN  /\ WebView(log, members).locked = Entitled
            /\ PhoneView(log, members, over).locked = Entitled
=============================================================================
