---------------------------- MODULE PresenceLease ----------------------------
(***************************************************************************)
(* The directory-wide presence of the web client.  A visible browser tab   *)
(* sends a heartbeat every two seconds; leaving the page or logging out    *)
(* sends a departure.  Chatmgt keeps in Redis one lease per tab, one       *)
(* sequence number per tab and one last-seen time per account.  The        *)
(* requests may be lost, delayed and reordered, and two workers may handle *)
(* two of them at once; the two Redis writes of one request (the Lua       *)
(* script over lease and sequence, then the last-seen script) are separate *)
(* steps, and either may fail.                                             *)
(*                                                                         *)
(* Every value of Tabs is one page load in one browser, so its session id  *)
(* ("jti.browser session") is its own.                                     *)
(***************************************************************************)
EXTENDS Integers

CONSTANTS Tabs, Accounts,
          Owner,       \* the account every tab is logged in with
          Legacy,      \* tabs of clients that send no sequence number
          LeaseTTL,    \* life of a lease key (presence_ttl)
          SeqTTL,      \* life of a sequence key (PRESENCE_SEQUENCE_TTL)
          MaxDelay,    \* bound: oldest request Redis can still be handed
          MaxTime,     \* bound on the clock
          MaxSeq       \* bound on the requests of one tab

ASSUME PresenceAssumption ==
  /\ Owner \in [Tabs -> Accounts]
  /\ Legacy \subseteq Tabs
  /\ LeaseTTL \in Nat \ {0} /\ SeqTTL \in Nat /\ MaxDelay \in Nat
  /\ MaxTime \in Nat /\ MaxSeq \in Nat
  /\ MaxDelay < SeqTTL

VARIABLES clock,
          page,        \* the tab: browserPresence.js and the logout handler
          revoked,     \* tabs whose JWT has been revoked
          reqs,        \* requests on the wire and in the handlers
          lease,       \* expiry of the lease key (0: no key)
          order,       \* sequence key: last sequence and its expiry
          lastSeen,    \* last-seen key of an account (0: no key)
          last,        \* history: newest message of a tab ever accepted
          activity     \* history: last instant the account had a live lease

vars == <<clock, page, revoked, reqs, lease, order, lastSeen, last, activity>>

\* Mutated form: the last writer wins
LaterBlind(a, b) == b

Later(a, b) == IF a < b THEN b ELSE a

Phases == {"in", "leaving", "cleared", "out"}

Page == [phase : Phases, visible : BOOLEAN, away : BOOLEAN, current : BOOLEAN,
         seq : Nat,      \* presenceSequence
         pending : Nat,  \* the request pendingRequest stands for, 0 if null
         applied : Nat,  \* request whose snapshot was applied last
         left : Nat,     \* history: sequence of leavePage's last departure
         cleared : Nat]  \* history: sequence of the logout's departure

Request == [tab : Tabs, seq : Nat, op : {"online", "offline"},
            sent : Nat, at : Nat, phase : {"wire", "script", "seen", "reply"}]

TypeOK == /\ clock \in Nat
          /\ page \in [Tabs -> Page]
          /\ revoked \subseteq Tabs
          /\ reqs \subseteq Request
          /\ lease \in [Tabs -> Nat]
          /\ order \in [Tabs -> [seq : Nat, exp : Nat]]
          /\ lastSeen \in [Accounts -> Nat]
          /\ last \in [Tabs -> [seq : Nat, op : {"online", "offline"}, at : Nat]]
          /\ activity \in [Accounts -> Nat]

-----------------------------------------------------------------------------
(* The tab.                                                                *)

\* The effect has just mounted, in a visible or in a hidden tab; in a visible
\* one its first heartbeat is the first Beat.
FreshPage(visible) ==
  [phase |-> "in", visible |-> visible, away |-> ~visible, current |-> TRUE,
   seq |-> 0, pending |-> 0, applied |-> 0, left |-> 0, cleared |-> 0]

Init == /\ clock = 0
        /\ page \in [Tabs -> {FreshPage(TRUE), FreshPage(FALSE)}]
        /\ revoked = {}
        /\ reqs = {}
        /\ lease = [t \in Tabs |-> 0]
        /\ order = [t \in Tabs |-> [seq |-> 0, exp |-> 0]]
        /\ lastSeen = [a \in Accounts |-> 0]
        /\ last = [t \in Tabs |-> [seq |-> 0, op |-> "offline", at |-> 0]]
        /\ activity = [a \in Accounts |-> 0]

\* Mutated form: only the visibility counts, not that the page was left
CanSyncVisible(p) == p.visible /\ p.current

CanSync(p) == ~p.away /\ p.visible /\ p.current

\* syncDirectoryPresence: one heartbeat unless one is pending.
Synced(p) == IF CanSync(p) /\ p.pending = 0
             THEN [p EXCEPT !.seq = @ + 1, !.pending = p.seq + 1]
             ELSE p

\* Mutated form: leavePage keeps pendingRequest
DepartedWaiting(p) ==
  IF p.away \/ ~p.current THEN [p EXCEPT !.away = TRUE]
  ELSE [p EXCEPT !.away = TRUE, !.seq = @ + 1, !.left = p.seq + 1]

\* leavePage: a departure, once, and only while the session is current.
Departed(p) ==
  LET gone == [p EXCEPT !.away = TRUE, !.pending = 0] IN
  IF p.away THEN p
  ELSE IF p.current THEN [gone EXCEPT !.seq = @ + 1, !.left = p.seq + 1]
  ELSE gone

\* The tab t moves to state q, which has taken a new sequence number iff it
\* sends the request op.
Becomes(t, q, op) ==
  /\ q.seq <= MaxSeq
  /\ page' = [page EXCEPT ![t] = q]
  /\ reqs' = IF q.seq = page[t].seq THEN reqs
             ELSE reqs \cup {[tab |-> t, seq |-> q.seq, op |-> op,
                              sent |-> clock, at |-> 0, phase |-> "wire"]}
  /\ UNCHANGED <<clock, revoked, lease, order, lastSeen, last, activity>>

\* The two second timer.
Beat(t) == /\ page[t].phase # "out"
           /\ CanSync(page[t]) /\ page[t].pending = 0
           /\ Becomes(t, Synced(page[t]), "online")

\* visibilitychange to hidden.
Hide(t) == /\ page[t].phase # "out" /\ page[t].visible
           /\ Becomes(t, Departed([page[t] EXCEPT !.visible = FALSE]), "offline")

\* pagehide, which may come while the document is still visible.
PageHide(t) == /\ page[t].phase # "out" /\ ~page[t].away
               /\ Becomes(t, Departed(page[t]), "offline")

\* visibilitychange to visible, focus or pageshow.
Resume(t) == /\ page[t].phase # "out" /\ page[t].away
             /\ Becomes(t, Synced([page[t] EXCEPT !.visible = TRUE, !.away = FALSE]),
                        "online")

\* React runs the effect again because one of its dependencies changed (the
\* user record, the number of directory accounts): the old instance stops
\* without a departure, the new one starts with the session of this moment.
Restart(t) == /\ page[t].phase # "out"
              /\ Becomes(t, Synced([page[t] EXCEPT !.away = ~page[t].visible,
                                                   !.pending = 0, !.current = TRUE]),
                         "online")

\* The heartbeat fails: network error, 503, or the 15 second abort.
HeartbeatFails(t) ==
  /\ page[t].pending # 0
  /\ page' = [page EXCEPT ![t].pending = 0]
  /\ UNCHANGED <<clock, revoked, reqs, lease, order, lastSeen, last, activity>>

\* handleLogout: accountSessionRef moves on at once, ...
LogoutStart(t) ==
  /\ page[t].phase = "in"
  /\ page' = [page EXCEPT ![t] = [@ EXCEPT !.phase = "leaving", !.current = FALSE]]
  /\ UNCHANGED <<clock, revoked, reqs, lease, order, lastSeen, last, activity>>

\* ... chatManagementService.logout sends a departure, whatever the page does, ...
LogoutClear(t) ==
  /\ page[t].phase = "leaving"
  /\ Becomes(t, [page[t] EXCEPT !.phase = "cleared", !.seq = @ + 1,
                                !.cleared = page[t].seq + 1],
             "offline")

\* ... the logout request revokes the token, ...
Revoke(t) ==
  /\ page[t].phase \in {"cleared", "out"} /\ t \notin revoked
  /\ revoked' = revoked \cup {t}
  /\ UNCHANGED <<clock, page, reqs, lease, order, lastSeen, last, activity>>

\* Mutated form: a phase of its own for a logout that failed
LogoutDoneFailed(t) ==
  /\ page[t].phase = "cleared"
  /\ page' = [page EXCEPT ![t] = [@ EXCEPT !.phase = "failed", !.pending = 0]]
  /\ UNCHANGED <<clock, revoked, reqs, lease, order, lastSeen, last, activity>>

\* ... and, answered or failed, the effect is torn down.
LogoutDone(t) ==
  /\ page[t].phase = "cleared"
  /\ page' = [page EXCEPT ![t] = [@ EXCEPT !.phase = "out", !.pending = 0]]
  /\ UNCHANGED <<clock, revoked, reqs, lease, order, lastSeen, last, activity>>

-----------------------------------------------------------------------------
(* The network and the server.                                             *)

Live(t) == clock < lease[t]

\* The request q reaches the next phase of its handling; nobody waits for the
\* answer to a departure.
MoveTo(q, r) ==
  reqs' = IF r.phase = "reply" /\ r.op = "offline" THEN reqs \ {q}
          ELSE (reqs \ {q}) \cup {r}

\* A handler starts: the request is authenticated and the time stamped.
Receive(q) ==
  /\ q \in reqs /\ q.phase = "wire" /\ q.tab \notin revoked
  /\ MoveTo(q, [q EXCEPT !.phase = "script", !.at = clock])
  /\ UNCHANGED <<clock, page, revoked, lease, order, lastSeen, last, activity>>

\* A request is lost, refused, or fails in Redis, or its answer is lost.
Drop(q) ==
  /\ q \in reqs
  /\ reqs' = reqs \ {q}
  /\ UNCHANGED <<clock, page, revoked, lease, order, lastSeen, last, activity>>

\* Mutated form: no sequence check
InOrderAlways(q) == TRUE

\* Mutated form: only heartbeats are checked against the sequence key
InOrderHeartbeats(q) == \/ q.tab \in Legacy \/ q.op = "offline"
                        \/ clock >= order[q.tab].exp
                        \/ q.seq > order[q.tab].seq

\* The sequence key lets the request through: there is no key, or a lower one.
InOrder(q) == \/ q.tab \in Legacy
              \/ clock >= order[q.tab].exp
              \/ q.seq > order[q.tab].seq

\* Mutated form: a departure counts as a change whether or not there was a lease
ChangedAlways(q) == InOrder(q)

\* What the script reports: a lease was set, or a lease was there to delete.
Changed(q) == InOrder(q) /\ (q.op = "online" \/ Live(q.tab))

\* _update_lease: one Lua script over the lease key and the sequence key, or,
\* without a sequence, the one command on the lease key.
UpdateLease(q) ==
  /\ q \in reqs /\ q.phase = "script"
  /\ lease' = IF ~InOrder(q) THEN lease
              ELSE [lease EXCEPT ![q.tab] = IF q.op = "online" THEN clock + LeaseTTL ELSE 0]
  /\ order' = IF ~InOrder(q) \/ q.tab \in Legacy THEN order
              ELSE [order EXCEPT ![q.tab] = [seq |-> q.seq, exp |-> clock + SeqTTL]]
  /\ MoveTo(q, [q EXCEPT !.phase = IF Changed(q) THEN "seen" ELSE "reply"])
  /\ last' = IF InOrder(q) /\ q.seq > last[q.tab].seq
             THEN [last EXCEPT ![q.tab] = [seq |-> q.seq, op |-> q.op, at |-> clock]]
             ELSE last
  /\ activity' = IF Live(q.tab) \/ clock < lease'[q.tab]
                 THEN [activity EXCEPT ![Owner[q.tab]] = clock]
                 ELSE activity
  /\ UNCHANGED <<clock, page, revoked, lastSeen>>

\* _write_last_seen: the second script keeps the later of the two times.  Its
\* failure (write = FALSE) is swallowed.
WriteLastSeen(q, write) ==
  /\ q \in reqs /\ q.phase = "seen"
  /\ lastSeen' = IF write THEN [lastSeen EXCEPT ![Owner[q.tab]] = Later(@, q.at)]
                 ELSE lastSeen
  /\ MoveTo(q, [q EXCEPT !.phase = "reply"])
  /\ UNCHANGED <<clock, page, revoked, lease, order, last, activity>>

\* The answer to a heartbeat reaches its tab; it is applied if it is the one
\* awaited and the tab still polls.
Answer(q) ==
  LET t == q.tab
      p == page[t]
      mine == p.pending = q.seq IN
  /\ q \in reqs /\ q.phase = "reply"
  /\ page' = IF mine
             THEN [page EXCEPT ![t] = [p EXCEPT
                     !.pending = 0,
                     !.applied = IF CanSync(p) THEN q.seq ELSE p.applied]]
             ELSE page
  /\ reqs' = reqs \ {q}
  /\ UNCHANGED <<clock, revoked, lease, order, lastSeen, last, activity>>

\* Redis expires keys by its clock.  No request reaches Redis more than
\* MaxDelay after it was sent (the client gives up after 15 seconds).
PassTime ==
  /\ clock < MaxTime
  /\ clock' = clock + 1
  /\ reqs' = {q \in reqs : q.phase \in {"seen", "reply"} \/ clock' <= q.sent + MaxDelay}
  /\ activity' = [a \in Accounts |->
                   IF \E t \in Tabs : Owner[t] = a /\ clock' < lease[t]
                   THEN clock' ELSE activity[a]]
  /\ UNCHANGED <<page, revoked, lease, order, lastSeen, last>>

TabStep(t) == \/ Beat(t) \/ Hide(t) \/ PageHide(t) \/ Resume(t) \/ Restart(t)
              \/ HeartbeatFails(t)
              \/ LogoutStart(t) \/ LogoutClear(t) \/ LogoutDone(t)

ServerStep(q) == \/ Receive(q) \/ Drop(q) \/ UpdateLease(q)
                 \/ \E write \in BOOLEAN : WriteLastSeen(q, write)
                 \/ Answer(q)

Next == \/ PassTime
        \/ \E t \in Tabs : TabStep(t) \/ Revoke(t)
        \/ \E q \in reqs : ServerStep(q)

Spec == Init /\ [][Next]_vars

-----------------------------------------------------------------------------
(* Properties.                                                             *)

Sequenced == Tabs \ Legacy

(* The lease of a sequenced tab follows the newest message accepted, in    *)
(* whatever order the messages came: online iff that message was a         *)
(* heartbeat not older than the lease's life.  A delayed heartbeat does    *)
(* not bring a departed tab back, and a delayed departure does not take a  *)
(* resumed tab away (_PRESENCE_SEQUENCE_SCRIPT).                           *)
NewestIntentWins ==
  \A t \in Sequenced :
    Live(t) <=> last[t].op = "online" /\ clock < last[t].at + LeaseTTL

(* The last-seen time of an account never lies after the last instant at   *)
(* which one of its tabs had a live lease: a late or repeated departure,   *)
(* or one of a tab whose lease ran out, invents no activity                *)
(* (mark_offline).                                                         *)
LastSeenWasAlive == \A a \in Accounts : lastSeen[a] <= activity[a]

(* No request, however late, moves the last-seen time of an account back   *)
(* (_LAST_SEEN_MONOTONIC_SCRIPT).                                          *)
LastSeenMonotone == [][\A a \in Accounts : lastSeen'[a] >= lastSeen[a]]_vars

(* A tab applies the snapshots in the order it asked for them, and none it *)
(* asked for before it last left the page (the pendingRequest guard of     *)
(* browserPresence.js).                                                    *)
SnapshotsInOrder ==
  [][\A t \in Tabs : page'[t].applied # page[t].applied =>
       /\ page'[t].applied > page[t].applied
       /\ page'[t].applied > page[t].left]_vars

(* A tab that left the page, and whose departure or a later message Redis  *)
(* accepted, stays offline for as long as it is away: nothing but coming   *)
(* back starts the heartbeats again (leavePage, and the start state of a   *)
(* restarted effect).                                                      *)
AwayIsOffline ==
  \A t \in Sequenced :
    /\ page[t].phase = "in" /\ (page[t].away \/ ~page[t].visible)
    /\ page[t].left > 0 /\ last[t].seq >= page[t].left
    => ~Live(t)

(* "logout ... remove[s] ... the current browser lease": once Redis has    *)
(* accepted the departure sent by the logout, the tab stays offline.       *)
LogoutRemovesLease ==
  \A t \in Sequenced : page[t].cleared > 0 /\ last[t].seq >= page[t].cleared
                        => ~Live(t)

(* The detailed specification implements the abstract one.                 *)
Intent == INSTANCE PresenceIntent
            WITH Tabs <- Sequenced, Numbers <- 1..MaxSeq, now <- clock,
                 newest <- [t \in Sequenced |-> last[t]],
                 online <- [t \in Sequenced |-> Live(t)]

IntentSpec == Intent!Spec
=============================================================================
