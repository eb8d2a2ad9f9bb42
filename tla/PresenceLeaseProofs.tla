------------------------- MODULE PresenceLeaseProofs -------------------------
(***************************************************************************)
(* Proofs about PresenceLease for any number of tabs and accounts and any  *)
(* life times with MaxDelay < SeqTTL.  The invariant IInv says, of each    *)
(* sequenced tab, that lease and sequence key are functions of the newest  *)
(* message accepted; that this survives an expired sequence key rests on   *)
(* RequestsOk: a request numbered below the newest accepted message was    *)
(* sent before that message was accepted, so it is gone from the network   *)
(* when the sequence key goes.                                             *)
(***************************************************************************)
EXTENDS PresenceLease, TLAPS

Ops == {"online", "offline"}

\* What a tab knows of its own numbers.
PageOk(p) ==
  /\ p.left <= p.seq /\ p.applied <= p.seq /\ p.cleared <= p.seq /\ p.pending <= p.seq
  /\ p.pending # 0 => p.pending > p.left /\ p.pending > p.applied
  /\ p.phase = "in" => p.current /\ (p.away \/ ~p.visible => p.seq = p.left)

PagesOk == \A t \in Tabs : /\ PageOk(page[t])
                           /\ page[t].seq <= MaxSeq
                           /\ last[t].seq <= page[t].seq
                           /\ last[t].at <= clock
                           /\ last[t].seq = page[t].left => last[t].op = "offline"

RequestOk(q) ==
  /\ q.seq <= page[q.tab].seq /\ q.sent <= clock /\ q.at <= clock
  /\ q.seq = page[q.tab].left => q.op = "offline"
  /\ q.phase \in {"wire", "script"} =>
       /\ clock <= q.sent + MaxDelay
       /\ q.seq <= last[q.tab].seq => q.sent <= last[q.tab].at
  /\ q.phase = "seen" => q.at <= activity[Owner[q.tab]]

RequestsOk == \A q \in reqs : RequestOk(q) /\ q.seq > 0

\* The two keys of a tab are what its newest accepted message made them.
KeysOk == \A t \in Sequenced :
  /\ lease[t] = IF last[t].op = "online" THEN last[t].at + LeaseTTL ELSE 0
  /\ order[t].seq = last[t].seq
  /\ order[t].exp = IF last[t].seq = 0 THEN 0 ELSE last[t].at + SeqTTL

SeenOk == \A a \in Accounts : lastSeen[a] <= activity[a] /\ activity[a] <= clock

IInv == TypeOK /\ PagesOk /\ RequestsOk /\ KeysOk /\ SeenOk

-----------------------------------------------------------------------------
(* The steps of a tab.                                                     *)

\* No tab applies a snapshot.
NothingApplied == \A u \in Tabs : page'[u].applied = page[u].applied

\* The next state q of a tab in state p: it takes at most one number, and a
\* number it remembers as a departure is the one of the departure it sends.
GoodMove(p, q, op) ==
  /\ q \in Page /\ PageOk(q) /\ op \in Ops /\ q.applied = p.applied
  /\ \/ q.seq = p.seq /\ q.left = p.left
     \/ q.seq = p.seq + 1 /\ q.left = p.left
     \/ q.seq = p.seq + 1 /\ q.left = q.seq /\ op = "offline"

(* A step of a tab that is a GoodMove keeps the invariant.                 *)
LEMMA BecomesKeeps ==
  ASSUME IInv, NEW t \in Tabs, NEW q, NEW op, GoodMove(page[t], q, op), Becomes(t, q, op)
  PROVE IInv' /\ NothingApplied
<1> DEFINE new == [tab |-> t, seq |-> q.seq, op |-> op,
                   sent |-> clock, at |-> 0, phase |-> "wire"]
<1> USE PresenceAssumption
<1>0. /\ page \in [Tabs -> Page] /\ page[t] \in Page /\ PageOk(page[t])
      /\ clock \in Nat /\ q \in Page /\ op \in Ops
      /\ UNCHANGED <<clock, revoked, lease, order, lastSeen, last, activity>>
      /\ page' = [page EXCEPT ![t] = q]
  BY DEF IInv, TypeOK, PagesOk, Becomes, GoodMove
<1>1. /\ reqs' \subseteq reqs \cup {new}
      /\ new \in reqs' => new \in reqs \/ q.seq = page[t].seq + 1
  BY <1>0 DEF Becomes, GoodMove, Page
<1>2. new \in Request
  BY <1>0 DEF Request, Page, Ops
<1>3. TypeOK'
  BY <1>0, <1>1, <1>2 DEF IInv, TypeOK
<1>4. /\ q.seq >= page[t].seq /\ q.seq \in Nat /\ page[t].seq \in Nat
      /\ q.left \in Nat /\ page[t].left \in Nat
      /\ q.left = page[t].left \/ q.left = page[t].seq + 1
  BY <1>0 DEF GoodMove, Page
<1>5. \A u \in Tabs : /\ page'[u] = IF u = t THEN q ELSE page[u]
                      /\ last[u].seq \in Nat /\ last[u].at \in Nat
                      /\ page[u].seq \in Nat /\ page[u].left \in Nat
  BY <1>0 DEF IInv, TypeOK, Page
<1>6. PagesOk'
  <2> SUFFICES ASSUME NEW u \in Tabs
               PROVE /\ PageOk(page'[u])
                     /\ page'[u].seq <= MaxSeq
                     /\ last[u].seq <= page'[u].seq
                     /\ last[u].at <= clock
                     /\ last[u].seq = page'[u].left => last[u].op = "offline"
    BY <1>0 DEF PagesOk
  <2>1. /\ PageOk(page[u]) /\ page[u].seq <= MaxSeq /\ last[u].seq <= page[u].seq /\ last[u].at <= clock
        /\ last[u].seq = page[u].left => last[u].op = "offline"
    BY DEF IInv, PagesOk
  <2>2. PageOk(q) /\ q.seq <= MaxSeq
    BY DEF GoodMove, Becomes
  <2>3. CASE u # t
    BY <2>1, <2>3, <1>5
  <2>4. CASE u = t
    BY <2>1, <2>2, <2>4, <1>4, <1>5
  <2> QED BY <2>3, <2>4
<1>7. RequestsOk'
  <2> SUFFICES ASSUME NEW r \in reqs'
               PROVE RequestOk(r)' /\ r.seq > 0
    BY DEF RequestsOk
  <2>1. CASE r \in reqs
    <3>1. RequestOk(r) /\ r.seq > 0 /\ r \in Request
      BY <2>1 DEF IInv, RequestsOk, TypeOK
    <3>2. /\ r.seq <= page'[r.tab].seq
          /\ r.seq = page'[r.tab].left => r.op = "offline"
      BY <3>1, <1>4, <1>5 DEF RequestOk, Request
    <3> QED BY <3>1, <3>2, <1>0 DEF RequestOk
  <2>2. CASE r = new /\ new \notin reqs
    <3>1. q.seq = page[t].seq + 1 /\ last[t].seq <= page[t].seq /\ last[t].seq \in Nat
      BY <2>2, <1>1, <1>5 DEF IInv, PagesOk
    <3>2. q.seq = q.left => op = "offline"
      BY <3>1, <1>0, <1>4 DEF GoodMove, PageOk, Page
    <3> QED BY <3>1, <3>2, <2>2, <1>0, <1>4, <1>5 DEF RequestOk
  <2> QED BY <2>1, <2>2, <1>1
<1>8. KeysOk' /\ SeenOk'
  BY <1>0 DEF IInv, KeysOk, SeenOk
<1>9. NothingApplied
  BY <1>5 DEF GoodMove, NothingApplied
<1> QED BY <1>3, <1>6, <1>7, <1>8, <1>9 DEF IInv

(* A step that gives a tab no new number and adds no request keeps it too.  *)
LEMMA QuietKeeps ==
  ASSUME IInv, NEW t \in Tabs, NEW q \in Page, PageOk(q),
         q.seq = page[t].seq, q.left = page[t].left,
         page' = [page EXCEPT ![t] = q], reqs' \subseteq reqs,
         UNCHANGED <<clock, lease, order, lastSeen, last, activity>>,
         revoked' \subseteq Tabs
  PROVE IInv'
<1>1. TypeOK'
  BY DEF IInv, TypeOK
<1>2. \A u \in Tabs : /\ page'[u] = IF u = t THEN q ELSE page[u]
                      /\ page'[u].seq = page[u].seq /\ page'[u].left = page[u].left
  BY DEF IInv, TypeOK
<1>3. PagesOk'
  BY <1>2 DEF IInv, PagesOk
<1>4. RequestsOk'
  <2> SUFFICES ASSUME NEW r \in reqs' PROVE RequestOk(r)' /\ r.seq > 0
    BY DEF RequestsOk
  <2>1. RequestOk(r) /\ r.seq > 0 /\ r.tab \in Tabs
    BY DEF IInv, RequestsOk, TypeOK, Request
  <2> QED BY <2>1, <1>2 DEF RequestOk
<1>5. KeysOk' /\ SeenOk'
  BY DEF IInv, KeysOk, SeenOk
<1> QED BY <1>1, <1>3, <1>4, <1>5 DEF IInv

(* Updates of a page record that stay one.                                 *)
LEMMA PageUpdates ==
  ASSUME NEW p \in Page, NEW n \in Nat, NEW k \in Nat
  PROVE /\ [p EXCEPT !.seq = n, !.pending = k] \in Page
        /\ [p EXCEPT !.seq = n, !.left = k] \in Page
        /\ [p EXCEPT !.pending = n, !.applied = k] \in Page
BY DEF Page

(* The helpers of browserPresence.js are GoodMoves.                        *)
LEMMA SyncedMoves ==
  ASSUME NEW p \in Page, PageOk(p)
  PROVE GoodMove(p, Synced(p), "online")
<1> DEFINE q == [p EXCEPT !.seq = @ + 1, !.pending = p.seq + 1]
<1>1. CASE Synced(p) = p
  BY <1>1 DEF GoodMove, Ops
<1>2. CASE Synced(p) = q /\ CanSync(p)
  <2>0. q \in Page
    <3>1. p.seq + 1 \in Nat
      BY DEF Page
    <3> QED BY <3>1, PageUpdates
  <2>1. /\ q.seq = p.seq + 1 /\ q.pending = p.seq + 1
        /\ q.left = p.left /\ q.applied = p.applied /\ q.cleared = p.cleared
        /\ q.phase = p.phase /\ q.current = p.current
        /\ q.away = p.away /\ q.visible = p.visible
    BY DEF Page
  <2>2. PageOk(q)
    BY <2>1, <1>2 DEF PageOk, Page, CanSync
  <2> HIDE DEF q
  <2> QED BY <2>0, <2>1, <2>2, <1>2 DEF GoodMove, Ops
<1> QED BY <1>1, <1>2 DEF Synced

LEMMA DepartedMoves ==
  ASSUME NEW p \in Page, p.left <= p.seq, p.applied <= p.seq, p.cleared <= p.seq,
         p.pending <= p.seq,
         p.pending # 0 => p.pending > p.left /\ p.pending > p.applied,
         p.phase = "in" => p.current /\ (p.away => p.seq = p.left)
  PROVE GoodMove(p, Departed(p), "offline")
<1> DEFINE gone == [p EXCEPT !.away = TRUE, !.pending = 0]
           sent == [gone EXCEPT !.seq = @ + 1, !.left = p.seq + 1]
<1>1. CASE Departed(p) = p /\ p.away
  BY <1>1 DEF GoodMove, PageOk, Ops
<1>2. CASE Departed(p) = sent
  <2>0. sent \in Page
    <3>1. gone \in Page
      BY DEF Page
    <3>2. gone.seq + 1 \in Nat /\ p.seq + 1 \in Nat
      BY DEF Page
    <3>3. [gone EXCEPT !.seq = gone.seq + 1, !.left = p.seq + 1] \in Page
      <4> HIDE DEF gone
      <4> QED BY <3>1, <3>2, PageUpdates, Zenon
    <3> QED BY <3>3
  <2>1. /\ sent.seq = p.seq + 1 /\ sent.left = p.seq + 1
        /\ sent.pending = 0 /\ sent.applied = p.applied /\ sent.cleared = p.cleared
        /\ sent.phase = p.phase /\ sent.current = p.current
    BY DEF Page
  <2>2. PageOk(sent)
    BY <2>1 DEF PageOk, Page
  <2> HIDE DEF sent
  <2> QED BY <2>0, <2>1, <2>2, <1>2 DEF GoodMove, Ops
<1>3. CASE Departed(p) = gone /\ ~p.current
  <2>1. /\ gone \in Page /\ gone.seq = p.seq /\ gone.left = p.left
        /\ gone.pending = 0 /\ gone.applied = p.applied /\ gone.cleared = p.cleared
        /\ gone.phase = p.phase
    BY DEF Page
  <2>2. PageOk(gone)
    BY <2>1, <1>3 DEF PageOk, Page
  <2> HIDE DEF gone
  <2> QED BY <2>1, <2>2, <1>3 DEF GoodMove, Ops
<1> QED BY <1>1, <1>2, <1>3 DEF Departed

(* Every step of a tab keeps the invariant.                                *)
LEMMA TabKeeps ==
  ASSUME IInv, NEW t \in Tabs, TabStep(t)
  PROVE IInv' /\ NothingApplied
<1> DEFINE p == page[t]
<1>0. p \in Page /\ PageOk(p)
  BY DEF IInv, TypeOK, PagesOk
<1>1. CASE Beat(t)
  <2>1. GoodMove(p, Synced(p), "online")
    BY <1>0, SyncedMoves
  <2> QED BY <2>1, <1>1, BecomesKeeps DEF Beat
<1>2. CASE Hide(t)
  <2> DEFINE h == [p EXCEPT !.visible = FALSE]
  <2>1. /\ h \in Page /\ h.seq = p.seq /\ h.left = p.left /\ h.applied = p.applied
        /\ h.cleared = p.cleared /\ h.pending = p.pending /\ h.phase = p.phase
        /\ h.current = p.current /\ h.away = p.away
    BY <1>0 DEF Page
  <2>2. GoodMove(h, Departed(h), "offline")
    <3> HIDE DEF h
    <3> QED BY <2>1, <1>0, DepartedMoves DEF PageOk
  <2>3. GoodMove(p, Departed(h), "offline")
    BY <2>1, <2>2 DEF GoodMove
  <2> QED BY <2>3, <1>2, BecomesKeeps DEF Hide
<1>3. CASE PageHide(t)
  <2>1. GoodMove(p, Departed(p), "offline")
    BY <1>0, DepartedMoves DEF PageOk
  <2> QED BY <2>1, <1>3, BecomesKeeps DEF PageHide
<1>4. CASE Resume(t)
  <2> DEFINE h == [p EXCEPT !.visible = TRUE, !.away = FALSE]
  <2>1. /\ h \in Page /\ h.seq = p.seq /\ h.left = p.left /\ h.applied = p.applied
        /\ h.cleared = p.cleared /\ h.pending = p.pending /\ h.phase = p.phase
        /\ h.current = p.current /\ ~h.away /\ h.visible
    BY <1>0 DEF Page
  <2>2. PageOk(h)
    BY <2>1, <1>0 DEF PageOk
  <2>3. GoodMove(h, Synced(h), "online")
    <3> HIDE DEF h
    <3> QED BY <2>1, <2>2, SyncedMoves
  <2>4. GoodMove(p, Synced(h), "online")
    BY <2>1, <2>3 DEF GoodMove
  <2> QED BY <2>4, <1>4, BecomesKeeps DEF Resume
<1>5. CASE Restart(t)
  <2> DEFINE h == [p EXCEPT !.away = ~p.visible, !.pending = 0, !.current = TRUE]
  <2>1. /\ h \in Page /\ h.seq = p.seq /\ h.left = p.left /\ h.applied = p.applied
        /\ h.cleared = p.cleared /\ h.pending = 0 /\ h.phase = p.phase
    BY <1>0 DEF Page
  <2>2. h.current /\ (h.away <=> ~p.visible) /\ (h.visible <=> p.visible)
    BY <1>0, Zenon DEF Page
  <2>3. PageOk(h)
    BY <2>1, <2>2, <1>0 DEF PageOk, Page
  <2>4. GoodMove(h, Synced(h), "online")
    <3> HIDE DEF h
    <3> QED BY <2>1, <2>3, SyncedMoves
  <2>5. GoodMove(p, Synced(h), "online")
    BY <2>1, <2>4 DEF GoodMove
  <2> QED BY <2>5, <1>5, BecomesKeeps DEF Restart
<1>6. CASE LogoutClear(t)
  <2> DEFINE h == [p EXCEPT !.phase = "cleared", !.seq = @ + 1, !.cleared = p.seq + 1]
  <2>1. p.seq + 1 \in Nat
    BY <1>0 DEF Page
  <2>2. h \in Page
    BY <2>1, <1>0 DEF Page, Phases
  <2>3. /\ h.seq = p.seq + 1 /\ h.left = p.left /\ h.applied = p.applied
        /\ h.cleared = p.seq + 1 /\ h.pending = p.pending /\ h.phase = "cleared"
    BY <1>0 DEF Page
  <2>4. PageOk(h)
    BY <2>3, <1>0 DEF PageOk, Page
  <2>5. GoodMove(p, h, "offline")
    BY <2>2, <2>3, <2>4 DEF GoodMove, Ops
  <2> QED BY <2>5, <1>6, BecomesKeeps DEF LogoutClear
<1>7. CASE HeartbeatFails(t)
  <2> DEFINE h == [p EXCEPT !.pending = 0]
  <2>1. /\ h \in Page /\ h.seq = p.seq /\ h.left = p.left /\ h.applied = p.applied
        /\ h.cleared = p.cleared /\ h.pending = 0 /\ h.phase = p.phase
        /\ h.current = p.current /\ h.away = p.away /\ h.visible = p.visible
    BY <1>0 DEF Page
  <2>2. PageOk(h)
    BY <2>1, <1>0 DEF PageOk, Page
  <2>3. page' = [page EXCEPT ![t] = h]
    BY <1>7 DEF HeartbeatFails, IInv, TypeOK
  <2>4. NothingApplied
    BY <2>1, <2>3 DEF NothingApplied, IInv, TypeOK
  <2> HIDE DEF h
  <2> QED BY <2>1, <2>2, <2>3, <2>4, <1>7, QuietKeeps DEF HeartbeatFails, IInv, TypeOK
<1>8. CASE LogoutStart(t)
  <2> DEFINE h == [p EXCEPT !.phase = "leaving", !.current = FALSE]
  <2>1. h \in Page
    BY <1>0 DEF Page, Phases
  <2>2. /\ h.seq = p.seq /\ h.left = p.left /\ h.applied = p.applied
        /\ h.cleared = p.cleared /\ h.pending = p.pending /\ h.phase = "leaving"
    BY <1>0 DEF Page
  <2>3. PageOk(h)
    BY <2>2, <1>0 DEF PageOk, Page
  <2>4. page' = [page EXCEPT ![t] = h]
    BY <1>8 DEF LogoutStart, IInv, TypeOK
  <2>5. NothingApplied
    BY <2>2, <2>4 DEF NothingApplied, IInv, TypeOK
  <2> HIDE DEF h
  <2> QED BY <2>1, <2>2, <2>3, <2>4, <2>5, <1>8, QuietKeeps DEF LogoutStart, IInv, TypeOK
<1>9. CASE LogoutDone(t)
  <2> DEFINE h == [p EXCEPT !.phase = "out", !.pending = 0]
  <2>1. h \in Page
    BY <1>0 DEF Page, Phases
  <2>2. /\ h.seq = p.seq /\ h.left = p.left /\ h.applied = p.applied
        /\ h.cleared = p.cleared /\ h.pending = 0 /\ h.phase = "out"
    BY <1>0 DEF Page
  <2>3. PageOk(h)
    BY <2>2, <1>0 DEF PageOk, Page
  <2>4. page' = [page EXCEPT ![t] = h]
    BY <1>9 DEF LogoutDone, IInv, TypeOK
  <2>5. NothingApplied
    BY <2>2, <2>4 DEF NothingApplied, IInv, TypeOK
  <2> HIDE DEF h
  <2> QED BY <2>1, <2>2, <2>3, <2>4, <2>5, <1>9, QuietKeeps DEF LogoutDone, IInv, TypeOK
<1> QED
  BY <1>1, <1>2, <1>3, <1>4, <1>5, <1>6, <1>7, <1>8, <1>9 DEF TabStep

-----------------------------------------------------------------------------
(* The steps of the server and the clock.                                  *)

(* Whatever the sequence key says, a request that can still reach Redis    *)
(* gets through exactly when it is newer than every accepted one.          *)
LEMMA InOrderIsNewer ==
  ASSUME IInv, NEW q \in reqs, q.phase = "script", q.tab \in Sequenced
  PROVE InOrder(q) <=> q.seq > last[q.tab].seq
<1> USE PresenceAssumption
<1>1. /\ q.seq \in Nat /\ q.sent \in Nat /\ q.seq > 0 /\ q.tab \in Tabs /\ clock \in Nat
      /\ last[q.tab].seq \in Nat /\ last[q.tab].at \in Nat
      /\ order[q.tab].seq = last[q.tab].seq
      /\ order[q.tab].exp = IF last[q.tab].seq = 0 THEN 0 ELSE last[q.tab].at + SeqTTL
      /\ clock <= q.sent + MaxDelay
      /\ q.seq <= last[q.tab].seq => q.sent <= last[q.tab].at
  BY DEF IInv, TypeOK, RequestsOk, RequestOk, KeysOk, Request, Sequenced
<1>2. q.tab \notin Legacy
  BY DEF Sequenced
<1>3. CASE q.seq > last[q.tab].seq
  BY <1>1, <1>3 DEF InOrder
<1>4. CASE q.seq <= last[q.tab].seq
  BY <1>1, <1>2, <1>4 DEF InOrder
<1> QED BY <1>1, <1>3, <1>4

LEMMA UpdateKeeps ==
  ASSUME IInv, NEW q \in reqs, UpdateLease(q)
  PROVE IInv'
<1> USE PresenceAssumption
<1> DEFINE t == q.tab
           r0 == [q EXCEPT !.phase = IF Changed(q) THEN "seen" ELSE "reply"]
<1>1. /\ q \in Request /\ t \in Tabs /\ q.seq \in Nat /\ q.sent \in Nat /\ q.at \in Nat
      /\ q.op \in Ops /\ RequestOk(q) /\ q.seq > 0 /\ clock \in Nat /\ Owner[t] \in Accounts
  BY DEF IInv, TypeOK, RequestsOk, Request, Ops
<1>2. /\ r0 \in Request /\ r0.tab = t /\ r0.seq = q.seq /\ r0.op = q.op /\ r0.sent = q.sent
      /\ r0.at = q.at /\ r0.phase = IF Changed(q) THEN "seen" ELSE "reply"
  BY <1>1 DEF Request
<1>3. reqs' \subseteq reqs \cup {r0}
  BY DEF UpdateLease, MoveTo
<1>4. UNCHANGED <<clock, page, revoked, lastSeen>>
  BY DEF UpdateLease
<1>5. last' \in [Tabs -> [seq : Nat, op : Ops, at : Nat]]
  BY <1>1 DEF UpdateLease, IInv, TypeOK, Ops
<1>6. \A u \in Tabs : last'[u] = IF u = t /\ InOrder(q) /\ q.seq > last[t].seq
                                 THEN [seq |-> q.seq, op |-> q.op, at |-> clock]
                                 ELSE last[u]
  BY <1>1 DEF UpdateLease, IInv, TypeOK
<1>7. \A u \in Tabs : /\ last[u].seq \in Nat /\ last[u].at \in Nat /\ last[u].at <= clock
                      /\ last[u].seq <= page[u].seq /\ page[u].seq \in Nat
                      /\ PageOk(page[u]) /\ page[u].seq <= MaxSeq
                      /\ last[u].seq = page[u].left => last[u].op = "offline"
  BY DEF IInv, TypeOK, PagesOk, Page
<1>8. /\ lease' \in [Tabs -> Nat]
      /\ \A u \in Tabs : lease'[u] = IF u = t /\ InOrder(q)
                                     THEN IF q.op = "online" THEN clock + LeaseTTL ELSE 0
                                     ELSE lease[u]
  BY <1>1 DEF UpdateLease, IInv, TypeOK
<1>9. /\ order' \in [Tabs -> [seq : Nat, exp : Nat]]
      /\ \A u \in Tabs : order'[u] = IF u = t /\ InOrder(q) /\ t \notin Legacy
                                     THEN [seq |-> q.seq, exp |-> clock + SeqTTL]
                                     ELSE order[u]
  BY <1>1 DEF UpdateLease, IInv, TypeOK
<1>10. /\ activity' \in [Accounts -> Nat]
       /\ \A a \in Accounts : activity'[a] >= activity[a] /\ activity'[a] <= clock
       /\ Changed(q) => activity'[Owner[t]] = clock
  <2>1. \A a \in Accounts : activity[a] \in Nat /\ activity[a] <= clock
    BY DEF IInv, TypeOK, SeenOk
  <2>2. activity \in [Accounts -> Nat]
    BY DEF IInv, TypeOK
  <2>3. \/ activity' = [activity EXCEPT ![Owner[t]] = clock]
        \/ activity' = activity /\ ~Live(t) /\ ~(clock < lease'[t])
    BY DEF UpdateLease
  <2>4. Changed(q) => Live(t) \/ clock < lease'[t]
    BY <1>1, <1>8 DEF Changed
  <2> QED BY <2>1, <2>2, <2>3, <2>4, <1>1
<1>11. TypeOK'
  BY <1>2, <1>3, <1>4, <1>5, <1>8, <1>9, <1>10 DEF IInv, TypeOK, Ops
<1>12. PagesOk'
  <2> SUFFICES ASSUME NEW u \in Tabs
               PROVE /\ last'[u].seq <= page[u].seq /\ last'[u].at <= clock
                     /\ last'[u].seq = page[u].left => last'[u].op = "offline"
    BY <1>4, <1>7 DEF PagesOk
  <2> QED BY <1>1, <1>6, <1>7 DEF RequestOk
<1>13. RequestsOk'
  <2> SUFFICES ASSUME NEW r \in reqs' PROVE RequestOk(r)' /\ r.seq > 0
    BY DEF RequestsOk
  <2>1. CASE r \in reqs
    <3>1. /\ RequestOk(r) /\ r.seq > 0 /\ r.tab \in Tabs /\ r.seq \in Nat /\ r.sent \in Nat
          /\ r.at \in Nat /\ Owner[r.tab] \in Accounts
      BY <2>1 DEF IInv, RequestsOk, TypeOK, Request
    <3>2. r.phase \in {"wire", "script"} /\ r.seq <= last'[r.tab].seq
            => r.sent <= last'[r.tab].at
      BY <3>1, <1>1, <1>6, <1>7 DEF RequestOk
    <3>3. r.phase = "seen" => r.at <= activity'[Owner[r.tab]]
      <4>1. r.phase = "seen" => r.at <= activity[Owner[r.tab]]
        BY <3>1 DEF RequestOk
      <4>2. activity[Owner[r.tab]] \in Nat /\ activity'[Owner[r.tab]] \in Nat
        BY <3>1, <1>10 DEF IInv, TypeOK
      <4> QED BY <4>1, <4>2, <3>1, <1>10
    <3> QED BY <3>1, <3>2, <3>3, <1>4 DEF RequestOk
  <2>2. CASE r = r0
    BY <2>2, <1>1, <1>2, <1>4, <1>10 DEF RequestOk
  <2> QED BY <2>1, <2>2, <1>3
<1>14. KeysOk'
  <2> SUFFICES ASSUME NEW u \in Sequenced
               PROVE /\ lease'[u] = IF last'[u].op = "online" THEN last'[u].at + LeaseTTL ELSE 0
                     /\ order'[u].seq = last'[u].seq
                     /\ order'[u].exp = IF last'[u].seq = 0 THEN 0 ELSE last'[u].at + SeqTTL
    BY DEF KeysOk
  <2>1. /\ u \in Tabs /\ u \notin Legacy
        /\ lease[u] = IF last[u].op = "online" THEN last[u].at + LeaseTTL ELSE 0
        /\ order[u].seq = last[u].seq
        /\ order[u].exp = IF last[u].seq = 0 THEN 0 ELSE last[u].at + SeqTTL
    BY DEF IInv, KeysOk, Sequenced
  <2>2. CASE u # t
    BY <2>1, <2>2, <1>6, <1>8, <1>9
  <2>3. CASE u = t
    <3>1. InOrder(q) <=> q.seq > last[t].seq
      BY <2>3, InOrderIsNewer DEF UpdateLease
    <3> QED BY <3>1, <2>1, <2>3, <1>1, <1>6, <1>8, <1>9
  <2> QED BY <2>2, <2>3
<1>15. SeenOk'
  <2>1. \A a \in Accounts : lastSeen[a] \in Nat /\ activity[a] \in Nat /\ activity'[a] \in Nat
                            /\ lastSeen[a] <= activity[a]
    BY <1>10 DEF IInv, TypeOK, SeenOk
  <2> QED BY <2>1, <1>4, <1>10, <1>1 DEF SeenOk
<1> QED BY <1>11, <1>12, <1>13, <1>14, <1>15 DEF IInv

LEMMA ReceiveKeeps ==
  ASSUME IInv, NEW q \in reqs, Receive(q)
  PROVE IInv'
<1> DEFINE r0 == [q EXCEPT !.phase = "script", !.at = clock]
<1>1. q \in Request /\ RequestOk(q) /\ q.seq > 0 /\ clock \in Nat /\ q.phase = "wire"
  BY DEF IInv, TypeOK, RequestsOk, Receive
<1>2. /\ r0 \in Request /\ r0.tab = q.tab /\ r0.seq = q.seq /\ r0.op = q.op
      /\ r0.sent = q.sent /\ r0.at = clock /\ r0.phase = "script"
  BY <1>1 DEF Request
<1>3. reqs' \subseteq reqs \cup {r0}
  BY DEF Receive, MoveTo
<1>4. UNCHANGED <<clock, page, revoked, lease, order, lastSeen, last, activity>>
  BY DEF Receive
<1>5. TypeOK'
  BY <1>2, <1>3, <1>4 DEF IInv, TypeOK
<1>6. RequestsOk'
  <2> SUFFICES ASSUME NEW r \in reqs' PROVE RequestOk(r)' /\ r.seq > 0
    BY DEF RequestsOk
  <2>1. CASE r \in reqs
    BY <2>1, <1>4 DEF IInv, RequestsOk, RequestOk
  <2>2. CASE r = r0
    BY <2>2, <1>1, <1>2, <1>4 DEF RequestOk
  <2> QED BY <2>1, <2>2, <1>3
<1>7. PagesOk' /\ KeysOk' /\ SeenOk'
  BY <1>4 DEF IInv, PagesOk, KeysOk, SeenOk
<1> QED BY <1>5, <1>6, <1>7 DEF IInv

LEMMA WriteKeeps ==
  ASSUME IInv, NEW q \in reqs, NEW write \in BOOLEAN, WriteLastSeen(q, write)
  PROVE IInv'
<1> USE PresenceAssumption
<1> DEFINE r0 == [q EXCEPT !.phase = "reply"]
<1>1. /\ q \in Request /\ RequestOk(q) /\ q.seq > 0 /\ clock \in Nat /\ q.phase = "seen"
      /\ Owner[q.tab] \in Accounts /\ q.at \in Nat
  BY DEF IInv, TypeOK, RequestsOk, WriteLastSeen, Request
<1>2. /\ r0 \in Request /\ r0.tab = q.tab /\ r0.seq = q.seq /\ r0.op = q.op
      /\ r0.sent = q.sent /\ r0.at = q.at /\ r0.phase = "reply"
  BY <1>1 DEF Request
<1>3. reqs' \subseteq reqs \cup {r0}
  BY DEF WriteLastSeen, MoveTo
<1>4. UNCHANGED <<clock, page, revoked, lease, order, last, activity>>
  BY DEF WriteLastSeen
<1>5. \A a \in Accounts : lastSeen[a] \in Nat /\ activity[a] \in Nat
  BY DEF IInv, TypeOK
<1>6. lastSeen' = lastSeen \/ lastSeen' = [lastSeen EXCEPT ![Owner[q.tab]] = Later(@, q.at)]
  BY DEF WriteLastSeen
<1>7. \A a \in Accounts : lastSeen'[a] \in {lastSeen[a], q.at}
                          /\ (lastSeen'[a] = lastSeen[a] \/ a = Owner[q.tab])
  BY <1>1, <1>6 DEF IInv, TypeOK, Later
<1>8. lastSeen' \in [Accounts -> Nat]
  BY <1>1, <1>5, <1>6 DEF IInv, TypeOK, Later
<1>9. TypeOK'
  BY <1>2, <1>3, <1>4, <1>8 DEF IInv, TypeOK
<1>10. RequestsOk'
  <2> SUFFICES ASSUME NEW r \in reqs' PROVE RequestOk(r)' /\ r.seq > 0
    BY DEF RequestsOk
  <2>1. CASE r \in reqs
    BY <2>1, <1>4 DEF IInv, RequestsOk, RequestOk
  <2>2. CASE r = r0
    BY <2>2, <1>1, <1>2, <1>4 DEF RequestOk
  <2> QED BY <2>1, <2>2, <1>3
<1>11. SeenOk'
  BY <1>1, <1>4, <1>5, <1>7 DEF IInv, SeenOk, RequestOk
<1>12. PagesOk' /\ KeysOk'
  BY <1>4 DEF IInv, PagesOk, KeysOk
<1> QED BY <1>9, <1>10, <1>11, <1>12 DEF IInv

LEMMA AnswerKeeps ==
  ASSUME IInv, NEW q \in reqs, Answer(q)
  PROVE IInv'
<1> DEFINE t == q.tab
           p == page[t]
           n == IF CanSync(p) THEN q.seq ELSE p.applied
           h == [p EXCEPT !.pending = 0, !.applied = n]
<1>1. /\ t \in Tabs /\ p \in Page /\ PageOk(p) /\ q.seq \in Nat /\ q.seq <= p.seq
  BY DEF IInv, TypeOK, PagesOk, RequestsOk, RequestOk, Request
<1>2. UNCHANGED <<clock, revoked, lease, order, lastSeen, last, activity>> /\ reqs' \subseteq reqs
  BY DEF Answer
<1>3. CASE page' = page
  <2>1. page' = [page EXCEPT ![t] = p]
    BY <1>3 DEF IInv, TypeOK
  <2> QED BY <2>1, <1>1, <1>2, QuietKeeps DEF IInv, TypeOK
<1>4. CASE page' # page
  <2>1. page' = [page EXCEPT ![t] = h]
    BY <1>4, <1>1 DEF Answer, IInv, TypeOK
  <2>2. n \in Nat /\ 0 \in Nat /\ n <= p.seq
    BY <1>1 DEF Page, PageOk
  <2>3. h \in Page
    BY <2>2, <1>1, PageUpdates
  <2>4. /\ h.seq = p.seq /\ h.left = p.left /\ h.applied = n
        /\ h.cleared = p.cleared /\ h.pending = 0 /\ h.phase = p.phase
        /\ h.current = p.current /\ h.away = p.away /\ h.visible = p.visible
    BY <1>1 DEF Page
  <2> HIDE DEF n, h
  <2>5. PageOk(h)
    BY <2>2, <2>4, <1>1 DEF PageOk, Page
  <2> QED BY <2>1, <2>3, <2>4, <2>5, <1>1, <1>2, QuietKeeps DEF IInv, TypeOK
<1> QED BY <1>3, <1>4

LEMMA ServerKeeps ==
  ASSUME IInv, NEW q \in reqs, ServerStep(q)
  PROVE IInv'
<1>1. CASE Drop(q)
  BY <1>1 DEF Drop, IInv, TypeOK, PagesOk, RequestsOk, RequestOk, KeysOk, SeenOk
<1>2. CASE \E write \in BOOLEAN : WriteLastSeen(q, write)
  BY <1>2, WriteKeeps
<1> QED BY <1>1, <1>2, ReceiveKeeps, UpdateKeeps, AnswerKeeps DEF ServerStep

LEMMA ClockKeeps ==
  ASSUME IInv, PassTime
  PROVE IInv'
<1> USE PresenceAssumption
<1>1. /\ clock \in Nat /\ clock' = clock + 1 /\ reqs' \subseteq reqs
      /\ UNCHANGED <<page, revoked, lease, order, lastSeen, last>>
  BY DEF PassTime, IInv, TypeOK
<1>2. /\ activity' \in [Accounts -> Nat]
      /\ \A a \in Accounts : activity[a] \in Nat /\ activity'[a] >= activity[a] /\ activity'[a] <= clock'
  BY <1>1 DEF PassTime, IInv, TypeOK, SeenOk
<1>3. TypeOK'
  BY <1>1, <1>2 DEF IInv, TypeOK
<1>4. PagesOk'
  <2>1. \A t \in Tabs : last[t].at \in Nat
    BY DEF IInv, TypeOK
  <2> QED BY <2>1, <1>1 DEF IInv, PagesOk
<1>5. RequestsOk'
  <2> SUFFICES ASSUME NEW r \in reqs' PROVE RequestOk(r)' /\ r.seq > 0
    BY DEF RequestsOk
  <2>1. /\ RequestOk(r) /\ r.seq > 0 /\ r \in Request /\ r.sent \in Nat /\ r.at \in Nat
        /\ Owner[r.tab] \in Accounts
    BY <1>1 DEF IInv, RequestsOk, TypeOK, Request
  <2>2. r.phase \in {"wire", "script"} => clock' <= r.sent + MaxDelay
    BY DEF PassTime
  <2>3. r.phase = "seen" => r.at <= activity'[Owner[r.tab]]
    <3>1. r.phase = "seen" => r.at <= activity[Owner[r.tab]]
      BY <2>1 DEF RequestOk
    <3>2. activity'[Owner[r.tab]] \in Nat
      BY <2>1, <1>2
    <3> QED BY <3>1, <3>2, <2>1, <1>2
  <2> QED BY <2>1, <2>2, <2>3, <1>1 DEF RequestOk
<1>6. KeysOk'
  BY <1>1 DEF IInv, KeysOk
<1>7. SeenOk'
  <2>1. \A a \in Accounts : lastSeen[a] \in Nat /\ activity'[a] \in Nat /\ lastSeen[a] <= activity[a]
    BY <1>2 DEF IInv, TypeOK, SeenOk
  <2> QED BY <2>1, <1>1, <1>2 DEF SeenOk
<1> QED BY <1>3, <1>4, <1>5, <1>6, <1>7 DEF IInv

LEMMA InitInv == Init => IInv
<1> SUFFICES ASSUME Init PROVE IInv
  OBVIOUS
<1> USE PresenceAssumption
<1>1. FreshPage(TRUE) \in Page /\ FreshPage(FALSE) \in Page
  BY DEF FreshPage, Page, Phases
<1>2. PageOk(FreshPage(TRUE)) /\ PageOk(FreshPage(FALSE))
  BY DEF FreshPage, PageOk
<1>3. \A t \in Tabs : page[t] \in {FreshPage(TRUE), FreshPage(FALSE)}
  BY DEF Init
<1>3a. /\ FreshPage(TRUE).seq = 0 /\ FreshPage(TRUE).left = 0
       /\ FreshPage(FALSE).seq = 0 /\ FreshPage(FALSE).left = 0
  BY DEF FreshPage
<1>4. TypeOK
  BY <1>1 DEF Init, TypeOK
<1>5. PagesOk
  <2> SUFFICES ASSUME NEW t \in Tabs
               PROVE /\ PageOk(page[t]) /\ page[t].seq <= MaxSeq
                     /\ last[t].seq <= page[t].seq /\ last[t].at <= clock
                     /\ last[t].op = "offline"
    BY DEF PagesOk
  <2>1. last[t] = [seq |-> 0, op |-> "offline", at |-> 0] /\ clock = 0
    BY DEF Init
  <2>2. PageOk(page[t]) /\ page[t].seq = 0
    BY <1>2, <1>3, <1>3a
  <2> QED BY <2>1, <2>2
<1>6. RequestsOk /\ KeysOk /\ SeenOk
  BY DEF Init, RequestsOk, KeysOk, SeenOk, Sequenced
<1> QED BY <1>4, <1>5, <1>6 DEF IInv

LEMMA NextInv == IInv /\ [Next]_vars => IInv'
<1> SUFFICES ASSUME IInv, [Next]_vars PROVE IInv'
  OBVIOUS
<1>1. CASE UNCHANGED vars
  BY <1>1 DEF vars, IInv, TypeOK, PagesOk, RequestsOk, RequestOk, KeysOk, SeenOk
<1>2. CASE \E t \in Tabs : Revoke(t)
  BY <1>2 DEF Revoke, IInv, TypeOK, PagesOk, RequestsOk, RequestOk, KeysOk, SeenOk
<1>3. CASE \E t \in Tabs : TabStep(t)
  BY <1>3, TabKeeps
<1>4. CASE \E q \in reqs : ServerStep(q)
  BY <1>4, ServerKeeps
<1> QED BY <1>1, <1>2, <1>3, <1>4, ClockKeeps DEF Next

(* The inductive invariant holds.                                          *)
LEMMA Invariant == Spec => []IInv
BY InitInv, NextInv, PTL DEF Spec

-----------------------------------------------------------------------------
(* The properties.                                                         *)

(* Type correctness, for every number of tabs and every bound.             *)
THEOREM TypeCorrect == Spec => []TypeOK
<1>1. IInv => TypeOK
  BY DEF IInv
<1> QED BY <1>1, Invariant, PTL

(* The newest accepted message decides whether a sequenced tab is online.  *)
THEOREM NewestMessageDecides == Spec => []NewestIntentWins
<1>1. IInv => NewestIntentWins
  <2> USE PresenceAssumption
  <2> SUFFICES ASSUME IInv, NEW t \in Sequenced
               PROVE Live(t) <=> last[t].op = "online" /\ clock < last[t].at + LeaseTTL
    BY DEF NewestIntentWins
  <2>1. /\ t \in Tabs /\ clock \in Nat /\ last[t].at \in Nat
        /\ lease[t] = IF last[t].op = "online" THEN last[t].at + LeaseTTL ELSE 0
    BY DEF IInv, TypeOK, KeysOk, Sequenced
  <2> QED BY <2>1 DEF Live
<1> QED BY <1>1, Invariant, PTL

(* A tab that left the page stays offline while it is away.                *)
THEOREM AwayTabsAreOffline == Spec => []AwayIsOffline
<1>1. IInv => AwayIsOffline
  <2> USE PresenceAssumption
  <2> SUFFICES ASSUME IInv, NEW t \in Sequenced, page[t].phase = "in",
                      page[t].away \/ ~page[t].visible,
                      page[t].left > 0, last[t].seq >= page[t].left
               PROVE ~Live(t)
    BY DEF AwayIsOffline
  <2>1. /\ t \in Tabs /\ clock \in Nat /\ last[t].seq \in Nat
        /\ page[t].seq \in Nat /\ page[t].left \in Nat
        /\ page[t].seq = page[t].left /\ last[t].seq <= page[t].seq
        /\ last[t].seq = page[t].left => last[t].op = "offline"
        /\ lease[t] = IF last[t].op = "online" THEN last[t].at + LeaseTTL ELSE 0
    BY DEF IInv, TypeOK, PagesOk, PageOk, KeysOk, Sequenced, Page
  <2>2. lease[t] = 0
    BY <2>1
  <2> QED BY <2>1, <2>2 DEF Live
<1> QED BY <1>1, Invariant, PTL

(* No message, in whatever order they come, invents activity of an account. *)
THEOREM NoInventedActivity == Spec => []LastSeenWasAlive
<1>1. IInv => LastSeenWasAlive
  BY DEF IInv, SeenOk, LastSeenWasAlive
<1> QED BY <1>1, Invariant, PTL

(* No request moves a last-seen time back, whatever it stamped and whenever *)
(* its second script runs.                                                  *)
THEOREM LastSeenNeverBack == Spec => LastSeenMonotone
<1>1. ASSUME IInv, [Next]_vars, NEW a \in Accounts
      PROVE lastSeen'[a] >= lastSeen[a]
  <2>1. lastSeen[a] \in Nat
    BY <1>1 DEF IInv, TypeOK
  <2>2. CASE UNCHANGED lastSeen
    BY <2>1, <2>2
  <2>3. CASE \E q \in reqs, write \in BOOLEAN : WriteLastSeen(q, write)
    <3> PICK q \in reqs, write \in BOOLEAN : WriteLastSeen(q, write)
      BY <2>3
    <3>1. q.at \in Nat /\ lastSeen \in [Accounts -> Nat]
      BY <1>1 DEF IInv, TypeOK, Request
    <3>2. lastSeen' = lastSeen \/ lastSeen' = [lastSeen EXCEPT ![Owner[q.tab]] = Later(@, q.at)]
      BY DEF WriteLastSeen
    <3> QED BY <2>1, <3>1, <3>2 DEF Later
  <2>4. UNCHANGED lastSeen \/ \E q \in reqs, write \in BOOLEAN : WriteLastSeen(q, write)
    BY <1>1, Zenon DEF Next, vars, TabStep, ServerStep, Beat, Hide, PageHide, Resume, Restart,
       HeartbeatFails, LogoutStart, LogoutClear, LogoutDone, Becomes, Revoke, Receive, Drop,
       UpdateLease, Answer, PassTime
  <2> QED BY <2>2, <2>3, <2>4
<1>2. IInv /\ [Next]_vars => [\A a \in Accounts : lastSeen'[a] >= lastSeen[a]]_vars
  BY <1>1
<1> QED BY <1>2, Invariant, PTL DEF Spec, LastSeenMonotone

(* Snapshots are applied in the order they were asked for, and none that    *)
(* was asked for before the page was last left.                             *)
THEOREM SnapshotsApplyInOrder == Spec => SnapshotsInOrder
<1> DEFINE A == \A t \in Tabs : page'[t].applied # page[t].applied =>
                  /\ page'[t].applied > page[t].applied
                  /\ page'[t].applied > page[t].left
<1>1. ASSUME IInv, [Next]_vars PROVE A
  <2>1. CASE UNCHANGED page
    BY <2>1
  <2>2. CASE \E t \in Tabs : TabStep(t)
    BY <2>2, <1>1, TabKeeps DEF NothingApplied
  <2>3. CASE \E q \in reqs : Answer(q)
    <3> PICK q \in reqs : Answer(q)
      BY <2>3
    <3>1. /\ q.tab \in Tabs /\ q.seq \in Nat /\ q.seq > 0
          /\ page \in [Tabs -> Page] /\ PageOk(page[q.tab]) /\ page[q.tab] \in Page
      BY <1>1 DEF IInv, TypeOK, RequestsOk, PagesOk, Request
    <3>2. ASSUME NEW t \in Tabs, page'[t].applied # page[t].applied
          PROVE t = q.tab /\ page[t].pending = q.seq /\ page'[t].applied = q.seq
      BY <3>1, <3>2 DEF Answer, Page
    <3> QED BY <3>1, <3>2 DEF PageOk, Page
  <2>4. \/ UNCHANGED page \/ \E t \in Tabs : TabStep(t)
        \/ \E q \in reqs : Answer(q)
    BY <1>1, Zenon DEF Next, vars, ServerStep, Revoke, Receive, Drop, UpdateLease, WriteLastSeen,
       PassTime
  <2> QED BY <2>1, <2>2, <2>3, <2>4
<1>2. IInv /\ [Next]_vars => [A]_vars
  BY <1>1
<1> QED BY <1>2, Invariant, PTL DEF Spec, SnapshotsInOrder

-----------------------------------------------------------------------------
(* The refinement.                                                         *)

(* What the lease script does to the sequenced tabs.                       *)
LEMMA UpdateFacts ==
  ASSUME IInv, NEW q \in reqs, UpdateLease(q)
  PROVE /\ \A u \in Sequenced :
             /\ last'[u] = IF u = q.tab /\ InOrder(q)
                           THEN [seq |-> q.seq, op |-> q.op, at |-> clock] ELSE last[u]
             /\ lease'[u] = IF u = q.tab /\ InOrder(q)
                            THEN IF q.op = "online" THEN clock + LeaseTTL ELSE 0
                            ELSE lease[u]
        /\ q.tab \in Tabs /\ q.seq \in 1..MaxSeq /\ q.op \in Ops
        /\ q.tab \in Sequenced => (InOrder(q) <=> q.seq > last[q.tab].seq)
        /\ clock' = clock
<1> USE PresenceAssumption
<1>1. q \in Request /\ RequestOk(q) /\ q.seq > 0 /\ page[q.tab].seq <= MaxSeq /\ page[q.tab].seq \in Nat
  BY DEF IInv, TypeOK, RequestsOk, PagesOk, Request, Page
<1>2. q.tab \in Tabs /\ q.seq \in 1..MaxSeq /\ q.op \in Ops
  BY <1>1 DEF Request, RequestOk, Ops
<1>3. q.tab \in Sequenced => (InOrder(q) <=> q.seq > last[q.tab].seq)
  BY InOrderIsNewer DEF UpdateLease
<1>4. last' = IF InOrder(q) /\ q.seq > last[q.tab].seq
              THEN [last EXCEPT ![q.tab] = [seq |-> q.seq, op |-> q.op, at |-> clock]]
              ELSE last
  BY DEF UpdateLease
<1>5. lease' = IF ~InOrder(q) THEN lease
               ELSE [lease EXCEPT ![q.tab] = IF q.op = "online" THEN clock + LeaseTTL ELSE 0]
  BY DEF UpdateLease
<1>6. /\ Sequenced \subseteq Tabs
      /\ DOMAIN last = Tabs /\ DOMAIN lease = Tabs
  BY DEF IInv, TypeOK, Sequenced
<1> QED BY <1>2, <1>3, <1>4, <1>5, <1>6 DEF UpdateLease

(* Steps that touch neither the clock nor the keys.                        *)
LEMMA OtherSteps ==
  ASSUME [Next]_vars
  PROVE \/ UNCHANGED <<clock, last, lease>>
        \/ PassTime
        \/ \E q \in reqs : UpdateLease(q)
BY ZenonT(60) DEF Next, vars, TabStep, ServerStep, Beat, Hide, PageHide, Resume, Restart,
   HeartbeatFails, LogoutStart, LogoutClear, LogoutDone, Becomes, Revoke, Receive, Drop,
   WriteLastSeen, Answer

(* The service with its lost, delayed and overlapping requests implements   *)
(* PresenceIntent: whether a tab is online is decided by its newest message *)
(* alone.                                                                   *)
THEOREM ImplementsIntent == Spec => IntentSpec
<1> USE PresenceAssumption
<1> DEFINE newest == [t \in Sequenced |-> last[t]]
           online == [t \in Sequenced |-> Live(t)]
<1>1. Init => Intent!Init
  <2> SUFFICES ASSUME Init PROVE Intent!Init
    OBVIOUS
  <2>1. \A t \in Sequenced : /\ last[t] = [seq |-> 0, op |-> "offline", at |-> 0]
                             /\ lease[t] = 0 /\ clock = 0
    BY DEF Init, Sequenced
  <2>2. clock = 0
    BY DEF Init
  <2>3. newest = [t \in Sequenced |-> [seq |-> 0, op |-> "offline", at |-> 0]]
    BY <2>1
  <2>4. online = [t \in Sequenced |-> FALSE]
    <3>1. \A t \in Sequenced : Live(t) = FALSE
      BY <2>1, <2>2 DEF Live
    <3> QED BY <3>1, Zenon
  <2> QED BY <2>2, <2>3, <2>4 DEF Intent!Init
<1>2. ASSUME IInv, [Next]_vars PROVE [Intent!Next]_(Intent!vars)
  <2>1. CASE UNCHANGED <<clock, last, lease>>
    <3>1. newest' = newest /\ online' = online
      BY <2>1 DEF Live
    <3> QED BY <2>1, <3>1 DEF Intent!vars
  <2>2. CASE PassTime
    <3>1. /\ clock' = clock + 1 /\ last' = last /\ lease' = lease
      BY <2>2 DEF PassTime
    <3>2. \A t \in Sequenced : Live(t)' <=> Intent!Holds(last[t], clock')
      <4> SUFFICES ASSUME NEW t \in Sequenced
                   PROVE (clock + 1 < lease[t]) <=>
                         (last[t].op = "online" /\ clock + 1 < last[t].at + LeaseTTL)
        BY <3>1 DEF Live, Intent!Holds
      <4>1. /\ clock \in Nat /\ last[t].at \in Nat
            /\ lease[t] = IF last[t].op = "online" THEN last[t].at + LeaseTTL ELSE 0
        BY <1>2 DEF IInv, TypeOK, KeysOk, Sequenced
      <4> QED BY <4>1
    <3>3. online' = [t \in Sequenced |-> Intent!Holds(newest[t], clock')]
      <4>2. ASSUME NEW t \in Sequenced PROVE Live(t)' = Intent!Holds(newest[t], clock')
        <5>1. newest[t] = last[t]
          OBVIOUS
        <5>2. Live(t)' <=> Intent!Holds(newest[t], clock')
          BY <3>2, <5>1
        <5> QED BY <5>2 DEF Live, Intent!Holds
      <4> HIDE DEF newest
      <4> QED BY <4>2, Zenon
    <3>4. Intent!Pass
      BY <3>1, <3>3 DEF Intent!Pass
    <3> QED BY <3>4 DEF Intent!Next
  <2>3. CASE \E q \in reqs : UpdateLease(q)
    <3> PICK q \in reqs : UpdateLease(q)
      BY <2>3
    <3>1. CASE q.tab \in Sequenced /\ InOrder(q)
      <4>1. /\ q.seq \in 1..MaxSeq /\ q.op \in Ops /\ q.seq > last[q.tab].seq
        BY <3>1, <1>2, UpdateFacts
      <4>2. newest' = [newest EXCEPT ![q.tab] = [seq |-> q.seq, op |-> q.op, at |-> clock]]
        BY <3>1, <1>2, UpdateFacts
      <4>3. ASSUME NEW u \in Sequenced
            PROVE Live(u)' = IF u = q.tab THEN q.op = "online" ELSE Live(u)
        <5>1. CASE u # q.tab
          <6>1. lease'[u] = lease[u] /\ clock' = clock
            BY <5>1, <1>2, UpdateFacts
          <6> QED BY <5>1, <6>1 DEF Live
        <5>2. CASE u = q.tab
          <6>1. /\ lease'[u] = IF q.op = "online" THEN clock + LeaseTTL ELSE 0
                /\ clock' = clock /\ clock \in Nat
            BY <3>1, <5>2, <1>2, UpdateFacts DEF IInv, TypeOK
          <6>2. CASE q.op = "online"
            BY <6>1, <6>2, <5>2 DEF Live
          <6>3. CASE q.op # "online"
            BY <6>1, <6>3, <5>2 DEF Live
          <6> QED BY <6>2, <6>3
        <5> QED BY <5>1, <5>2
      <4>4. online' = [online EXCEPT ![q.tab] = (q.op = "online")]
        <5>1. online' = [u \in Sequenced |-> IF u = q.tab THEN q.op = "online" ELSE Live(u)]
          BY <4>3, Zenon
        <5>2. \A u \in Sequenced : online[u] = Live(u)
          BY Zenon
        <5>3. [online EXCEPT ![q.tab] = (q.op = "online")]
              = [u \in Sequenced |-> IF u = q.tab THEN q.op = "online" ELSE online[u]]
          BY Zenon
        <5> QED BY <5>1, <5>2, <5>3, Zenon
      <4>5. clock' = clock /\ newest[q.tab] = last[q.tab]
        BY <3>1, <1>2, UpdateFacts
      <4>6. Intent!Take(q.tab)
        BY <4>1, <4>2, <4>4, <4>5 DEF Intent!Take, Intent!Ops, Ops
      <4> QED BY <3>1, <4>6 DEF Intent!Next
    <3>2. CASE ~(q.tab \in Sequenced /\ InOrder(q))
      <4>1. \A u \in Sequenced : last'[u] = last[u] /\ lease'[u] = lease[u]
        BY <3>2, <1>2, UpdateFacts
      <4>2. clock' = clock
        BY <1>2, UpdateFacts
      <4>3. newest' = newest /\ online' = online
        BY <4>1, <4>2 DEF Live
      <4> QED BY <4>2, <4>3 DEF Intent!vars
    <3> QED BY <3>1, <3>2
  <2> QED BY <1>2, <2>1, <2>2, <2>3, OtherSteps
<1> QED BY <1>1, <1>2, Invariant, PTL DEF Spec, IntentSpec, Intent!Spec
=============================================================================
