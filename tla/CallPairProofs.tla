--------------------------- MODULE CallPairProofs ---------------------------
(***************************************************************************)
(* Proofs about the call of a browser tab and a phone: every step of the   *)
(* phone keeps the invariant of CallTabProofs, and what follows from it:   *)
(* the bounds of the types (so nobody runs out of overlays or of call      *)
(* numbers), who holds the camera, what becomes of candidates, and that    *)
(* every call is timed.                                                    *)
(***************************************************************************)
EXTENDS CallTabProofs

-----------------------------------------------------------------------------
(* The store as a value *)

\* What is needed of a store whose call is cleared.
Clearing(t) ==
    /\ t \in Stores
    /\ IsFiniteSet(t.tasks)
    /\ \A k \in Phone!Calls : t.conn[k].state = "open" <=> t.dev.peer = k
    /\ \A task \in t.tasks : Placed(task)

\* A store that comes from another one without a new call, and without
\* preparing or sending an invitation, sending or keeping a candidate.
Calmer(t, u) ==
    /\ Cardinality(PhonePending(t.tasks)) <= Cardinality(PhonePending(u.tasks))
    /\ Slack(t.call, t.dev, t.conn) <= Slack(u.call, u.dev, u.conn)
    /\ Num(t.out, "invite") = Num(u.out, "invite")
    /\ Num(t.out, "candidate") = Num(u.out, "candidate")
    /\ t.dev.queue <= u.dev.queue

\* A store that is in order may be cleared.
LEMMA OKClearing ==
    ASSUME NEW t, StoreOK(t)
    PROVE  Clearing(t) /\ t \in Stores
BY DEF StoreOK, Clearing

\* What is counted of a store is a number.
LEMMA StoreNat ==
    ASSUME NEW t \in Stores, IsFiniteSet(t.tasks)
    PROVE  /\ Cardinality(PhonePending(t.tasks)) \in Nat
           /\ Slack(t.call, t.dev, t.conn) \in {0, 1}
           /\ t.dev.queue \in 0..MaxCalls
           /\ \A e : Num(t.out, e) \in Nat
<1>1. Cardinality(PhonePending(t.tasks)) \in Nat
  <2>1. PhonePending(t.tasks) \in SUBSET t.tasks
    BY DEF PhonePending
  <2> QED  BY <2>1, FS_Subset, FS_CardinalityType
<1>2. Slack(t.call, t.dev, t.conn) \in {0, 1}
  BY DEF Slack
<1>3. t.dev.queue \in 0..MaxCalls
  BY DEF Stores, Phone!Device
<1>4. \A e : Num(t.out, e) \in Nat
  BY NumNat DEF Stores
<1> QED  BY <1>1, <1>2, <1>3, <1>4

\* Calmness is transitive.
LEMMA CalmerTrans ==
    ASSUME NEW t, NEW u, NEW v, Clearing(t), Clearing(u), Clearing(v),
           Calmer(t, u), Calmer(u, v)
    PROVE  Calmer(t, v)
<1>1. /\ Cardinality(PhonePending(t.tasks)) \in Nat
      /\ Cardinality(PhonePending(u.tasks)) \in Nat
      /\ Cardinality(PhonePending(v.tasks)) \in Nat
      /\ Slack(t.call, t.dev, t.conn) \in {0, 1}
      /\ Slack(u.call, u.dev, u.conn) \in {0, 1}
      /\ Slack(v.call, v.dev, v.conn) \in {0, 1}
      /\ t.dev.queue \in 0..MaxCalls /\ u.dev.queue \in 0..MaxCalls
      /\ v.dev.queue \in 0..MaxCalls
  BY StoreNat DEF Clearing
<1>2. Cardinality(PhonePending(t.tasks)) <= Cardinality(PhonePending(v.tasks))
  BY <1>1 DEF Calmer
<1>3. Slack(t.call, t.dev, t.conn) <= Slack(v.call, v.dev, v.conn)
  BY <1>1 DEF Calmer
<1>4. t.dev.queue <= v.dev.queue
  BY <1>1, PairAssumption DEF Calmer
<1>5. /\ Num(t.out, "invite") = Num(v.out, "invite")
      /\ Num(t.out, "candidate") = Num(v.out, "candidate")
  BY DEF Calmer
<1> QED  BY <1>2, <1>3, <1>4, <1>5 DEF Calmer

\* A store is as calm as itself.
LEMMA CalmerSelf ==
    ASSUME NEW t, Clearing(t)
    PROVE  Calmer(t, t)
<1>1. /\ Cardinality(PhonePending(t.tasks)) \in Nat
      /\ Slack(t.call, t.dev, t.conn) \in {0, 1}
      /\ t.dev.queue \in 0..MaxCalls
  BY StoreNat DEF Clearing
<1> QED  BY <1>1, PairAssumption DEF Calmer

\* The phone says something.
LEMMA PhoneSayOK ==
    ASSUME NEW t, Clearing(t), NEW e \in Web!Events \ {"confirm"},
           NEW s \in 1..MaxCalls, NEW of \in 0..MaxCalls,
           NEW u, u = Phone!Say(t, e, s, of)
    PROVE  /\ Clearing(u) /\ (StoreOK(t) => StoreOK(u))
           /\ u.call = t.call /\ u.dev = t.dev /\ u.conn = t.conn /\ u.tasks = t.tasks
           /\ e # "invite" => Num(u.out, "invite") = Num(t.out, "invite")
           /\ e # "candidate" => Num(u.out, "candidate") = Num(t.out, "candidate")
           /\ Num(u.out, e) = Num(t.out, e) + 1
<1> DEFINE p == Phone!Signal(e, s, of)
<1>1. p \in Spoken /\ p.event = e
  BY DEF Spoken, Web!Packet, Phone!Signal
<1>2. t \in Stores /\ t.out \in Seq(Spoken) /\ Append(t.out, p) \in Seq(Spoken)
  BY <1>1 DEF Clearing, Stores
<1>3. /\ u \in Stores /\ u.out = Append(t.out, p)
      /\ u.call = t.call /\ u.dev = t.dev /\ u.conn = t.conn /\ u.tasks = t.tasks
  BY <1>2 DEF Stores, Phone!Say
<1>4. /\ \A k : Num(u.out, k) = Num(t.out, k) + (IF e = k THEN 1 ELSE 0)
      /\ \A k : Num(t.out, k) \in Nat
  <2> HIDE DEF p
  <2>1. ASSUME NEW k PROVE Num(u.out, k) = Num(t.out, k) + (IF e = k THEN 1 ELSE 0)
    BY <1>1, <1>2, <1>3, NumAppend
  <2>2. \A k : Num(t.out, k) \in Nat
    BY <1>2, NumNat
  <2> QED  BY <2>1, <2>2
<1>5. Clearing(u) /\ (StoreOK(t) => StoreOK(u))
  BY <1>3 DEF Clearing, StoreOK
<1>6. /\ e # "invite" => Num(u.out, "invite") = Num(t.out, "invite")
      /\ e # "candidate" => Num(u.out, "candidate") = Num(t.out, "candidate")
      /\ Num(u.out, e) = Num(t.out, e) + 1
  BY <1>4
<1> QED  BY <1>3, <1>5, <1>6

\* What the phone says is calm if it is no invitation and no candidate.
LEMMA PhoneSayCalm ==
    ASSUME NEW t, Clearing(t),
           NEW e \in Web!Events \ {"confirm", "invite", "candidate"},
           NEW s \in 1..MaxCalls, NEW of \in 0..MaxCalls
    PROVE  LET u == Phone!Say(t, e, s, of) IN
           Clearing(u) /\ Calmer(u, t) /\ (StoreOK(t) => StoreOK(u))
<1> DEFINE u == Phone!Say(t, e, s, of)
<1>1. e \in Web!Events \ {"confirm"} /\ e # "invite" /\ e # "candidate"
  OBVIOUS
<1>2. /\ Clearing(u) /\ (StoreOK(t) => StoreOK(u))
      /\ u.call = t.call /\ u.dev = t.dev /\ u.conn = t.conn /\ u.tasks = t.tasks
      /\ Num(u.out, "invite") = Num(t.out, "invite")
      /\ Num(u.out, "candidate") = Num(t.out, "candidate")
  <2>1. u = Phone!Say(t, e, s, of)
    OBVIOUS
  <2> HIDE DEF u
  <2> QED  BY <1>1, <2>1, PhoneSayOK
<1> HIDE DEF u
<1>3. Calmer(t, t)
  BY CalmerSelf
<1>4. Calmer(u, t)
  BY <1>1, <1>2, <1>3 DEF Calmer
<1> QED  BY <1>2, <1>4 DEF u

\* Clearing the call leaves a store without one, and no open connection.
LEMMA PhoneClearedOK ==
    ASSUME NEW t, Clearing(t)
    PROVE  LET u == Phone!Cleared(t) IN StoreOK(u) /\ Calmer(u, t)
<1> DEFINE gone == [Phone!NoConnection EXCEPT !.state = "closing"]
           cn == IF t.dev.peer = 0 THEN t.conn ELSE [t.conn EXCEPT ![t.dev.peer] = gone]
           u == Phone!Cleared(t)
<1>1. /\ t \in Stores /\ IsFiniteSet(t.tasks)
      /\ \A k \in Phone!Calls : t.conn[k].state = "open" <=> t.dev.peer = k
      /\ \A task \in t.tasks : Placed(task)
  BY DEF Clearing
<1>2. gone \in Phone!Connection /\ gone.state = "closing"
  <2>1. Phone!NoConnection \in Phone!Connection
    BY PairAssumption DEF Phone!NoConnection, Phone!Connection
  <2> QED  BY <2>1 DEF Phone!Connection
<1>3. t.conn \in [Phone!Calls -> Phone!Connection] /\ t.dev.peer \in 0..MaxCalls
  BY <1>1 DEF Stores, Phone!Device
<1> HIDE DEF gone
<1>4. /\ cn \in [Phone!Calls -> Phone!Connection]
      /\ \A k \in Phone!Calls : cn[k].state # "open"
  <2>1. CASE t.dev.peer = 0
    <3>1. \A k \in Phone!Calls : k # 0
      BY DEF Phone!Calls
    <3> QED  BY <1>1, <1>3, <2>1, <3>1
  <2>2. CASE t.dev.peer # 0
    BY <1>1, <1>2, <1>3, <2>2
  <2> QED  BY <2>1, <2>2
<1>5. Phone!Idle \in Phone!Device /\ Phone!Idle.peer = 0 /\ Phone!Idle.queue = 0
      /\ ~Phone!Idle.setup
  BY PairAssumption DEF Phone!Idle, Phone!Device
<1>6. PICK c : c = cn
  OBVIOUS
<1>7. u = [t EXCEPT !.call = Phone!NoCall, !.dev = Phone!Idle, !.conn = c]
  BY <1>6 DEF Phone!Cleared, gone
<1>8. /\ u \in Stores /\ u.call = Phone!NoCall /\ u.dev = Phone!Idle /\ u.conn = c
      /\ u.tasks = t.tasks /\ u.out = t.out
  BY <1>1, <1>4, <1>5, <1>6, <1>7 DEF Stores
<1> HIDE DEF u, cn
<1>9. \A k \in Phone!Calls : u.conn[k].state = "open" <=> u.dev.peer = k
  <2>1. \A k \in Phone!Calls : k # 0
    BY DEF Phone!Calls
  <2> QED  BY <1>4, <1>5, <1>6, <1>8, <2>1
<1>10. Timed(u.call, u.dev, u.conn) /\ u.call.dir # "incoming"
  BY <1>5, <1>8 DEF Timed, Phone!NoCall
<1>11. StoreOK(u)
  BY <1>1, <1>5, <1>8, <1>9, <1>10 DEF StoreOK
<1>12. Slack(u.call, u.dev, u.conn) = 0
  BY <1>8 DEF Slack
<1>13. /\ Cardinality(PhonePending(t.tasks)) \in Nat
       /\ Slack(t.call, t.dev, t.conn) \in {0, 1}
       /\ t.dev.queue \in 0..MaxCalls
  BY <1>1, StoreNat
<1>14. Slack(u.call, u.dev, u.conn) <= Slack(t.call, t.dev, t.conn)
       /\ u.dev.queue <= t.dev.queue
  BY <1>5, <1>8, <1>12, <1>13, PairAssumption
<1>15. Calmer(u, t)
  BY <1>8, <1>13, <1>14 DEF Calmer
<1> QED  BY <1>11, <1>15 DEF u

\* Closing it does so too.
LEMMA PhoneClosedOK ==
    ASSUME NEW t, Clearing(t), NEW notify
    PROVE  LET u == Phone!Closed(t, notify) IN StoreOK(u) /\ Calmer(u, t)
<1> DEFINE s == t.call.seq
           w == Phone!Say(t, "hang-up", s, 0)
<1>1. CASE notify /\ s # 0
  <2>1. s \in 1..MaxCalls /\ 0 \in 0..MaxCalls
        /\ "hang-up" \in Web!Events \ {"confirm", "invite", "candidate"}
    BY <1>1, PairAssumption DEF Clearing, Stores, Phone!Call, Phone!NoCall, Web!Events
  <2>2. Clearing(w) /\ Calmer(w, t)
    BY <2>1, PhoneSayCalm
  <2>3. Phone!Closed(t, notify) = Phone!Cleared(w)
    BY <1>1 DEF Phone!Closed
  <2> HIDE DEF w
  <2> DEFINE u == Phone!Cleared(w)
  <2>4. StoreOK(u) /\ Calmer(u, w)
    BY <2>2, PhoneClearedOK
  <2> HIDE DEF u
  <2>5. Calmer(u, t)
    BY <2>2, <2>4, OKClearing, CalmerTrans
  <2> QED  BY <2>3, <2>4, <2>5 DEF u
<1>2. CASE ~(notify /\ s # 0)
  <2>1. Phone!Closed(t, notify) = Phone!Cleared(t)
    BY <1>2 DEF Phone!Closed
  <2> QED  BY <2>1, PhoneClearedOK
<1> QED  BY <1>1, <1>2

\* The same, of a store that is calmer than another.
LEMMA PhoneClosedAfter ==
    ASSUME NEW t, Clearing(t), NEW v, Clearing(v), Calmer(t, v), NEW notify
    PROVE  LET u == Phone!Closed(t, notify) IN StoreOK(u) /\ Calmer(u, v)
<1> DEFINE u == Phone!Closed(t, notify)
<1>1. StoreOK(u) /\ Calmer(u, t)
  BY PhoneClosedOK
<1> HIDE DEF u
<1>2. Calmer(u, v)
  BY <1>1, OKClearing, CalmerTrans
<1> QED  BY <1>1, <1>2 DEF u
-----------------------------------------------------------------------------
(* Steps of the store *)

\* What two sets of tasks say of the calls that are still to be published.
LEMMA PendingCounts ==
    ASSUME NEW A, NEW B, IsFiniteSet(A), IsFiniteSet(B)
    PROVE  /\ PhonePending(A) \subseteq PhonePending(B) =>
                 Cardinality(PhonePending(A)) <= Cardinality(PhonePending(B))
           /\ \A x : PhonePending(A) \subseteq PhonePending(B) \cup {x} =>
                 Cardinality(PhonePending(A)) <= Cardinality(PhonePending(B)) + 1
           /\ \A x \in PhonePending(B) : PhonePending(A) \subseteq PhonePending(B) \ {x} =>
                 Cardinality(PhonePending(A)) <= Cardinality(PhonePending(B)) - 1
<1> DEFINE P == PhonePending(A)
           Q == PhonePending(B)
<1>1. IsFiniteSet(P) /\ IsFiniteSet(Q)
  <2>1. P \in SUBSET A /\ Q \in SUBSET B
    BY DEF PhonePending
  <2> QED  BY <2>1, FS_Subset
<1> HIDE DEF P, Q
<1>2. Cardinality(P) \in Nat /\ Cardinality(Q) \in Nat
  BY <1>1, FS_CardinalityType
<1>3. ASSUME P \subseteq Q PROVE Cardinality(P) <= Cardinality(Q)
  BY <1>1, <1>3, FS_Subset
<1>4. ASSUME NEW x, P \subseteq Q \cup {x} PROVE Cardinality(P) <= Cardinality(Q) + 1
  <2>1. /\ IsFiniteSet(Q \cup {x})
        /\ Cardinality(Q \cup {x}) = IF x \in Q THEN Cardinality(Q) ELSE Cardinality(Q) + 1
    BY <1>1, FS_AddElement
  <2>2. Cardinality(P) <= Cardinality(Q \cup {x})
    BY <1>4, <2>1, FS_Subset
  <2> QED  BY <1>2, <2>1, <2>2
<1>5. ASSUME NEW x \in Q, P \subseteq Q \ {x} PROVE Cardinality(P) <= Cardinality(Q) - 1
  <2>1. IsFiniteSet(Q \ {x}) /\ Cardinality(Q \ {x}) = Cardinality(Q) - 1
    BY <1>1, FS_RemoveElement
  <2>2. Cardinality(P) <= Cardinality(Q \ {x})
    BY <1>5, <2>1, FS_Subset
  <2> QED  BY <1>2, <2>1, <2>2
<1> QED  BY <1>3, <1>4, <1>5 DEF P, Q

\* A task is over.
LEMMA WithoutOK ==
    ASSUME NEW t, StoreOK(t), NEW task \in t.tasks
    PROVE  LET u == Phone!Without(t, task) IN
           /\ StoreOK(u) /\ Calmer(u, t) /\ Placed(task) /\ task \in Phone!Task
           /\ u.call = t.call /\ u.dev = t.dev /\ u.conn = t.conn /\ u.out = t.out
           /\ task.stage \in Asking =>
                 Cardinality(PhonePending(u.tasks)) <= Cardinality(PhonePending(t.tasks)) - 1
<1> DEFINE u == Phone!Without(t, task)
<1>1. t \in Stores /\ IsFiniteSet(t.tasks) /\ t.tasks \in SUBSET Phone!Task
  BY DEF StoreOK, Stores
<1>2. /\ u \in Stores /\ u.tasks = t.tasks \ {task}
      /\ u.call = t.call /\ u.dev = t.dev /\ u.conn = t.conn /\ u.out = t.out
  BY <1>1 DEF Stores, Phone!Without
<1> HIDE DEF u
<1>3. IsFiniteSet(u.tasks)
  BY <1>1, <1>2, FS_Subset
<1>4. StoreOK(u)
  BY <1>2, <1>3 DEF StoreOK
<1>5. Placed(task) /\ task \in Phone!Task
  BY <1>1 DEF StoreOK
<1>6. Cardinality(PhonePending(u.tasks)) <= Cardinality(PhonePending(t.tasks))
  <2>1. PhonePending(u.tasks) \subseteq PhonePending(t.tasks)
    BY <1>2 DEF PhonePending
  <2> QED  BY <1>1, <1>3, <2>1, PendingCounts
<1>7. Calmer(u, t)
  <2>1. Calmer(t, t)
    BY OKClearing, CalmerSelf
  <2> QED  BY <1>2, <1>6, <2>1 DEF Calmer
<1>8. ASSUME task.stage \in Asking
      PROVE  Cardinality(PhonePending(u.tasks)) <= Cardinality(PhonePending(t.tasks)) - 1
  <2>1. /\ task \in PhonePending(t.tasks)
        /\ PhonePending(u.tasks) \subseteq PhonePending(t.tasks) \ {task}
    BY <1>2, <1>8 DEF PhonePending
  <2> QED  BY <1>1, <1>3, <2>1, PendingCounts
<1> QED  BY <1>2, <1>4, <1>5, <1>7, <1>8 DEF u

\* A task begins.
LEMMA WithOK ==
    ASSUME NEW t, StoreOK(t), NEW task \in Phone!Task, Placed(task)
    PROVE  LET u == Phone!With(t, task) IN
           /\ StoreOK(u)
           /\ u.call = t.call /\ u.dev = t.dev /\ u.conn = t.conn /\ u.out = t.out
           /\ task.stage \notin Asking => Calmer(u, t)
           /\ Cardinality(PhonePending(u.tasks)) <= Cardinality(PhonePending(t.tasks)) + 1
<1> DEFINE u == Phone!With(t, task)
<1>1. t \in Stores /\ IsFiniteSet(t.tasks) /\ t.tasks \in SUBSET Phone!Task
  BY DEF StoreOK, Stores
<1>2. /\ u \in Stores /\ u.tasks = t.tasks \cup {task}
      /\ u.call = t.call /\ u.dev = t.dev /\ u.conn = t.conn /\ u.out = t.out
  BY <1>1 DEF Stores, Phone!With
<1> HIDE DEF u
<1>3. IsFiniteSet(u.tasks)
  BY <1>1, <1>2, FS_AddElement
<1>4. StoreOK(u)
  BY <1>2, <1>3 DEF StoreOK
<1>5. Cardinality(PhonePending(u.tasks)) <= Cardinality(PhonePending(t.tasks)) + 1
  <2>1. PhonePending(u.tasks) \subseteq PhonePending(t.tasks) \cup {task}
    BY <1>2 DEF PhonePending
  <2> QED  BY <1>1, <1>3, <2>1, PendingCounts
<1>6. ASSUME task.stage \notin Asking PROVE Calmer(u, t)
  <2>1. PhonePending(u.tasks) \subseteq PhonePending(t.tasks)
    BY <1>2, <1>6 DEF PhonePending
  <2>2. Cardinality(PhonePending(u.tasks)) <= Cardinality(PhonePending(t.tasks))
    BY <1>1, <1>3, <2>1, PendingCounts
  <2>3. Calmer(t, t)
    BY OKClearing, CalmerSelf
  <2> QED  BY <1>2, <2>2, <2>3 DEF Calmer
<1> QED  BY <1>2, <1>4, <1>5, <1>6 DEF u

\* A call, the module's variables and connections that fit together.
Fit(c, d, cn) ==
    /\ d.peer # 0 /\ cn[d.peer].remote # 0 => d.queue = 0
    /\ Timed(c, d, cn)
    /\ c.dir = "incoming" => c.seq # 0

\* They may send and keep no more candidates than the store.
Lighter(c, d, cn, t) ==
    Slack(c, d, cn) <= Slack(t.call, t.dev, t.conn) /\ d.queue <= t.dev.queue

\* The store with another call, other module variables and connections.
Changed(t, c, d, cn) == [t EXCEPT !.call = c, !.dev = d, !.conn = cn]

\* What such a change leaves.
LEMMA ChangedOK ==
    ASSUME NEW t, Clearing(t), NEW c \in Phone!Call \cup {Phone!NoCall},
           NEW d \in Phone!Device, NEW cn \in [Phone!Calls -> Phone!Connection],
           \A k \in Phone!Calls : cn[k].state = "open" <=> d.peer = k,
           NEW u, u = Changed(t, c, d, cn)
    PROVE  /\ Clearing(u)
           /\ u.call = c /\ u.dev = d /\ u.conn = cn /\ u.out = t.out
           /\ u.tasks = t.tasks
           /\ Fit(c, d, cn) => StoreOK(u)
           /\ Lighter(c, d, cn, t) => Calmer(u, t)
<1>1. /\ t \in Stores /\ IsFiniteSet(t.tasks) /\ \A task \in t.tasks : Placed(task)
  BY DEF Clearing
<1>2. /\ u \in Stores /\ u.call = c /\ u.dev = d /\ u.conn = cn /\ u.out = t.out
      /\ u.tasks = t.tasks
  BY <1>1 DEF Stores, Changed
<1>3. Clearing(u)
  BY <1>1, <1>2 DEF Clearing
<1>4. ASSUME Fit(c, d, cn) PROVE StoreOK(u)
  BY <1>1, <1>2, <1>4 DEF StoreOK, Fit
<1>5. ASSUME Lighter(c, d, cn, t) PROVE Calmer(u, t)
  <2>1. Calmer(t, t)
    BY CalmerSelf
  <2> QED  BY <1>2, <1>5, <2>1 DEF Calmer, Lighter
<1> QED  BY <1>2, <1>3, <1>4, <1>5
-----------------------------------------------------------------------------
\* The connection that is there, or a new one.
LEMMA PeeredOK ==
    ASSUME NEW t, StoreOK(t), NEW k \in Phone!Calls
    PROVE  LET u == Phone!Peered(t, k) IN
           /\ StoreOK(u) /\ Calmer(u, t) /\ u.dev.peer \in Phone!Calls
<1>1. /\ t \in Stores /\ Clearing(t) /\ t.dev \in Phone!Device
      /\ t.conn \in [Phone!Calls -> Phone!Connection]
      /\ t.call \in Phone!Call \cup {Phone!NoCall}
  BY DEF StoreOK, Stores, Clearing
<1>2. CASE t.dev.peer # 0
  <2>1. Phone!Peered(t, k) = t
    BY <1>2 DEF Phone!Peered
  <2>2. t.dev.peer \in Phone!Calls
    BY <1>1, <1>2, PairAssumption DEF Phone!Device, Phone!Calls
  <2> QED  BY <1>1, <2>1, <2>2, CalmerSelf
<1>3. CASE t.dev.peer = 0
  <2> DEFINE n == [Phone!NoConnection EXCEPT !.state = "open"]
             d == [t.dev EXCEPT !.peer = k]
             cn == [t.conn EXCEPT ![k] = n]
             u == Changed(t, t.call, d, cn)
  <2>1. Phone!Peered(t, k) = u
    <3>1. Phone!Peered(t, k) = [[t EXCEPT !.dev.peer = k] EXCEPT !.conn[k] = n]
      BY <1>3 DEF Phone!Peered
    <3> HIDE DEF n
    <3>2. [[t EXCEPT !.dev.peer = k] EXCEPT !.conn[k] = n]
             = [t EXCEPT !.call = t.call, !.dev = d, !.conn = cn]
      BY <1>1 DEF Stores
    <3> QED  BY <3>1, <3>2 DEF Changed
  <2>2. /\ n \in Phone!Connection /\ n.state = "open" /\ n.remote = 0 /\ ~n.trickled
    <3>1. Phone!NoConnection \in Phone!Connection
      BY PairAssumption DEF Phone!NoConnection, Phone!Connection
    <3>2. n \in Phone!Connection /\ n.state = "open"
      BY <3>1 DEF Phone!Connection
    <3> QED  BY <3>2 DEF Phone!NoConnection
  <2>3. k # 0 /\ k \in 0..MaxCalls
    BY PairAssumption DEF Phone!Calls
  <2>4. /\ d \in Phone!Device /\ d.peer = k /\ d.queue = t.dev.queue
        /\ d.setup = t.dev.setup /\ d.lost = t.dev.lost
    BY <1>1, <2>3 DEF Phone!Device
  <2> HIDE DEF n, d
  <2>5. /\ cn \in [Phone!Calls -> Phone!Connection] /\ cn[k] = n
        /\ \A j \in Phone!Calls : j # k => cn[j] = t.conn[j]
    BY <1>1, <2>2
  <2> HIDE DEF cn
  <2>6. \A j \in Phone!Calls : cn[j].state = "open" <=> d.peer = j
    <3>1. \A j \in Phone!Calls : t.conn[j].state # "open"
      <4>1. \A j \in Phone!Calls : j # 0
        BY DEF Phone!Calls
      <4> QED  BY <1>1, <1>3, <4>1 DEF Clearing
    <3> QED  BY <2>2, <2>4, <2>5, <3>1
  <2>7. Timed(t.call, d, cn)
    BY <1>3, <2>4 DEF StoreOK, Timed
  <2>8. Fit(t.call, d, cn)
    BY <2>2, <2>4, <2>5, <2>7 DEF StoreOK, Fit
  <2>9. Lighter(t.call, d, cn, t)
    <3>1. t.dev.queue \in Int
      BY <1>1, PairAssumption DEF Phone!Device
    <3> QED  BY <1>3, <2>2, <2>4, <2>5, <3>1 DEF Slack, Lighter
  <2>10. u = Changed(t, t.call, d, cn)
    OBVIOUS
  <2> HIDE DEF u
  <2>11. StoreOK(u) /\ Calmer(u, t) /\ u.dev = d
    BY <1>1, <2>4, <2>5, <2>6, <2>8, <2>9, <2>10, ChangedOK
  <2> QED  BY <2>1, <2>4, <2>11
<1> QED  BY <1>2, <1>3

\* A step on it begins.
LEMMA OnPeerOK ==
    ASSUME NEW t, StoreOK(t), NEW task \in Phone!Task, NEW stage \in {"offer", "setOffer"}
    PROVE  LET u == Phone!OnPeer(t, task, stage) IN StoreOK(u) /\ Calmer(u, t)
<1> DEFINE p == Phone!Peered(t, task.id)
           n == [task EXCEPT !.stage = stage, !.on = p.dev.peer]
           u == Phone!With(p, n)
<1>1. task.id \in Phone!Calls
  BY DEF Phone!Task
<1>2. StoreOK(p) /\ Calmer(p, t) /\ p.dev.peer \in Phone!Calls
  BY <1>1, PeeredOK
<1> HIDE DEF p
<1>3. p.dev.peer # 0 /\ p.dev.peer \in 0..MaxCalls
  BY <1>2, PairAssumption DEF Phone!Calls
<1>4. n \in Phone!Task /\ n.stage = stage /\ n.on = p.dev.peer
  BY <1>3 DEF Phone!Task, Phone!Stages
<1>5. Placed(n) /\ n.stage \notin Asking
  BY <1>3, <1>4 DEF Placed, Asking
<1> HIDE DEF n
<1>6. StoreOK(u) /\ Calmer(u, p)
  BY <1>2, <1>4, <1>5, WithOK
<1>7. Phone!OnPeer(t, task, stage) = u
  BY DEF Phone!OnPeer, p, n
<1> HIDE DEF u
<1>8. Calmer(u, t)
  BY <1>2, <1>6, OKClearing, CalmerTrans
<1> QED  BY <1>6, <1>7, <1>8

\* The camera is there.
LEMMA PhoneAfterMediaOK ==
    ASSUME NEW t, StoreOK(t), NEW task \in Phone!Task,
           task.stage \in {"startMedia", "offerMedia", "answerMedia"}
    PROVE  LET u == Phone!AfterMedia(t, task) IN
           /\ StoreOK(u)
           /\ task.stage # "startMedia" => Calmer(u, t)
           /\ task.stage = "startMedia" =>
                 /\ u.call = t.call /\ u.dev = t.dev /\ u.conn = t.conn /\ u.out = t.out
                 /\ Cardinality(PhonePending(u.tasks))
                       <= Cardinality(PhonePending(t.tasks)) + 1
<1>1. CASE task.stage = "startMedia"
  <2> DEFINE n == [task EXCEPT !.stage = "publish"]
  <2>1. n \in Phone!Task /\ n.stage = "publish"
    BY DEF Phone!Task, Phone!Stages
  <2>2. Placed(n)
    BY <2>1 DEF Placed
  <2>3. Phone!AfterMedia(t, task) = Phone!With(t, n)
    BY <1>1 DEF Phone!AfterMedia
  <2> HIDE DEF n
  <2> QED  BY <1>1, <2>1, <2>2, <2>3, WithOK
<1>2. CASE task.stage = "offerMedia"
  <2>1. Phone!AfterMedia(t, task) = Phone!OnPeer(t, task, "offer")
    BY <1>2 DEF Phone!AfterMedia
  <2> QED  BY <1>2, <2>1, OnPeerOK
<1>3. CASE task.stage = "answerMedia"
  <2>1. Phone!AfterMedia(t, task) = Phone!OnPeer(t, task, "setOffer")
    BY <1>3 DEF Phone!AfterMedia
  <2> QED  BY <1>3, <2>1, OnPeerOK
<1> QED  BY <1>1, <1>2, <1>3

\* The camera is asked for.
LEMMA AskMediaOK ==
    ASSUME NEW t, StoreOK(t), NEW task \in Phone!Task, Placed(task),
           task.stage \in {"startMedia", "acceptMedia", "offerMedia", "answerMedia"}
    PROVE  LET u == Phone!AskMedia(t, task) IN
           /\ StoreOK(u)
           /\ task.stage # "startMedia" => Calmer(u, t)
           /\ task.stage = "startMedia" =>
                 /\ u.call = t.call /\ u.dev = t.dev /\ u.conn = t.conn /\ u.out = t.out
                 /\ Cardinality(PhonePending(u.tasks))
                       <= Cardinality(PhonePending(t.tasks)) + 1
<1>1. CASE t.dev.stream /\ task.stage # "acceptMedia"
  <2>1. Phone!AskMedia(t, task) = Phone!AfterMedia(t, task)
    BY <1>1 DEF Phone!AskMedia
  <2> QED  BY <1>1, <2>1, PhoneAfterMediaOK
<1>2. CASE ~(t.dev.stream /\ task.stage # "acceptMedia")
  <2>1. Phone!AskMedia(t, task) = Phone!With(t, task)
    BY <1>2 DEF Phone!AskMedia
  <2>2. task.stage # "startMedia" => task.stage \notin Asking
    BY DEF Asking
  <2> QED  BY <2>1, <2>2, WithOK
<1> QED  BY <1>1, <1>2

\* A task of the call that is there.
LEMMA NewTaskOK ==
    ASSUME NEW c \in Phone!Call, NEW stage \in Phone!Stages, NEW of \in 0..MaxCalls
    PROVE  LET n == Phone!NewTask(stage, c, of) IN
           /\ n \in Phone!Task /\ n.stage = stage /\ n.seq = c.seq /\ n.id = c.id
           /\ n.of = of /\ n.on = 0
BY PairAssumption DEF Phone!NewTask, Phone!Task, Phone!Call

-----------------------------------------------------------------------------
(* The store of the state *)

\* Its fields.
LEMMA StoreFields ==
    ASSUME StoreOK(Phone!Store)
    PROVE  /\ Phone!Store \in Stores /\ Clearing(Phone!Store)
           /\ Phone!Store.call = call /\ Phone!Store.dev = device
           /\ Phone!Store.conn = conn /\ Phone!Store.tasks = tasks
           /\ Phone!Store.out = <<>>
           /\ call \in Phone!Call \cup {Phone!NoCall} /\ device \in Phone!Device
           /\ conn \in [Phone!Calls -> Phone!Connection]
           /\ tasks \in SUBSET Phone!Task /\ IsFiniteSet(tasks)
           /\ \A k \in Phone!Calls : conn[k].state = "open" <=> device.peer = k
           /\ device.peer # 0 /\ conn[device.peer].remote # 0 => device.queue = 0
           /\ Timed(call, device, conn)
           /\ call.dir = "incoming" => call.seq # 0
<1>1. /\ Phone!Store.call = call /\ Phone!Store.dev = device
      /\ Phone!Store.conn = conn /\ Phone!Store.tasks = tasks
      /\ Phone!Store.out = <<>>
  BY DEF Phone!Store
<1>2. Clearing(Phone!Store) /\ Phone!Store \in Stores
  BY OKClearing
<1>3. /\ call \in Phone!Call \cup {Phone!NoCall} /\ device \in Phone!Device
      /\ conn \in [Phone!Calls -> Phone!Connection]
      /\ tasks \in SUBSET Phone!Task /\ IsFiniteSet(tasks)
  BY <1>1, <1>2 DEF Stores, Clearing
<1>4. /\ \A k \in Phone!Calls : conn[k].state = "open" <=> device.peer = k
      /\ device.peer # 0 /\ conn[device.peer].remote # 0 => device.queue = 0
      /\ Timed(call, device, conn)
      /\ call.dir = "incoming" => call.seq # 0
  BY <1>1 DEF StoreOK
<1> QED  BY <1>1, <1>2, <1>3, <1>4

\* What a step of the phone leaves behind: a store in order.
PhoneQuietly == \E t : StoreOK(t) /\ Calmer(t, Phone!Store) /\ Phone!Becomes(t)

\* The phone becomes a store that is in order, and sends what it says.
LEMMA StoreBecomes ==
    ASSUME NEW t, StoreOK(t), TabInbox, Phone!Becomes(t)
    PROVE  /\ StoreOK(Phone!Store)' /\ TabInbox'
           /\ call' = t.call /\ device' = t.dev /\ conn' = t.conn /\ tasks' = t.tasks
           /\ \A e : Num(toWeb', e) = Num(toWeb, e) + Num(t.out, e)
<1>1. t \in Stores
  BY DEF StoreOK
<1>2. /\ call' = t.call /\ device' = t.dev /\ conn' = t.conn /\ tasks' = t.tasks
      /\ toWeb' = toWeb \o t.out
  BY DEF Phone!Becomes
<1>3. t.out \in Seq(Arriving)
  <2>1. t.out \in Seq(Spoken) /\ Spoken \subseteq Arriving
    BY <1>1 DEF Stores, Spoken, Arriving
  <2> QED  BY <2>1
<1>4. TabInbox'
  BY <1>2, <1>3 DEF TabInbox
<1>5. \A e : Num(toWeb', e) = Num(toWeb, e) + Num(t.out, e)
  BY <1>2, <1>3, NumConcat DEF TabInbox
<1>6. StoreOK([call |-> t.call, dev |-> t.dev, conn |-> t.conn, tasks |-> t.tasks,
               out |-> <<>>])
  <2> DEFINE v == [call |-> t.call, dev |-> t.dev, conn |-> t.conn, tasks |-> t.tasks,
                   out |-> <<>>]
  <2>1. v.call = t.call /\ v.dev = t.dev /\ v.conn = t.conn /\ v.tasks = t.tasks
    OBVIOUS
  <2>2. v \in Stores
    BY <1>1 DEF Stores
  <2> HIDE DEF v
  <2>3. StoreOK(v)
    BY <2>1, <2>2 DEF StoreOK
  <2> QED  BY <2>3 DEF v
<1>7. Phone!Store' = [call |-> t.call, dev |-> t.dev, conn |-> t.conn,
                      tasks |-> t.tasks, out |-> <<>>]
  BY <1>2 DEF Phone!Store
<1>8. StoreOK(Phone!Store')
  BY <1>6, <1>7
<1> QED  BY <1>2, <1>4, <1>5, <1>8
-----------------------------------------------------------------------------
(* Steps of the phone *)

\* The tab stays as it is while the phone steps.
LEMMA WebKept ==
    ASSUME TabOK(Web!Tab), UNCHANGED webVars
    PROVE  TabOK(Web!Tab)' /\ overlay' = overlay /\ dialing' = dialing
<1>1. overlay' = overlay /\ active' = active /\ dialing' = dialing
  BY DEF webVars
<1>2. Web!Tab' = Web!Tab
  BY <1>1 DEF Web!Tab
<1> QED  BY <1>1, <1>2

\* A step of the phone: by how much it may change the counts.
LEMMA PhoneCountedStep ==
    ASSUME IInv, UNCHANGED webVars, StoreOK(Phone!Store)', TabInbox', PhoneInbox',
           dialed' \in 0..MaxCalls, faults' \in 0..MaxFaults,
           lastSeq' \in Nat, made' \in Nat,
           Num(toWeb', "invite") + Cardinality(PhonePending(tasks')) - dialed'
              <= Num(toWeb, "invite") + Cardinality(PhonePending(tasks)) - dialed,
           made' + Num(toPhone', "invite") - dialed'
              <= made + Num(toPhone, "invite") - dialed,
           lastSeq' + Cardinality(PhonePending(tasks')) - dialed'
              <= lastSeq + Cardinality(PhonePending(tasks)) - dialed,
           Num(toWeb', "candidate") + Slack(call', device', conn') - made'
              <= Num(toWeb, "candidate") + Slack(call, device, conn) - made,
           device'.queue + Num(toPhone', "candidate")
              <= device.queue + Num(toPhone, "candidate")
    PROVE  IInv'
<1>1. /\ TabOK(Web!Tab) /\ dialing \in Nat /\ dialed \in Nat /\ made \in Nat
      /\ lastSeq \in Nat
      /\ OverlaysDialed /\ CallsDialed /\ NumbersDialed /\ CandidatesMade /\ CandidatesOpen
  BY Parts
<1>2. TabOK(Web!Tab)' /\ overlay' = overlay /\ dialing' = dialing
  BY <1>1, WebKept
<1>3. /\ Num(toWeb, "invite") \in Nat /\ Num(toWeb, "candidate") \in Nat
      /\ Num(toPhone, "invite") \in Nat /\ Num(toPhone, "candidate") \in Nat
      /\ Cardinality(Used(overlay)) \in Nat
      /\ Cardinality(WebPending(overlay)) \in Nat
      /\ Cardinality(CanTrickle(overlay)) \in Nat
      /\ Cardinality(PhonePending(tasks)) \in Nat
      /\ Slack(call, device, conn) \in {0, 1}
      /\ \A i \in Web!Overlays : overlay[i].queue \in 0..MaxCalls
      /\ device.queue \in 0..MaxCalls
  BY CountsNat
<1>4. /\ Num(toWeb', "invite") \in Nat /\ Num(toWeb', "candidate") \in Nat
      /\ Num(toPhone', "invite") \in Nat /\ Num(toPhone', "candidate") \in Nat
      /\ Cardinality(PhonePending(tasks')) \in Nat
      /\ Slack(call', device', conn') \in {0, 1}
      /\ device'.queue \in 0..MaxCalls
  <2>1. /\ Phone!Store' \in Stores /\ IsFiniteSet(Phone!Store'.tasks)
        /\ Phone!Store'.tasks = tasks' /\ Phone!Store'.dev = device'
    BY DEF StoreOK, Phone!Store
  <2>2. Cardinality(PhonePending(tasks')) \in Nat /\ device'.queue \in 0..MaxCalls
    BY <2>1, StoreNat
  <2>3. Slack(call', device', conn') \in {0, 1}
    BY DEF Slack
  <2> QED  BY <2>2, <2>3, NumNat DEF TabInbox, PhoneInbox
<1>5. OverlaysDialed'
  BY <1>1, <1>2, <1>3, <1>4 DEF OverlaysDialed
<1>6. CallsDialed'
  BY <1>1, <1>2, <1>3, <1>4 DEF CallsDialed
<1>7. NumbersDialed'
  BY <1>1, <1>2, <1>3, <1>4 DEF NumbersDialed
<1>8. CandidatesMade'
  <2> SUFFICES ASSUME NEW i \in Web!Overlays
               PROVE  overlay'[i].queue + Num(toWeb', "candidate")
                         + Slack(call', device', conn') <= made'
    BY DEF CandidatesMade
  <2>1. overlay[i].queue + Num(toWeb, "candidate") + Slack(call, device, conn) <= made
    BY <1>1 DEF CandidatesMade
  <2>2. overlay[i].queue \in 0..MaxCalls /\ overlay'[i].queue = overlay[i].queue
    BY <1>2, <1>3
  <2> QED  BY <1>1, <1>3, <1>4, <2>1, <2>2, PairAssumption
<1>9. CandidatesOpen'
  BY <1>1, <1>2, <1>3, <1>4, PairAssumption DEF CandidatesOpen
<1> QED  BY <1>1, <1>2, <1>5, <1>6, <1>7, <1>8, <1>9, PartsBack

\* A step of the phone that counts no more than before.
LEMMA PhoneQuietStep ==
    ASSUME IInv, PhoneQuietly, UNCHANGED webVars, Faulty,
           UNCHANGED <<made, lastSeq, dialed>>, PhoneInbox',
           Num(toPhone', "invite") <= Num(toPhone, "invite"),
           Num(toPhone', "candidate") <= Num(toPhone, "candidate")
    PROVE  IInv'
<1>1. /\ StoreOK(Phone!Store) /\ TabInbox /\ PhoneInbox
      /\ dialed \in 0..MaxCalls /\ dialed \in Nat
      /\ faults \in 0..MaxFaults /\ made \in Nat /\ lastSeq \in Nat
  BY Parts
<1>2. PICK t : StoreOK(t) /\ Calmer(t, Phone!Store) /\ Phone!Becomes(t)
  BY DEF PhoneQuietly
<1>3. /\ StoreOK(Phone!Store)' /\ TabInbox'
      /\ call' = t.call /\ device' = t.dev /\ conn' = t.conn /\ tasks' = t.tasks
      /\ \A e : Num(toWeb', e) = Num(toWeb, e) + Num(t.out, e)
  BY <1>1, <1>2, StoreBecomes
<1>4. /\ Phone!Store.call = call /\ Phone!Store.dev = device
      /\ Phone!Store.conn = conn /\ Phone!Store.tasks = tasks
      /\ Phone!Store.out = <<>>
  BY <1>1, StoreFields
<1>5. /\ Cardinality(PhonePending(tasks')) <= Cardinality(PhonePending(tasks))
      /\ Slack(call', device', conn') <= Slack(call, device, conn)
      /\ device'.queue <= device.queue
  BY <1>2, <1>3, <1>4 DEF Calmer
<1>6. /\ Num(toWeb, "invite") \in Nat /\ Num(toWeb, "candidate") \in Nat
      /\ Num(toPhone, "invite") \in Nat /\ Num(toPhone, "candidate") \in Nat
      /\ Cardinality(PhonePending(tasks)) \in Nat
      /\ Slack(call, device, conn) \in {0, 1}
      /\ device.queue \in 0..MaxCalls
  BY CountsNat
<1>7. Num(toWeb', "invite") = Num(toWeb, "invite")
      /\ Num(toWeb', "candidate") = Num(toWeb, "candidate")
  <2>1. Num(<<>>, "invite") = 0 /\ Num(<<>>, "candidate") = 0
    BY NumSmall
  <2>2. Num(t.out, "invite") = 0 /\ Num(t.out, "candidate") = 0
    BY <1>2, <1>4, <2>1 DEF Calmer
  <2> QED  BY <1>3, <1>6, <2>2
<1>8. /\ Num(toPhone', "invite") \in Nat /\ Num(toPhone', "candidate") \in Nat
      /\ Cardinality(PhonePending(tasks')) \in Nat
      /\ Slack(call', device', conn') \in {0, 1}
      /\ device'.queue \in 0..MaxCalls
  <2>1. t \in Stores /\ IsFiniteSet(t.tasks)
    BY <1>2 DEF StoreOK
  <2>2. /\ Cardinality(PhonePending(tasks')) \in Nat /\ device'.queue \in 0..MaxCalls
        /\ Slack(call', device', conn') \in {0, 1}
    BY <1>3, <2>1, StoreNat
  <2> QED  BY <2>2, NumNat DEF PhoneInbox
<1>9. made' = made /\ lastSeq' = lastSeq /\ dialed' = dialed
  OBVIOUS
<1>10. faults' \in 0..MaxFaults /\ dialed' \in 0..MaxCalls /\ lastSeq' \in Nat /\ made' \in Nat
  BY <1>1, <1>9, FaultyOK
<1>11. Num(toWeb', "invite") + Cardinality(PhonePending(tasks')) - dialed'
          <= Num(toWeb, "invite") + Cardinality(PhonePending(tasks)) - dialed
  BY <1>1, <1>5, <1>6, <1>7, <1>8, <1>9
<1>12. made' + Num(toPhone', "invite") - dialed' <= made + Num(toPhone, "invite") - dialed
  BY <1>1, <1>6, <1>8, <1>9
<1>13. lastSeq' + Cardinality(PhonePending(tasks')) - dialed'
          <= lastSeq + Cardinality(PhonePending(tasks)) - dialed
  BY <1>1, <1>5, <1>6, <1>8, <1>9
<1>14. Num(toWeb', "candidate") + Slack(call', device', conn') - made'
          <= Num(toWeb, "candidate") + Slack(call, device, conn) - made
  BY <1>1, <1>5, <1>6, <1>7, <1>8, <1>9
<1>15. device'.queue + Num(toPhone', "candidate") <= device.queue + Num(toPhone, "candidate")
  BY <1>5, <1>6, <1>8, PairAssumption
<1> QED  BY <1>3, <1>10, <1>11, <1>12, <1>13, <1>14, <1>15, PhoneCountedStep

\* The same, when the phone's queue stays as it is.
LEMMA PhoneCalmStep ==
    ASSUME IInv, PhoneQuietly, UNCHANGED webVars, Faulty,
           UNCHANGED <<made, toPhone, lastSeq, dialed>>
    PROVE  IInv'
<1>1. toPhone' = toPhone /\ UNCHANGED <<made, lastSeq, dialed>>
  OBVIOUS
<1>2. PhoneInbox'
  BY <1>1, Parts DEF PhoneInbox
<1>3. /\ Num(toPhone', "invite") <= Num(toPhone, "invite")
      /\ Num(toPhone', "candidate") <= Num(toPhone, "candidate")
  BY <1>1, CountsNat
<1> QED  BY <1>1, <1>2, <1>3, PhoneQuietStep

\* The first packet of the phone's queue leaves it.
LEMMA PhoneHead ==
    ASSUME IInv, toPhone # <<>>, toPhone' = Tail(toPhone)
    PROVE  /\ Head(toPhone) \in Web!Packet /\ PhoneInbox'
           /\ Num(toPhone', Head(toPhone).event) = Num(toPhone, Head(toPhone).event) - 1
           /\ \A e : e # Head(toPhone).event => Num(toPhone', e) = Num(toPhone, e)
           /\ \A e : Num(toPhone', e) \in Nat
<1>1. toPhone \in Seq(Web!Packet)
  BY Parts DEF PhoneInbox
<1>2. Head(toPhone) \in Web!Packet /\ Tail(toPhone) \in Seq(Web!Packet)
  BY <1>1, HeadTailProperties
<1>3. PhoneInbox'
  BY <1>2 DEF PhoneInbox
<1>4. \A e : Num(Tail(toPhone), e) \in Nat /\ Num(toPhone, e) \in Nat
  BY <1>1, <1>2, NumNat
<1>5. \A e : Num(toPhone, e)
             = Num(Tail(toPhone), e) + (IF Head(toPhone).event = e THEN 1 ELSE 0)
  BY <1>1, NumTail
<1> DEFINE b == Head(toPhone).event
<1>6. Num(Tail(toPhone), b) = Num(toPhone, b) - 1
  BY <1>4, <1>5
<1>7. \A e : e # b => Num(Tail(toPhone), e) = Num(toPhone, e)
  BY <1>4, <1>5
<1> QED  BY <1>2, <1>3, <1>4, <1>6, <1>7

\* A step of the phone that takes a packet and counts no more than before.
LEMMA PhoneTakesQuietly ==
    ASSUME IInv, PhoneQuietly, UNCHANGED webVars, Faulty,
           UNCHANGED <<made, lastSeq, dialed>>,
           toPhone # <<>>, toPhone' = Tail(toPhone)
    PROVE  IInv'
<1>1. PhoneInbox'
  BY PhoneHead
<1>2. \A e : Num(toPhone', e) <= Num(toPhone, e)
  <2>1. \A e : Num(toPhone, e) \in Nat /\ Num(toPhone', e) \in Nat
    BY CountsNat, PhoneHead
  <2> TAKE e
  <2>2. CASE e = Head(toPhone).event
    BY <2>1, <2>2, PhoneHead
  <2>3. CASE e # Head(toPhone).event
    BY <2>1, <2>3, PhoneHead
  <2> QED  BY <2>2, <2>3
<1> QED  BY <1>1, <1>2, PhoneQuietStep
-----------------------------------------------------------------------------
(* Quiet steps of the phone *)

\* A store that is in order and calmer than that of the state.
LEMMA QuietStore ==
    ASSUME NEW t, StoreOK(t), Calmer(t, Phone!Store), Phone!Becomes(t)
    PROVE  PhoneQuietly
BY DEF PhoneQuietly

\* A calmer store is closed.
LEMMA QuietEnd ==
    ASSUME StoreOK(Phone!Store), NEW t, Clearing(t), Calmer(t, Phone!Store),
           NEW notify, Phone!Becomes(Phone!Closed(t, notify))
    PROVE  PhoneQuietly
<1> DEFINE u == Phone!Closed(t, notify)
<1>1. StoreOK(u) /\ Calmer(u, Phone!Store)
  <2>1. Clearing(Phone!Store)
    BY StoreFields
  <2> QED  BY <2>1, PhoneClosedAfter
<1>2. Phone!Becomes(u)
  OBVIOUS
<1> HIDE DEF u
<1> QED  BY <1>1, <1>2, QuietStore

\* The call is past its invitation.
Moved(c) == [c EXCEPT !.phase = "setup"]

\* It is the same call, and no call stays none.
LEMMA MovedOK ==
    ASSUME NEW c \in Phone!Call \cup {Phone!NoCall}
    PROVE  /\ Moved(c) \in Phone!Call \cup {Phone!NoCall}
           /\ Moved(c).id = c.id /\ Moved(c).dir = c.dir /\ Moved(c).seq = c.seq
           /\ Moved(c) # Phone!NoCall => c # Phone!NoCall
<1>1. CASE c \in Phone!Call
  <2>1. /\ Moved(c) \in Phone!Call
        /\ Moved(c).id = c.id /\ Moved(c).dir = c.dir /\ Moved(c).seq = c.seq
    BY <1>1 DEF Moved, Phone!Call
  <2>2. c # Phone!NoCall
    BY <1>1, PairAssumption DEF Phone!Call, Phone!NoCall, Phone!Calls
  <2> QED  BY <2>1, <2>2
<1>2. CASE c = Phone!NoCall
  <2>1. Moved(c) = Phone!NoCall
    BY <1>2 DEF Moved, Phone!NoCall
  <2> QED  BY <1>2, <2>1
<1> QED  BY <1>1, <1>2

\* A store whose call moves on stays in order.
LEMMA MovedStoreOK ==
    ASSUME NEW t, StoreOK(t), NEW u, u = Changed(t, Moved(t.call), t.dev, t.conn)
    PROVE  /\ StoreOK(u) /\ Calmer(u, t)
           /\ u.call = Moved(t.call) /\ u.dev = t.dev /\ u.conn = t.conn
           /\ u.out = t.out /\ u.tasks = t.tasks
<1> DEFINE m == Moved(t.call)
<1>1. /\ Clearing(t) /\ t.dev \in Phone!Device
      /\ t.conn \in [Phone!Calls -> Phone!Connection]
      /\ t.call \in Phone!Call \cup {Phone!NoCall}
      /\ \A k \in Phone!Calls : t.conn[k].state = "open" <=> t.dev.peer = k
  BY DEF StoreOK, Stores, Clearing
<1>2. /\ m \in Phone!Call \cup {Phone!NoCall}
      /\ m.id = t.call.id /\ m.dir = t.call.dir /\ m.seq = t.call.seq
      /\ m # Phone!NoCall => t.call # Phone!NoCall
  BY <1>1, MovedOK
<1> HIDE DEF m
<1>3. Fit(m, t.dev, t.conn)
  BY <1>2 DEF StoreOK, Fit, Timed
<1>4. Lighter(m, t.dev, t.conn, t)
  <2>1. t.dev.queue \in Int
    BY <1>1, PairAssumption DEF Phone!Device
  <2> QED  BY <1>2, <2>1 DEF Lighter, Slack
<1>5. u = Changed(t, m, t.dev, t.conn)
  BY DEF m
<1> QED  BY <1>1, <1>2, <1>3, <1>4, <1>5, ChangedOK DEF m

\* The same, of the call as the code moves it on.
LEMMA MovedStore ==
    ASSUME NEW t \in Stores
    PROVE  [t EXCEPT !.call.phase = "setup"] = Changed(t, Moved(t.call), t.dev, t.conn)
BY DEF Stores, Changed, Moved

\* The user answers.
LEMMA AcceptQuietly ==
    ASSUME StoreOK(Phone!Store), Phone!Accept
    PROVE  PhoneQuietly
<1> DEFINE S == Phone!Store
           t == Changed(S, Moved(S.call), S.dev, S.conn)
           n == Phone!NewTask("acceptMedia", call, 0)
           u == Phone!AskMedia(t, n)
<1>1. /\ S \in Stores /\ Clearing(S) /\ S.call = call
      /\ call \in Phone!Call \cup {Phone!NoCall}
      /\ call.dir = "incoming" => call.seq # 0
  BY StoreFields
<1>2. call \in Phone!Call /\ call.seq # 0
  BY <1>1 DEF Phone!Accept, Phone!NoCall
<1>3. Phone!Becomes(u)
  BY <1>1, MovedStore DEF Phone!Accept
<1>4. StoreOK(t) /\ Calmer(t, S)
  <2>1. t = Changed(S, Moved(S.call), S.dev, S.conn)
    OBVIOUS
  <2> HIDE DEF t, S
  <2> QED  BY <2>1, MovedStoreOK DEF S
<1>5. n \in Phone!Task /\ n.stage = "acceptMedia" /\ Placed(n)
  <2>1. "acceptMedia" \in Phone!Stages /\ 0 \in 0..MaxCalls
    BY PairAssumption DEF Phone!Stages
  <2>2. n \in Phone!Task /\ n.stage = "acceptMedia" /\ n.seq = call.seq
    BY <1>2, <2>1, NewTaskOK
  <2> HIDE DEF n
  <2> QED  BY <1>2, <2>2 DEF Placed
<1> HIDE DEF t, n
<1>6. StoreOK(u) /\ Calmer(u, t)
  BY <1>4, <1>5, AskMediaOK
<1> HIDE DEF u, S
<1>7. Calmer(u, S)
  BY <1>1, <1>4, <1>6, OKClearing, CalmerTrans
<1> QED  BY <1>3, <1>6, <1>7, QuietStore DEF S

\* The call is closed.
LEMMA ClosesQuietly ==
    ASSUME StoreOK(Phone!Store), NEW notify,
           Phone!Becomes(Phone!Closed(Phone!Store, notify))
    PROVE  PhoneQuietly
<1>1. Clearing(Phone!Store) /\ Calmer(Phone!Store, Phone!Store)
  BY StoreFields, CalmerSelf
<1> QED  BY <1>1, QuietEnd

\* The user hangs up; a timer runs out; media fails.
LEMMA EndsQuietly ==
    ASSUME StoreOK(Phone!Store),
           \/ Phone!HangUp \/ Phone!SetupTimeout \/ Phone!DisconnectTimeout
           \/ \E k \in Phone!Calls : Phone!IceFailed(k)
    PROVE  PhoneQuietly
<1>1. PICK b : Phone!Becomes(Phone!Closed(Phone!Store, b))
  BY DEF Phone!HangUp, Phone!SetupTimeout, Phone!DisconnectTimeout, Phone!IceFailed
<1> QED  BY <1>1, ClosesQuietly
-----------------------------------------------------------------------------
(* Asynchronous steps of the phone that come back *)

\* A task of the state is over.
LEMMA TaskOver ==
    ASSUME StoreOK(Phone!Store), NEW task \in tasks,
           NEW w, w = Phone!Without(Phone!Store, task)
    PROVE  /\ StoreOK(w) /\ Clearing(w) /\ Calmer(w, Phone!Store)
           /\ Placed(task) /\ task \in Phone!Task
           /\ w.call = call /\ w.dev = device /\ w.conn = conn /\ w.out = <<>>
           /\ task.stage \in Asking =>
                 Cardinality(PhonePending(w.tasks)) <= Cardinality(PhonePending(tasks)) - 1
<1> DEFINE S == Phone!Store
<1>1. /\ S.call = call /\ S.dev = device /\ S.conn = conn /\ S.tasks = tasks
      /\ S.out = <<>>
  BY StoreFields
<1>2. task \in S.tasks
  BY <1>1
<1>3. /\ StoreOK(w) /\ Calmer(w, S) /\ Placed(task) /\ task \in Phone!Task
      /\ w.call = S.call /\ w.dev = S.dev /\ w.conn = S.conn /\ w.out = S.out
      /\ task.stage \in Asking =>
            Cardinality(PhonePending(w.tasks)) <= Cardinality(PhonePending(S.tasks)) - 1
  BY <1>2, WithoutOK
<1> QED  BY <1>1, <1>3, OKClearing

\* The camera opens.
LEMMA StreamOK ==
    ASSUME NEW t, StoreOK(t), NEW u, u = Changed(t, t.call, [t.dev EXCEPT !.stream = TRUE], t.conn)
    PROVE  /\ StoreOK(u) /\ Calmer(u, t)
           /\ u.call = t.call /\ u.tasks = t.tasks /\ u.out = t.out
<1> DEFINE d == [t.dev EXCEPT !.stream = TRUE]
<1>1. /\ Clearing(t) /\ t.dev \in Phone!Device
      /\ t.conn \in [Phone!Calls -> Phone!Connection]
      /\ t.call \in Phone!Call \cup {Phone!NoCall}
      /\ \A k \in Phone!Calls : t.conn[k].state = "open" <=> t.dev.peer = k
  BY DEF StoreOK, Stores, Clearing
<1>2. /\ d \in Phone!Device /\ d.peer = t.dev.peer /\ d.queue = t.dev.queue
      /\ d.setup = t.dev.setup /\ d.lost = t.dev.lost
  BY <1>1 DEF Phone!Device
<1> HIDE DEF d
<1>3. Fit(t.call, d, t.conn)
  BY <1>2 DEF StoreOK, Fit, Timed
<1>4. Lighter(t.call, d, t.conn, t)
  <2>1. t.dev.queue \in Int
    BY <1>1, PairAssumption DEF Phone!Device
  <2> QED  BY <1>2, <2>1 DEF Lighter, Slack
<1>5. u = Changed(t, t.call, d, t.conn)
  BY DEF d
<1> QED  BY <1>1, <1>2, <1>3, <1>4, <1>5, ChangedOK

\* A media request comes back with the camera.
LEMMA MediaOpensQuietly ==
    ASSUME StoreOK(Phone!Store), NEW task \in tasks, Phone!MediaOpens(task)
    PROVE  PhoneQuietly
<1> DEFINE S == Phone!Store
           w == Phone!Without(S, task)
           t == Changed(w, w.call, [w.dev EXCEPT !.stream = TRUE], w.conn)
<1>1. /\ StoreOK(w) /\ Clearing(w) /\ Calmer(w, S)
      /\ Placed(task) /\ task \in Phone!Task
      /\ w.call = call /\ w.dev = device /\ w.conn = conn /\ w.out = <<>>
      /\ task.stage \in Asking =>
            Cardinality(PhonePending(w.tasks)) <= Cardinality(PhonePending(tasks)) - 1
  <2>1. w = Phone!Without(S, task)
    OBVIOUS
  <2> HIDE DEF w
  <2> QED  BY <2>1, TaskOver
<1>2. t = [w EXCEPT !.dev.stream = TRUE]
  <2> HIDE DEF w
  <2>1. w \in Stores
    BY <1>1 DEF Clearing
  <2> QED  BY <2>1 DEF Stores, Changed
<1>3. /\ task.stage \in {"startMedia", "acceptMedia", "offerMedia", "answerMedia"}
      /\ \/ task.stage # "acceptMedia" /\ Phone!Becomes(Phone!AfterMedia(t, task))
         \/ /\ task.stage = "acceptMedia"
            /\ \/ Phone!Becomes(Phone!Say([t EXCEPT !.call.phase = "setup"],
                                          "accept", task.seq, 0))
               \/ Phone!Becomes(Phone!Closed(t, TRUE))
  BY <1>2 DEF Phone!MediaOpens
<1> HIDE DEF w
<1>4. /\ StoreOK(t) /\ Calmer(t, w)
      /\ t.call = w.call /\ t.tasks = w.tasks /\ t.out = w.out
  <2>1. t = Changed(w, w.call, [w.dev EXCEPT !.stream = TRUE], w.conn)
    OBVIOUS
  <2> HIDE DEF t
  <2> QED  BY <1>1, <2>1, StreamOK
<1> HIDE DEF t
<1>5. /\ Clearing(S) /\ S.tasks = tasks /\ Clearing(t) /\ Clearing(w)
  BY <1>4, StoreFields, OKClearing, <1>1
<1> HIDE DEF S
<1>6. Calmer(t, S)
  BY <1>1, <1>4, <1>5, CalmerTrans
<1>7. CASE task.stage \in {"offerMedia", "answerMedia"}
  <2> DEFINE u == Phone!AfterMedia(t, task)
  <2>1. StoreOK(u) /\ Calmer(u, t)
    BY <1>1, <1>4, <1>7, PhoneAfterMediaOK
  <2>2. Phone!Becomes(u)
    BY <1>3, <1>7
  <2> HIDE DEF u
  <2>3. Calmer(u, S)
    BY <1>5, <1>6, <2>1, OKClearing, CalmerTrans
  <2> QED  BY <2>1, <2>2, <2>3, QuietStore DEF S
<1>8. CASE task.stage = "startMedia"
  <2> DEFINE u == Phone!AfterMedia(t, task)
  <2>1. /\ StoreOK(u)
        /\ u.call = t.call /\ u.dev = t.dev /\ u.conn = t.conn /\ u.out = t.out
        /\ Cardinality(PhonePending(u.tasks)) <= Cardinality(PhonePending(t.tasks)) + 1
    BY <1>1, <1>4, <1>8, PhoneAfterMediaOK
  <2>2. Phone!Becomes(u)
    BY <1>3, <1>8
  <2> HIDE DEF u
  <2>3. task.stage \in Asking
    BY <1>8 DEF Asking
  <2>4. Cardinality(PhonePending(w.tasks)) <= Cardinality(PhonePending(S.tasks)) - 1
    BY <1>1, <1>5, <2>3
  <2>5. /\ Cardinality(PhonePending(u.tasks)) \in Nat
        /\ Cardinality(PhonePending(t.tasks)) \in Nat
        /\ Cardinality(PhonePending(S.tasks)) \in Nat
    BY <1>5, <2>1, OKClearing, StoreNat DEF Clearing
  <2>6. Cardinality(PhonePending(u.tasks)) <= Cardinality(PhonePending(S.tasks))
    BY <1>4, <2>1, <2>4, <2>5
  <2>7. Calmer(u, S)
    BY <1>6, <2>1, <2>6 DEF Calmer
  <2> QED  BY <2>1, <2>2, <2>7, QuietStore DEF S
<1>9. CASE task.stage = "acceptMedia"
  <2> DEFINE m == Changed(t, Moved(t.call), t.dev, t.conn)
             u == Phone!Say(m, "accept", task.seq, 0)
  <2>1. StoreOK(m) /\ Calmer(m, t)
    <3>1. m = Changed(t, Moved(t.call), t.dev, t.conn)
      OBVIOUS
    <3> HIDE DEF m
    <3> QED  BY <1>4, <3>1, MovedStoreOK
  <2>2. \/ Phone!Becomes(u) \/ Phone!Becomes(Phone!Closed(t, TRUE))
    <3>1. t \in Stores
      BY <1>5 DEF Clearing
    <3> QED  BY <1>3, <1>9, <3>1, MovedStore
  <2>3. ASSUME Phone!Becomes(u) PROVE PhoneQuietly
    <3>1. /\ task.seq \in 1..MaxCalls /\ 0 \in 0..MaxCalls
          /\ "accept" \in Web!Events \ {"confirm", "invite", "candidate"}
      BY <1>1, <1>9, PairAssumption DEF Placed, Phone!Task, Web!Events
    <3> HIDE DEF m
    <3>2. StoreOK(u) /\ Calmer(u, m)
      BY <2>1, <3>1, OKClearing, PhoneSayCalm
    <3> HIDE DEF u
    <3>3. Calmer(m, S)
      BY <1>5, <1>6, <2>1, OKClearing, CalmerTrans
    <3>4. Calmer(u, S)
      BY <1>5, <2>1, <3>2, <3>3, OKClearing, CalmerTrans
    <3> QED  BY <2>3, <3>2, <3>4, QuietStore DEF S
  <2>4. ASSUME Phone!Becomes(Phone!Closed(t, TRUE)) PROVE PhoneQuietly
    <3>1. PICK b : b = TRUE
      OBVIOUS
    <3>2. Phone!Becomes(Phone!Closed(t, b))
      BY <2>4, <3>1
    <3> QED  BY <1>5, <1>6, <3>2, QuietEnd DEF S
  <2> QED  BY <2>2, <2>3, <2>4
<1> QED  BY <1>3, <1>7, <1>8, <1>9

\* A media request fails.
LEMMA MediaFailsQuietly ==
    ASSUME StoreOK(Phone!Store), NEW task \in tasks, Phone!MediaFails(task)
    PROVE  PhoneQuietly
<1> DEFINE w == Phone!Without(Phone!Store, task)
<1>1. Clearing(w) /\ Calmer(w, Phone!Store)
  <2>1. w = Phone!Without(Phone!Store, task)
    OBVIOUS
  <2> HIDE DEF w
  <2> QED  BY <2>1, TaskOver
<1>2. PICK b : Phone!Becomes(Phone!Closed(w, b))
  BY DEF Phone!MediaFails
<1> HIDE DEF w
<1> QED  BY <1>1, <1>2, QuietEnd
-----------------------------------------------------------------------------
(* Connections of the phone *)

\* A store whose queue may wait although the description is there.
Waiting(t) ==
    /\ Clearing(t) /\ Timed(t.call, t.dev, t.conn)
    /\ t.call.dir = "incoming" => t.call.seq # 0

\* A connection that differs in nothing a store depends on.
Alike(n, o) == n.ice = o.ice /\ n.remote = o.remote

\* Another connection in the place of the one that call k opened.
Connected(t, k, n) == Changed(t, t.call, t.dev, [t.conn EXCEPT ![k] = n])

\* What such a change leaves.
LEMMA ConnectedOK ==
    ASSUME NEW t, StoreOK(t), NEW k \in Phone!Calls, NEW n \in Phone!Connection,
           n.state = t.conn[k].state, n.ice = t.conn[k].ice,
           t.conn[k].trickled => n.trickled,
           NEW u, u = Connected(t, k, n)
    PROVE  /\ Waiting(u) /\ Calmer(u, t)
           /\ u.call = t.call /\ u.dev = t.dev /\ u.out = t.out /\ u.tasks = t.tasks
           /\ u.conn[k] = n
           /\ \A j \in Phone!Calls : u.conn[j].state = t.conn[j].state
           /\ Alike(n, t.conn[k]) => StoreOK(u)
<1> DEFINE cn == [t.conn EXCEPT ![k] = n]
<1>1. /\ Clearing(t) /\ t.dev \in Phone!Device
      /\ t.conn \in [Phone!Calls -> Phone!Connection]
      /\ t.call \in Phone!Call \cup {Phone!NoCall}
      /\ \A j \in Phone!Calls : t.conn[j].state = "open" <=> t.dev.peer = j
      /\ Timed(t.call, t.dev, t.conn)
      /\ t.call.dir = "incoming" => t.call.seq # 0
      /\ t.dev.peer # 0 /\ t.conn[t.dev.peer].remote # 0 => t.dev.queue = 0
      /\ t.dev.peer \in 0..MaxCalls
  BY DEF StoreOK, Stores, Clearing, Phone!Device
<1>2. /\ cn \in [Phone!Calls -> Phone!Connection] /\ cn[k] = n
      /\ \A j \in Phone!Calls : j # k => cn[j] = t.conn[j]
  BY <1>1
<1>3. u = Changed(t, t.call, t.dev, cn)
  BY DEF Connected
<1> HIDE DEF cn
<1>4. \A j \in Phone!Calls : cn[j].state = t.conn[j].state /\ cn[j].ice = t.conn[j].ice
  BY <1>2
<1>5. t.dev.peer # 0 => t.dev.peer \in Phone!Calls
  BY <1>1, PairAssumption DEF Phone!Calls
<1>6. Timed(t.call, t.dev, cn)
  BY <1>1, <1>4, <1>5 DEF Timed
<1>7. Lighter(t.call, t.dev, cn, t)
  <2>1. t.dev.queue \in Int
    BY <1>1, PairAssumption DEF Phone!Device
  <2>2. t.dev.peer # 0 => (t.conn[t.dev.peer].trickled => cn[t.dev.peer].trickled)
    BY <1>2, <1>5
  <2> QED  BY <2>1, <2>2 DEF Lighter, Slack
<1>8. \A j \in Phone!Calls : cn[j].state = "open" <=> t.dev.peer = j
  BY <1>1, <1>4
<1>9. /\ Clearing(u) /\ Calmer(u, t)
      /\ u.call = t.call /\ u.dev = t.dev /\ u.conn = cn /\ u.out = t.out
      /\ u.tasks = t.tasks
      /\ Fit(t.call, t.dev, cn) => StoreOK(u)
  BY <1>1, <1>2, <1>3, <1>7, <1>8, ChangedOK
<1>10. Waiting(u)
  BY <1>1, <1>6, <1>9 DEF Waiting
<1>11. ASSUME Alike(n, t.conn[k]) PROVE Fit(t.call, t.dev, cn)
  <2>1. \A j \in Phone!Calls : cn[j].remote = t.conn[j].remote
    BY <1>2, <1>11 DEF Alike
  <2>2. t.dev.peer # 0 => cn[t.dev.peer].remote = t.conn[t.dev.peer].remote
    BY <1>5, <2>1
  <2> QED  BY <1>1, <1>6, <2>2 DEF Fit
<1> QED  BY <1>2, <1>4, <1>9, <1>10, <1>11

\* What waits is dropped or sent once the description is there.
LEMMA DrainedOK ==
    ASSUME NEW t, Waiting(t)
    PROVE  LET u == Phone!Drained(t) IN StoreOK(u) /\ Calmer(u, t)
<1>1. /\ Clearing(t) /\ t \in Stores /\ t.dev \in Phone!Device
      /\ t.conn \in [Phone!Calls -> Phone!Connection]
      /\ t.call \in Phone!Call \cup {Phone!NoCall}
      /\ \A j \in Phone!Calls : t.conn[j].state = "open" <=> t.dev.peer = j
      /\ Timed(t.call, t.dev, t.conn)
      /\ t.call.dir = "incoming" => t.call.seq # 0
  BY DEF Stores, Clearing, Waiting
<1>2. CASE t.dev.peer # 0 /\ t.conn[t.dev.peer].remote # 0
  <2> DEFINE d == [t.dev EXCEPT !.queue = 0]
             u == Changed(t, t.call, d, t.conn)
  <2>1. Phone!Drained(t) = u
    BY <1>1, <1>2 DEF Phone!Drained, Changed, Stores
  <2>2. /\ d \in Phone!Device /\ d.peer = t.dev.peer /\ d.queue = 0
        /\ d.setup = t.dev.setup /\ d.lost = t.dev.lost
    BY <1>1, PairAssumption DEF Phone!Device
  <2> HIDE DEF d
  <2>3. Fit(t.call, d, t.conn)
    BY <1>1, <2>2 DEF Fit, Timed
  <2>4. Lighter(t.call, d, t.conn, t)
    <3>1. t.dev.queue \in Nat
      BY <1>1, PairAssumption DEF Phone!Device
    <3> QED  BY <2>2, <3>1 DEF Lighter, Slack
  <2>5. u = Changed(t, t.call, d, t.conn)
    OBVIOUS
  <2> HIDE DEF u
  <2> QED  BY <1>1, <2>1, <2>2, <2>3, <2>4, <2>5, ChangedOK
<1>3. CASE ~(t.dev.peer # 0 /\ t.conn[t.dev.peer].remote # 0)
  <2>1. Phone!Drained(t) = t
    BY <1>3 DEF Phone!Drained
  <2>2. StoreOK(t)
    BY <1>1, <1>3 DEF StoreOK, Clearing
  <2> QED  BY <1>1, <2>1, <2>2, CalmerSelf
<1> QED  BY <1>2, <1>3

\* The connection of a task is the one that call opened.
LEMMA TaskOn ==
    ASSUME NEW task \in Phone!Task, Placed(task),
           task.stage \in {"offer", "setOffer", "answer", "setAnswer"}
    PROVE  task.on \in Phone!Calls /\ task.on # 0 /\ task.of \in 0..MaxCalls
           /\ task.on \in 0..MaxCalls
BY PairAssumption DEF Phone!Task, Placed, Phone!Calls

\* A description is ready to be sent.
LEMMA DescribeQuietly ==
    ASSUME StoreOK(Phone!Store), NEW task \in tasks, Phone!Describe(task)
    PROVE  PhoneQuietly
<1> DEFINE S == Phone!Store
           w == Phone!Without(S, task)
           k == task.on
           n == [w.conn[k] EXCEPT !.local = TRUE]
           d == Connected(w, k, n)
           u == Phone!Say(d, task.stage, task.seq, task.on)
<1>1. /\ StoreOK(w) /\ Clearing(w) /\ Calmer(w, S)
      /\ Placed(task) /\ task \in Phone!Task
      /\ w.call = call /\ w.dev = device /\ w.conn = conn
  <2>1. w = Phone!Without(S, task)
    OBVIOUS
  <2> HIDE DEF w
  <2> QED  BY <2>1, TaskOver
<1>2. d = [w EXCEPT !.conn[task.on].local = TRUE]
  <2> HIDE DEF w
  <2>1. w \in Stores
    BY <1>1 DEF Clearing
  <2> QED  BY <2>1 DEF Stores, Connected, Changed
<1>3. /\ task.stage \in {"offer", "answer"}
      /\ \/ task.seq # 0 /\ Phone!Becomes(u)
         \/ \E b : Phone!Becomes(Phone!Closed(d, b))
         \/ \E b : Phone!Becomes(Phone!Closed(w, b))
  <2> HIDE DEF d
  <2> QED  BY <1>2 DEF Phone!Describe
<1> HIDE DEF w
<1>4. k \in Phone!Calls /\ k \in 0..MaxCalls
  BY <1>1, <1>3, TaskOn
<1>5. StoreOK(d) /\ Calmer(d, w)
  <2>1. w.conn[k] \in Phone!Connection
    BY <1>1, <1>4 DEF Clearing, Stores
  <2>2. /\ n \in Phone!Connection /\ n.state = w.conn[k].state
        /\ n.ice = w.conn[k].ice /\ n.remote = w.conn[k].remote
        /\ n.trickled = w.conn[k].trickled
    BY <2>1 DEF Phone!Connection
  <2>3. d = Connected(w, k, n)
    OBVIOUS
  <2> HIDE DEF d, n
  <2>4. Alike(n, w.conn[k])
    BY <2>2 DEF Alike
  <2> QED  BY <1>1, <1>4, <2>2, <2>3, <2>4, ConnectedOK
<1> HIDE DEF d
<1>6. Clearing(S) /\ Clearing(d) /\ Calmer(d, S)
  BY <1>1, <1>5, StoreFields, OKClearing, CalmerTrans
<1>7. ASSUME task.seq # 0, Phone!Becomes(u) PROVE PhoneQuietly
  <2>1. /\ task.seq \in 1..MaxCalls
        /\ task.stage \in Web!Events \ {"confirm", "invite", "candidate"}
    BY <1>1, <1>3, <1>7, PairAssumption DEF Phone!Task, Web!Events
  <2>2. StoreOK(u) /\ Calmer(u, d)
    BY <1>4, <1>5, <1>6, <2>1, PhoneSayCalm
  <2> HIDE DEF u
  <2>3. Calmer(u, S)
    BY <1>6, <2>2, OKClearing, CalmerTrans
  <2> QED  BY <1>7, <2>2, <2>3, QuietStore
<1>8. ASSUME \E b : Phone!Becomes(Phone!Closed(d, b)) PROVE PhoneQuietly
  BY <1>6, <1>8, QuietEnd
<1>9. ASSUME \E b : Phone!Becomes(Phone!Closed(w, b)) PROVE PhoneQuietly
  BY <1>1, <1>9, QuietEnd
<1> QED  BY <1>3, <1>7, <1>8, <1>9

\* A description has been applied.
LEMMA SetRemoteQuietly ==
    ASSUME StoreOK(Phone!Store), NEW task \in tasks, Phone!SetRemote(task)
    PROVE  PhoneQuietly
<1> DEFINE S == Phone!Store
           w == Phone!Without(S, task)
           k == task.on
           n == [w.conn[k] EXCEPT !.remote = task.of]
           t == Connected(w, k, n)
           a == Changed(t, t.call, [t.dev EXCEPT !.answerSet = TRUE], t.conn)
<1>1. /\ StoreOK(w) /\ Clearing(w) /\ Calmer(w, S)
      /\ Placed(task) /\ task \in Phone!Task
      /\ w.call = call /\ w.dev = device /\ w.conn = conn
  <2>1. w = Phone!Without(S, task)
    OBVIOUS
  <2> HIDE DEF w
  <2> QED  BY <2>1, TaskOver
<1>2. t = [w EXCEPT !.conn[task.on].remote = task.of]
  <2> HIDE DEF w
  <2>1. w \in Stores
    BY <1>1 DEF Clearing
  <2> QED  BY <2>1 DEF Stores, Connected, Changed
<1>3. task.stage \in {"setOffer", "setAnswer"}
  BY DEF Phone!SetRemote
<1>4. \/ \E b : Phone!Becomes(Phone!Closed(w, b))
      \/ task.stage = "setOffer"
         /\ Phone!Becomes(Phone!With(Phone!Drained(t), [task EXCEPT !.stage = "answer"]))
      \/ Phone!Becomes(Phone!Drained([t EXCEPT !.dev.answerSet = TRUE]))
  <2> HIDE DEF t
  <2> QED  BY <1>2 DEF Phone!SetRemote
<1> HIDE DEF w
<1>5. k \in Phone!Calls /\ k # 0 /\ task.of \in 0..MaxCalls
  BY <1>1, <1>3, TaskOn
<1>6. Waiting(t) /\ Calmer(t, w)
  <2>1. w.conn[k] \in Phone!Connection
    BY <1>1, <1>5 DEF Clearing, Stores
  <2>2. /\ n \in Phone!Connection /\ n.state = w.conn[k].state
        /\ n.ice = w.conn[k].ice
        /\ n.trickled = w.conn[k].trickled
    BY <1>5, <2>1 DEF Phone!Connection
  <2>3. t = Connected(w, k, n)
    OBVIOUS
  <2> HIDE DEF t, n
  <2> QED  BY <1>1, <1>5, <2>2, <2>3, ConnectedOK
<1>7. a = [t EXCEPT !.dev.answerSet = TRUE]
  <2> HIDE DEF t
  <2> QED  BY <1>6 DEF Waiting, Clearing, Stores, Changed
<1> HIDE DEF t
<1>8. Clearing(S) /\ Clearing(t) /\ Calmer(t, S)
  BY <1>1, <1>6, StoreFields, CalmerTrans DEF Waiting
<1>9. ASSUME NEW v, Waiting(v), Calmer(v, S)
      PROVE  StoreOK(Phone!Drained(v)) /\ Calmer(Phone!Drained(v), S)
  <2> DEFINE u == Phone!Drained(v)
  <2>1. StoreOK(u) /\ Calmer(u, v)
    BY <1>9, DrainedOK
  <2> HIDE DEF u
  <2>2. Calmer(u, S)
    BY <1>8, <1>9, <2>1, OKClearing, CalmerTrans DEF Waiting
  <2> QED  BY <2>1, <2>2 DEF u
<1>10. ASSUME \E b : Phone!Becomes(Phone!Closed(w, b)) PROVE PhoneQuietly
  BY <1>1, <1>10, QuietEnd
<1>11. ASSUME task.stage = "setOffer",
              Phone!Becomes(Phone!With(Phone!Drained(t), [task EXCEPT !.stage = "answer"]))
       PROVE  PhoneQuietly
  <2> DEFINE v == Phone!Drained(t)
             m == [task EXCEPT !.stage = "answer"]
             u == Phone!With(v, m)
  <2>1. StoreOK(v) /\ Calmer(v, S)
    BY <1>6, <1>8, <1>9
  <2>2. m \in Phone!Task /\ m.stage = "answer" /\ m.on = task.on
    BY <1>1 DEF Phone!Task, Phone!Stages
  <2>3. Phone!Becomes(u)
    BY <1>11
  <2> HIDE DEF m, v
  <2>4. Placed(m) /\ m.stage \notin Asking
    BY <1>5, <2>2 DEF Placed, Asking
  <2>5. StoreOK(u) /\ Calmer(u, v)
    BY <2>1, <2>2, <2>4, WithOK
  <2> HIDE DEF u
  <2>6. Calmer(u, S)
    BY <1>8, <2>1, <2>5, OKClearing, CalmerTrans
  <2> QED  BY <2>3, <2>5, <2>6, QuietStore
<1>12. ASSUME Phone!Becomes(Phone!Drained([t EXCEPT !.dev.answerSet = TRUE]))
       PROVE  PhoneQuietly
  <2> DEFINE e == [t.dev EXCEPT !.answerSet = TRUE]
             u == Phone!Drained(a)
  <2>1. /\ t.dev \in Phone!Device /\ t.conn \in [Phone!Calls -> Phone!Connection]
        /\ t.call \in Phone!Call \cup {Phone!NoCall}
        /\ \A j \in Phone!Calls : t.conn[j].state = "open" <=> t.dev.peer = j
    BY <1>8 DEF Clearing, Stores
  <2>2. /\ e \in Phone!Device /\ e.peer = t.dev.peer /\ e.queue = t.dev.queue
        /\ e.setup = t.dev.setup /\ e.lost = t.dev.lost
    BY <2>1 DEF Phone!Device
  <2>3. Phone!Becomes(u)
    BY <1>7, <1>12
  <2>4. a = Changed(t, t.call, e, t.conn)
    OBVIOUS
  <2> HIDE DEF e, a
  <2>5. Lighter(t.call, e, t.conn, t)
    <3>1. t.dev.queue \in Int
      BY <2>1, PairAssumption DEF Phone!Device
    <3> QED  BY <2>2, <3>1 DEF Lighter, Slack
  <2>6. /\ Clearing(a) /\ Calmer(a, t)
        /\ a.call = t.call /\ a.dev = e /\ a.conn = t.conn
    BY <1>8, <2>1, <2>2, <2>4, <2>5, ChangedOK
  <2>7. Waiting(a) /\ Calmer(a, S)
    <3>1. Waiting(a)
      BY <1>6, <2>2, <2>6 DEF Waiting, Timed
    <3>2. Calmer(a, S)
      BY <1>8, <2>6, CalmerTrans
    <3> QED  BY <3>1, <3>2
  <2> HIDE DEF u
  <2>8. StoreOK(u) /\ Calmer(u, S)
    BY <1>9, <2>7 DEF u
  <2> QED  BY <2>3, <2>8, QuietStore
<1> QED  BY <1>4, <1>10, <1>11, <1>12
\* A call, module variables and a connection in the place of one there is.
LEMMA IceStoreOK ==
    ASSUME StoreOK(Phone!Store), NEW k \in Phone!Calls, conn[k].state = "open",
           NEW n \in Phone!Connection, n.state = "open", n.remote = conn[k].remote,
           n.trickled = conn[k].trickled,
           NEW d \in Phone!Device, d.peer = device.peer, d.queue = device.queue,
           d.setup => device.setup, d.lost \/ n.ice = "connected",
           NEW u, u = Changed(Phone!Store, Moved(call), d, [conn EXCEPT ![k] = n])
    PROVE  StoreOK(u) /\ Calmer(u, Phone!Store)
<1> DEFINE S == Phone!Store
           m == Moved(call)
           cn == [conn EXCEPT ![k] = n]
<1>1. /\ Clearing(S) /\ S.call = call /\ S.dev = device /\ S.conn = conn
      /\ call \in Phone!Call \cup {Phone!NoCall} /\ device \in Phone!Device
      /\ conn \in [Phone!Calls -> Phone!Connection]
      /\ \A j \in Phone!Calls : conn[j].state = "open" <=> device.peer = j
      /\ device.peer # 0 /\ conn[device.peer].remote # 0 => device.queue = 0
      /\ Timed(call, device, conn)
      /\ call.dir = "incoming" => call.seq # 0
  BY StoreFields
<1>2. /\ m \in Phone!Call \cup {Phone!NoCall}
      /\ m.id = call.id /\ m.dir = call.dir /\ m.seq = call.seq
      /\ m # Phone!NoCall => call # Phone!NoCall
  BY <1>1, MovedOK
<1>3. /\ cn \in [Phone!Calls -> Phone!Connection] /\ cn[k] = n
      /\ \A j \in Phone!Calls : j # k => cn[j] = conn[j]
  BY <1>1
<1>4. u = Changed(S, m, d, cn)
  OBVIOUS
<1> HIDE DEF m, cn, S
<1>5. device.peer = k /\ k # 0
  BY <1>1 DEF Phone!Calls
<1>6. \A j \in Phone!Calls : cn[j].state = "open" <=> d.peer = j
  BY <1>1, <1>3
<1>7. Timed(m, d, cn)
  BY <1>1, <1>2, <1>3, <1>5 DEF Timed
<1>8. Fit(m, d, cn)
  BY <1>1, <1>2, <1>3, <1>5, <1>7 DEF Fit
<1>9. Lighter(m, d, cn, S)
  <2>1. device.queue \in Int
    BY <1>1, PairAssumption DEF Phone!Device
  <2>2. Slack(m, d, cn) <= Slack(call, device, conn)
    BY <1>2, <1>3, <1>5 DEF Slack
  <2> QED  BY <1>1, <2>1, <2>2 DEF Lighter
<1>10. StoreOK(u) /\ Calmer(u, S)
  BY <1>1, <1>2, <1>3, <1>4, <1>6, <1>8, <1>9, ChangedOK
<1> QED  BY <1>10 DEF S

\* Media flows, or stops.
LEMMA IceQuietly ==
    ASSUME StoreOK(Phone!Store), NEW k \in Phone!Calls,
           Phone!IceConnected(k) \/ Phone!IceDisconnected(k)
    PROVE  PhoneQuietly
<1>1. /\ Phone!Store \in Stores
      /\ Phone!Store.call = call /\ Phone!Store.dev = device /\ Phone!Store.conn = conn
      /\ device \in Phone!Device /\ conn[k] \in Phone!Connection
  BY StoreFields
<1>2. conn[k].state = "open"
  BY DEF Phone!IceConnected, Phone!IceDisconnected
<1>3. CASE Phone!IceConnected(k)
  <2> DEFINE n == [conn[k] EXCEPT !.ice = "connected"]
             d == [device EXCEPT !.setup = FALSE, !.lost = FALSE]
             u == Changed(Phone!Store, Moved(call), d, [conn EXCEPT ![k] = n])
  <2>1. u = [Phone!Store EXCEPT !.conn[k].ice = "connected", !.call.phase = "setup",
                                !.dev.setup = FALSE, !.dev.lost = FALSE]
    BY <1>1 DEF Stores, Changed, Moved
  <2>2. Phone!Becomes(u)
    <3> HIDE DEF u
    <3> QED  BY <1>3, <2>1 DEF Phone!IceConnected
  <2>3. /\ n \in Phone!Connection /\ n.state = "open" /\ n.remote = conn[k].remote
        /\ n.trickled = conn[k].trickled /\ n.ice = "connected"
    BY <1>1, <1>2 DEF Phone!Connection
  <2>4. /\ d \in Phone!Device /\ d.peer = device.peer /\ d.queue = device.queue
        /\ ~d.setup
    BY <1>1 DEF Phone!Device
  <2>5. u = Changed(Phone!Store, Moved(call), d, [conn EXCEPT ![k] = n])
    OBVIOUS
  <2> HIDE DEF u, n, d
  <2>6. StoreOK(u) /\ Calmer(u, Phone!Store)
    BY <1>2, <2>3, <2>4, <2>5, IceStoreOK
  <2> QED  BY <2>2, <2>6, QuietStore
<1>4. CASE Phone!IceDisconnected(k)
  <2> DEFINE n == [conn[k] EXCEPT !.ice = "disconnected"]
             d == [device EXCEPT !.lost = TRUE]
             u == Changed(Phone!Store, Moved(call), d, [conn EXCEPT ![k] = n])
  <2>1. u = [Phone!Store EXCEPT !.conn[k].ice = "disconnected", !.call.phase = "setup",
                                !.dev.lost = TRUE]
    BY <1>1 DEF Stores, Changed, Moved
  <2>2. Phone!Becomes(u)
    <3> HIDE DEF u
    <3> QED  BY <1>4, <2>1 DEF Phone!IceDisconnected
  <2>3. /\ n \in Phone!Connection /\ n.state = "open" /\ n.remote = conn[k].remote
        /\ n.trickled = conn[k].trickled
    BY <1>1, <1>2 DEF Phone!Connection
  <2>4. /\ d \in Phone!Device /\ d.peer = device.peer /\ d.queue = device.queue
        /\ d.setup = device.setup /\ d.lost
    BY <1>1 DEF Phone!Device
  <2>5. u = Changed(Phone!Store, Moved(call), d, [conn EXCEPT ![k] = n])
    OBVIOUS
  <2> HIDE DEF u, n, d
  <2>6. StoreOK(u) /\ Calmer(u, Phone!Store)
    BY <1>2, <2>3, <2>4, <2>5, IceStoreOK
  <2> QED  BY <2>2, <2>6, QuietStore
<1> QED  BY <1>3, <1>4

\* The end of a connection is reported.
LEMMA ReportQuietly ==
    ASSUME StoreOK(Phone!Store), NEW k \in Phone!Calls, Phone!ReportClosed(k)
    PROVE  PhoneQuietly
<1> DEFINE S == Phone!Store
           n == [conn[k] EXCEPT !.state = "closed"]
           cn == [conn EXCEPT ![k] = n]
           u == Changed(S, call, device, cn)
<1>1. /\ Clearing(S) /\ S \in Stores /\ S.call = call /\ S.dev = device /\ S.conn = conn
      /\ call \in Phone!Call \cup {Phone!NoCall} /\ device \in Phone!Device
      /\ conn \in [Phone!Calls -> Phone!Connection]
      /\ \A j \in Phone!Calls : conn[j].state = "open" <=> device.peer = j
  BY StoreFields
<1>2. u = [S EXCEPT !.conn[k].state = "closed"]
  BY <1>1 DEF Stores, Changed
<1>3. PICK b : Phone!Becomes(Phone!Closed(u, b))
  <2> HIDE DEF u
  <2> QED  BY <1>2 DEF Phone!ReportClosed
<1>4. conn[k].state = "closing" /\ n \in Phone!Connection /\ n.state = "closed"
  BY <1>1 DEF Phone!ReportClosed, Phone!Connection
<1> HIDE DEF n
<1>5. /\ cn \in [Phone!Calls -> Phone!Connection] /\ cn[k] = n
      /\ \A j \in Phone!Calls : j # k => cn[j] = conn[j]
  BY <1>1, <1>4
<1>6. u = Changed(S, call, device, cn)
  OBVIOUS
<1> HIDE DEF u, cn, S
<1>7. device.peer # k /\ \A j \in Phone!Calls : cn[j].state = "open" <=> device.peer = j
  BY <1>1, <1>4, <1>5
<1>8. Lighter(call, device, cn, S)
  <2>1. device.queue \in Int
    BY <1>1, PairAssumption DEF Phone!Device
  <2>2. device.peer # 0 => device.peer \in Phone!Calls
    BY <1>1, PairAssumption DEF Phone!Device, Phone!Calls
  <2>3. Slack(call, device, cn) <= Slack(call, device, conn)
    BY <1>5, <1>7, <2>2 DEF Slack
  <2> QED  BY <1>1, <2>1, <2>3 DEF Lighter
<1>9. Clearing(u) /\ Calmer(u, S)
  BY <1>1, <1>5, <1>6, <1>7, <1>8, ChangedOK
<1> QED  BY <1>3, <1>9, QuietEnd DEF S

\* A connection names its candidates while the call has no number, or fails to.
LEMMA TrickledOK ==
    ASSUME StoreOK(Phone!Store), NEW k \in Phone!Calls, conn[k].state = "open"
    PROVE  LET t == [Phone!Store EXCEPT !.conn[k].trickled = TRUE] IN
           /\ StoreOK(t) /\ Clearing(t) /\ Calmer(t, Phone!Store)
           /\ t.call = call /\ t.dev = device /\ t.tasks = tasks /\ t.out = <<>>
           /\ Slack(t.call, t.dev, t.conn) = 0
<1> DEFINE S == Phone!Store
           n == [conn[k] EXCEPT !.trickled = TRUE]
           u == Connected(S, k, n)
<1>1. /\ S \in Stores /\ S.call = call /\ S.dev = device /\ S.conn = conn
      /\ S.tasks = tasks /\ S.out = <<>>
      /\ conn \in [Phone!Calls -> Phone!Connection]
      /\ \A j \in Phone!Calls : conn[j].state = "open" <=> device.peer = j
  BY StoreFields
<1>2. u = [S EXCEPT !.conn[k].trickled = TRUE]
  BY <1>1 DEF Stores, Connected, Changed
<1>3. /\ n \in Phone!Connection /\ n.state = conn[k].state /\ n.ice = conn[k].ice
      /\ n.remote = conn[k].remote /\ n.trickled
  <2>1. conn[k] \in Phone!Connection
    BY <1>1
  <2> QED  BY <2>1 DEF Phone!Connection
<1>4. u = Connected(S, k, n)
  OBVIOUS
<1> HIDE DEF u, n
<1>5. Alike(n, S.conn[k])
  BY <1>1, <1>3 DEF Alike
<1>6. /\ StoreOK(u) /\ Calmer(u, S) /\ u.call = S.call /\ u.dev = S.dev
      /\ u.out = S.out /\ u.tasks = S.tasks /\ u.conn[k] = n
  BY <1>1, <1>3, <1>4, <1>5, ConnectedOK
<1>7. device.peer = k /\ k # 0
  BY <1>1 DEF Phone!Calls
<1>8. Slack(u.call, u.dev, u.conn) = 0
  BY <1>1, <1>3, <1>6, <1>7 DEF Slack
<1>9. /\ StoreOK(u) /\ Clearing(u) /\ Calmer(u, Phone!Store)
      /\ u.call = call /\ u.dev = device /\ u.tasks = tasks /\ u.out = <<>>
      /\ Slack(u.call, u.dev, u.conn) = 0
  BY <1>1, <1>6, <1>8, OKClearing
<1> QED  BY <1>2, <1>9

\* A signal is ignored, or moves the call on without a candidate.
LEMMA SignalQuietly ==
    ASSUME StoreOK(Phone!Store), NEW p \in Web!Packet,
           p.event # "candidate", Phone!HandleSignal(p)
    PROVE  PhoneQuietly
<1> DEFINE S == Phone!Store
<1>1. /\ Clearing(S) /\ S \in Stores /\ S.call = call /\ S.dev = device /\ S.conn = conn
      /\ call \in Phone!Call \cup {Phone!NoCall} /\ device \in Phone!Device
      /\ conn \in [Phone!Calls -> Phone!Connection]
      /\ \A j \in Phone!Calls : conn[j].state = "open" <=> device.peer = j
      /\ StoreOK(S) /\ Calmer(S, S)
  BY StoreFields, CalmerSelf
<1>2. \/ Phone!Becomes(S)
      \/ call \in Phone!Call /\ Phone!Becomes(Phone!TakeAccept(S))
      \/ call \in Phone!Call /\ Phone!Becomes(Phone!TakeOffer(S, p))
      \/ call \in Phone!Call /\ Phone!Becomes(Phone!TakeAnswer(S, p))
      \/ \E b : Phone!Becomes(Phone!Closed(S, b))
  BY <1>1 DEF Phone!HandleSignal
<1>3. p.of \in 0..MaxCalls /\ 0 \in 0..MaxCalls
  BY PairAssumption DEF Web!Packet
<1>4. ASSUME Phone!Becomes(S) PROVE PhoneQuietly
  <2> HIDE DEF S
  <2> QED  BY <1>1, <1>4, QuietStore DEF S
<1>5. ASSUME NEW d \in Phone!Device, d.peer = device.peer, d.queue = device.queue,
             d.setup = device.setup, d.lost = device.lost,
             call \in Phone!Call,
             NEW stage \in {"offerMedia", "answerMedia"}, NEW of \in 0..MaxCalls,
             NEW t, t = Changed(S, Moved(call), d, conn),
             Phone!Becomes(Phone!AskMedia(t, Phone!NewTask(stage, call, of)))
      PROVE  PhoneQuietly
  <2> DEFINE n == Phone!NewTask(stage, call, of)
             u == Phone!AskMedia(t, n)
             m == Moved(call)
  <2>1. /\ m \in Phone!Call \cup {Phone!NoCall}
        /\ m.id = call.id /\ m.dir = call.dir /\ m.seq = call.seq
        /\ m # Phone!NoCall => call # Phone!NoCall
    BY <1>1, MovedOK
  <2>2. t = Changed(S, m, d, conn)
    BY <1>5
  <2>3. n \in Phone!Task /\ n.stage = stage
    <3>1. stage \in Phone!Stages
      BY DEF Phone!Stages
    <3> QED  BY <1>5, <3>1, NewTaskOK
  <2>4. Phone!Becomes(u)
    BY <1>5
  <2> HIDE DEF n, S, m
  <2>5. Placed(n)
    BY <2>3 DEF Placed
  <2>6. Timed(m, d, conn)
    BY <1>5, <2>1, StoreFields DEF Timed
  <2>7. Fit(m, d, conn)
    BY <1>5, <2>1, <2>6, StoreFields DEF Fit
  <2>8. Lighter(m, d, conn, S)
    <3>1. device.queue \in Int
      BY <1>1, PairAssumption DEF Phone!Device
    <3> QED  BY <1>1, <1>5, <2>1, <3>1 DEF Lighter, Slack
  <2>9. StoreOK(t) /\ Calmer(t, S)
    <3>1. \A j \in Phone!Calls : conn[j].state = "open" <=> d.peer = j
      BY <1>1, <1>5
    <3>2. d \in Phone!Device /\ Clearing(S) /\ m \in Phone!Call \cup {Phone!NoCall}
          /\ conn \in [Phone!Calls -> Phone!Connection]
      BY <1>1, <2>1
    <3> QED  BY <2>2, <2>7, <2>8, <3>1, <3>2, ChangedOK
  <2>10. StoreOK(u) /\ Calmer(u, t)
    <3>1. n.stage \in {"startMedia", "acceptMedia", "offerMedia", "answerMedia"}
          /\ n.stage # "startMedia"
      BY <2>3
    <3> QED  BY <2>3, <2>5, <2>9, <3>1, AskMediaOK
  <2> HIDE DEF u
  <2>11. Calmer(u, S)
    BY <1>1, <2>9, <2>10, OKClearing, CalmerTrans
  <2> QED  BY <2>4, <2>10, <2>11, QuietStore DEF S
<1>6. ASSUME call \in Phone!Call, Phone!Becomes(Phone!TakeAccept(S)) PROVE PhoneQuietly
  <2>1. CASE Phone!TakeAccept(S) = S
    BY <1>4, <1>6, <2>1
  <2>2. CASE Phone!TakeAccept(S) # S
    <3> DEFINE d == [device EXCEPT !.offered = TRUE]
               t == Changed(S, Moved(call), d, conn)
    <3>1. t = [S EXCEPT !.dev.offered = TRUE, !.call.phase = "setup"]
      BY <1>1 DEF Stores, Changed, Moved
    <3>2. Phone!Becomes(Phone!AskMedia(t, Phone!NewTask("offerMedia", call, 0)))
      <4> HIDE DEF t
      <4> QED  BY <1>1, <1>6, <2>2, <3>1 DEF Phone!TakeAccept
    <3>3. /\ d \in Phone!Device /\ d.peer = device.peer /\ d.queue = device.queue
          /\ d.setup = device.setup /\ d.lost = device.lost
      BY <1>1 DEF Phone!Device
    <3>4. t = Changed(S, Moved(call), d, conn)
      OBVIOUS
    <3> HIDE DEF t, d, S
    <3> QED  BY <1>3, <1>5, <1>6, <3>2, <3>3, <3>4
  <2> QED  BY <2>1, <2>2
<1>7. ASSUME call \in Phone!Call, Phone!Becomes(Phone!TakeOffer(S, p)) PROVE PhoneQuietly
  <2>1. CASE Phone!TakeOffer(S, p) = S
    BY <1>4, <1>7, <2>1
  <2>2. CASE Phone!TakeOffer(S, p) # S
    <3> DEFINE d == [device EXCEPT !.answered = TRUE]
               t == Changed(S, Moved(call), d, conn)
    <3>1. t = [S EXCEPT !.dev.answered = TRUE, !.call.phase = "setup"]
      BY <1>1 DEF Stores, Changed, Moved
    <3>2. Phone!Becomes(Phone!AskMedia(t, Phone!NewTask("answerMedia", call, p.of)))
      <4> HIDE DEF t
      <4> QED  BY <1>1, <1>7, <2>2, <3>1 DEF Phone!TakeOffer
    <3>3. /\ d \in Phone!Device /\ d.peer = device.peer /\ d.queue = device.queue
          /\ d.setup = device.setup /\ d.lost = device.lost
      BY <1>1 DEF Phone!Device
    <3>4. t = Changed(S, Moved(call), d, conn)
      OBVIOUS
    <3> HIDE DEF t, d, S
    <3> QED  BY <1>3, <1>5, <1>7, <3>2, <3>3, <3>4
  <2> QED  BY <2>1, <2>2
<1>8. ASSUME call \in Phone!Call, Phone!Becomes(Phone!TakeAnswer(S, p)) PROVE PhoneQuietly
  <2>1. CASE Phone!TakeAnswer(S, p) = S
    BY <1>4, <1>8, <2>1
  <2>2. CASE Phone!TakeAnswer(S, p) # S
    <3> DEFINE m == Phone!NewTask("setAnswer", call, p.of)
               n == [m EXCEPT !.on = device.peer]
               u == Phone!With(S, n)
    <3>1. Phone!Becomes(u) /\ device.peer # 0
      BY <1>1, <1>8, <2>2 DEF Phone!TakeAnswer
    <3>2. m \in Phone!Task /\ m.stage = "setAnswer"
      <4>1. "setAnswer" \in Phone!Stages
        BY DEF Phone!Stages
      <4> QED  BY <1>3, <1>8, <4>1, NewTaskOK
    <3> HIDE DEF m
    <3>3. n \in Phone!Task /\ n.stage = "setAnswer" /\ n.on = device.peer
      BY <1>1, <3>2 DEF Phone!Task, Phone!Device
    <3> HIDE DEF n, S
    <3>4. Placed(n) /\ n.stage \notin Asking
      BY <3>1, <3>3 DEF Placed, Asking
    <3>5. StoreOK(u) /\ Calmer(u, S)
      BY <1>1, <3>3, <3>4, WithOK
    <3> HIDE DEF u
    <3> QED  BY <3>1, <3>5, QuietStore DEF S
  <2> QED  BY <2>1, <2>2
<1>9. ASSUME \E b : Phone!Becomes(Phone!Closed(S, b)) PROVE PhoneQuietly
  BY <1>9, ClosesQuietly
<1> QED  BY <1>2, <1>4, <1>6, <1>7, <1>8, <1>9

\* The confirmation of an invitation gives the call that is there its number.
LEMMA ConfirmQuietly ==
    ASSUME StoreOK(Phone!Store), NEW s \in 1..MaxCalls,
           Phone!Becomes([Phone!Store EXCEPT !.call = Phone!Numbered(@, s)])
    PROVE  PhoneQuietly
<1> DEFINE S == Phone!Store
           c == Phone!Numbered(call, s)
           u == Changed(S, c, device, conn)
<1>1. /\ Clearing(S) /\ S \in Stores /\ S.call = call /\ S.dev = device /\ S.conn = conn
      /\ call \in Phone!Call \cup {Phone!NoCall} /\ device \in Phone!Device
      /\ conn \in [Phone!Calls -> Phone!Connection]
      /\ \A j \in Phone!Calls : conn[j].state = "open" <=> device.peer = j
      /\ device.peer # 0 /\ conn[device.peer].remote # 0 => device.queue = 0
      /\ Timed(call, device, conn)
      /\ call.dir = "incoming" => call.seq # 0
  BY StoreFields
<1>2. u = [S EXCEPT !.call = Phone!Numbered(@, s)]
  BY <1>1 DEF Stores, Changed
<1>3. Phone!Becomes(u)
  BY <1>2
<1>4. /\ c \in Phone!Call \cup {Phone!NoCall}
      /\ c.id = call.id /\ c.dir = call.dir
      /\ c.dir = "incoming" => c.seq # 0
      /\ c # Phone!NoCall => call # Phone!NoCall
  <2>1. CASE call = Phone!NoCall
    BY <1>1, <2>1 DEF Phone!Numbered
  <2>2. CASE call # Phone!NoCall
    <3>1. call \in Phone!Call /\ s # 0 /\ s \in 0..MaxCalls /\ c = [call EXCEPT !.seq = s]
      BY <1>1, <2>2, PairAssumption DEF Phone!Numbered
    <3> QED  BY <2>2, <3>1 DEF Phone!Call
  <2> QED  BY <2>1, <2>2
<1>5. u = Changed(S, c, device, conn)
  OBVIOUS
<1> HIDE DEF c, u, S
<1>6. Timed(c, device, conn)
  BY <1>1, <1>4 DEF Timed
<1>7. Fit(c, device, conn)
  BY <1>1, <1>4, <1>6 DEF Fit
<1>8. Lighter(c, device, conn, S)
  <2>1. device.queue \in Int
    BY <1>1, PairAssumption DEF Phone!Device
  <2> QED  BY <1>1, <1>4, <2>1 DEF Lighter, Slack
<1>9. StoreOK(u) /\ Calmer(u, S)
  BY <1>1, <1>4, <1>5, <1>7, <1>8, ChangedOK
<1> QED  BY <1>3, <1>9, QuietStore DEF S

\* An invitation is refused.
LEMMA RefuseQuietly ==
    ASSUME StoreOK(Phone!Store), NEW s \in 1..MaxCalls,
           Phone!Becomes(Phone!Say(Phone!Store, "hang-up", s, 0))
    PROVE  PhoneQuietly
<1> DEFINE u == Phone!Say(Phone!Store, "hang-up", s, 0)
<1>1. Clearing(Phone!Store)
  BY StoreFields
<1>2. /\ 0 \in 0..MaxCalls
      /\ "hang-up" \in Web!Events \ {"confirm", "invite", "candidate"}
  BY PairAssumption DEF Web!Events
<1>3. StoreOK(u) /\ Calmer(u, Phone!Store)
  BY <1>1, <1>2, PhoneSayCalm
<1>4. Phone!Becomes(u)
  OBVIOUS
<1> HIDE DEF u
<1> QED  BY <1>3, <1>4, QuietStore
-----------------------------------------------------------------------------
(* Steps of the phone that count: calls, invitations, candidates *)

\* The phone becomes a store that is in order: by how much it may count more.
LEMMA PhoneCounts ==
    ASSUME IInv, UNCHANGED webVars, NEW t, StoreOK(t), Phone!Becomes(t), PhoneInbox',
           dialed' \in 0..MaxCalls, faults' \in 0..MaxFaults,
           lastSeq' \in Nat, made' \in Nat,
           Num(t.out, "invite") + Cardinality(PhonePending(t.tasks)) - dialed'
              <= Cardinality(PhonePending(tasks)) - dialed,
           made' + Num(toPhone', "invite") - dialed'
              <= made + Num(toPhone, "invite") - dialed,
           lastSeq' + Cardinality(PhonePending(t.tasks)) - dialed'
              <= lastSeq + Cardinality(PhonePending(tasks)) - dialed,
           Num(t.out, "candidate") + Slack(t.call, t.dev, t.conn) - made'
              <= Slack(call, device, conn) - made,
           t.dev.queue + Num(toPhone', "candidate")
              <= device.queue + Num(toPhone, "candidate")
    PROVE  IInv'
<1>1. /\ TabInbox /\ PhoneInbox /\ dialed \in Nat /\ made \in Nat /\ lastSeq \in Nat
  BY Parts
<1>2. /\ StoreOK(Phone!Store)' /\ TabInbox'
      /\ call' = t.call /\ device' = t.dev /\ conn' = t.conn /\ tasks' = t.tasks
      /\ \A e : Num(toWeb', e) = Num(toWeb, e) + Num(t.out, e)
  BY <1>1, StoreBecomes
<1>3. /\ Num(toWeb', "invite") = Num(toWeb, "invite") + Num(t.out, "invite")
      /\ Num(toWeb', "candidate") = Num(toWeb, "candidate") + Num(t.out, "candidate")
  BY <1>2
<1>4. /\ Num(toWeb, "invite") \in Nat /\ Num(toWeb, "candidate") \in Nat
      /\ Num(toPhone, "invite") \in Nat /\ Num(toPhone, "candidate") \in Nat
      /\ Cardinality(PhonePending(tasks)) \in Nat
      /\ Slack(call, device, conn) \in Nat
  BY CountsNat
<1>5. /\ Num(t.out, "invite") \in Nat /\ Num(t.out, "candidate") \in Nat
      /\ Cardinality(PhonePending(t.tasks)) \in Nat
      /\ Slack(t.call, t.dev, t.conn) \in Nat
  BY StoreNat DEF StoreOK
<1>6. dialed' \in Nat /\ made' \in Nat /\ lastSeq' \in Nat
  BY PairAssumption
<1>7. Num(toWeb', "invite") + Cardinality(PhonePending(tasks')) - dialed'
         <= Num(toWeb, "invite") + Cardinality(PhonePending(tasks)) - dialed
  BY <1>1, <1>2, <1>3, <1>4, <1>5, <1>6
<1>8. Num(toWeb', "candidate") + Slack(call', device', conn') - made'
         <= Num(toWeb, "candidate") + Slack(call, device, conn) - made
  BY <1>1, <1>2, <1>3, <1>4, <1>5, <1>6
<1>9. /\ lastSeq' + Cardinality(PhonePending(tasks')) - dialed'
            <= lastSeq + Cardinality(PhonePending(tasks)) - dialed
      /\ device'.queue + Num(toPhone', "candidate")
            <= device.queue + Num(toPhone, "candidate")
  BY <1>2
<1> QED  BY <1>2, <1>7, <1>8, <1>9, PhoneCountedStep

\* A call comes into a store that has none.
LEMMA WithCallOK ==
    ASSUME StoreOK(Phone!Store), call = Phone!NoCall, NEW c \in Phone!Call,
           c.dir = "incoming" => c.seq # 0
    PROVE  LET t == Phone!WithCall(Phone!Store, c) IN
           /\ StoreOK(t) /\ Clearing(t)
           /\ t.call = c /\ t.tasks = tasks /\ t.out = <<>>
           /\ t.dev.queue = device.queue
           /\ Slack(t.call, t.dev, t.conn) \in {0, 1}
           /\ Slack(call, device, conn) = 0
<1> DEFINE S == Phone!Store
           d == [device EXCEPT !.setup = TRUE]
           u == Changed(S, c, d, conn)
<1>1. /\ Clearing(S) /\ S \in Stores /\ S.call = call /\ S.dev = device /\ S.conn = conn
      /\ S.tasks = tasks /\ S.out = <<>>
      /\ device \in Phone!Device
      /\ conn \in [Phone!Calls -> Phone!Connection]
      /\ \A j \in Phone!Calls : conn[j].state = "open" <=> device.peer = j
      /\ device.peer # 0 /\ conn[device.peer].remote # 0 => device.queue = 0
  BY StoreFields
<1>2. Phone!WithCall(S, c) = u
  BY <1>1 DEF Stores, Changed, Phone!WithCall
<1>3. /\ d \in Phone!Device /\ d.peer = device.peer /\ d.queue = device.queue /\ d.setup
  BY <1>1 DEF Phone!Device
<1>4. u = Changed(S, c, d, conn) /\ c.id # 0
  BY DEF Phone!Call, Phone!Calls
<1> HIDE DEF d, u, S
<1>5. Fit(c, d, conn)
  BY <1>1, <1>3, <1>4 DEF Fit, Timed
<1>6. /\ StoreOK(u) /\ Clearing(u) /\ u.call = c /\ u.tasks = S.tasks /\ u.out = S.out
      /\ u.dev = d /\ u.conn = conn
  BY <1>1, <1>3, <1>4, <1>5, ChangedOK
<1>7. Slack(call, device, conn) = 0 /\ Slack(u.call, u.dev, u.conn) \in {0, 1}
  BY DEF Slack
<1> QED  BY <1>1, <1>2, <1>3, <1>6, <1>7 DEF S

\* The next call of the phone.
LEMMA NextCallOK ==
    ASSUME made \in Nat, made < MaxCalls, NEW dir \in {"incoming", "outgoing"},
           NEW s \in 0..MaxCalls, dir = "incoming" => s # 0
    PROVE  LET c == Phone!NextCall(dir, s) IN
           c \in Phone!Call /\ (c.dir = "incoming" => c.seq # 0)
<1>1. made + 1 \in Phone!Calls
  BY PairAssumption DEF Phone!Calls
<1> QED  BY <1>1 DEF Phone!NextCall, Phone!Call

\* The user calls.
LEMMA StartCallStep ==
    ASSUME IInv, UNCHANGED webVars, Phone!StartCall
    PROVE  IInv'
<1> DEFINE S == Phone!Store
           c == Phone!NextCall("outgoing", 0)
           t == Phone!WithCall(S, c)
           n == Phone!NewTask("startMedia", c, 0)
           u == Phone!AskMedia(t, n)
<1>1. /\ StoreOK(S) /\ PhoneInbox /\ TabInbox
      /\ dialed \in Nat /\ made \in Nat /\ lastSeq \in Nat /\ faults \in 0..MaxFaults
      /\ dialing \in Nat /\ CallsDialed
  BY Parts
<1>2. /\ Num(toPhone, "invite") \in Nat /\ Num(toPhone, "candidate") \in Nat
      /\ Cardinality(WebPending(overlay)) \in Nat
      /\ Cardinality(PhonePending(tasks)) \in Nat
      /\ Slack(call, device, conn) \in {0, 1}
      /\ device.queue \in Nat
  BY CountsNat, PairAssumption
<1>3. /\ call = Phone!NoCall /\ dialed < MaxCalls /\ dialed' = dialed + 1
      /\ made' = made + 1 /\ toPhone' = toPhone /\ lastSeq' = lastSeq /\ faults' = faults
      /\ Phone!Becomes(u)
  BY DEF Phone!StartCall
<1>4. made < MaxCalls
  BY <1>1, <1>2, <1>3, PairAssumption DEF CallsDialed
<1>5. c \in Phone!Call /\ (c.dir = "incoming" => c.seq # 0)
  <2>1. 0 \in 0..MaxCalls
    BY PairAssumption
  <2> QED  BY <1>1, <1>4, <2>1, NextCallOK
<1> HIDE DEF c
<1>6. /\ StoreOK(t) /\ t.call = c /\ t.tasks = tasks /\ t.out = <<>>
      /\ t.dev.queue = device.queue
      /\ Slack(t.call, t.dev, t.conn) \in {0, 1}
      /\ Slack(call, device, conn) = 0
  BY <1>1, <1>3, <1>5, WithCallOK
<1>7. n \in Phone!Task /\ n.stage = "startMedia"
  <2>1. "startMedia" \in Phone!Stages /\ 0 \in 0..MaxCalls
    BY PairAssumption DEF Phone!Stages
  <2> QED  BY <1>5, <2>1, NewTaskOK
<1> HIDE DEF t, n, S
<1>8. Placed(n)
  BY <1>7 DEF Placed
<1>9. /\ StoreOK(u) /\ u.call = t.call /\ u.dev = t.dev /\ u.conn = t.conn
      /\ u.out = t.out
      /\ Cardinality(PhonePending(u.tasks)) <= Cardinality(PhonePending(t.tasks)) + 1
  BY <1>6, <1>7, <1>8, AskMediaOK
<1>10. Phone!Becomes(u)
  BY <1>3
<1> HIDE DEF u
<1>11. /\ Num(u.out, "invite") = 0 /\ Num(u.out, "candidate") = 0
       /\ Cardinality(PhonePending(u.tasks)) <= Cardinality(PhonePending(tasks)) + 1
       /\ Cardinality(PhonePending(u.tasks)) \in Nat
       /\ Slack(u.call, u.dev, u.conn) \in {0, 1}
       /\ u.dev.queue = device.queue
  <2>1. Num(<<>>, "invite") = 0 /\ Num(<<>>, "candidate") = 0
    BY NumSmall
  <2>2. Cardinality(PhonePending(u.tasks)) \in Nat
    BY <1>9, StoreNat DEF StoreOK
  <2> QED  BY <1>6, <1>9, <2>1, <2>2
<1>12. PhoneInbox' /\ dialed' \in 0..MaxCalls /\ faults' \in 0..MaxFaults
       /\ lastSeq' \in Nat /\ made' \in Nat
  BY <1>1, <1>3, PairAssumption DEF PhoneInbox
<1>13. Num(u.out, "invite") + Cardinality(PhonePending(u.tasks)) - dialed'
         <= Cardinality(PhonePending(tasks)) - dialed
  BY <1>1, <1>2, <1>3, <1>11
<1>14. /\ made' + Num(toPhone', "invite") - dialed'
             <= made + Num(toPhone, "invite") - dialed
       /\ u.dev.queue + Num(toPhone', "candidate")
             <= device.queue + Num(toPhone, "candidate")
  <2>1. /\ Num(toPhone', "invite") = Num(toPhone, "invite")
        /\ Num(toPhone', "candidate") = Num(toPhone, "candidate")
    BY <1>3
  <2>2. u.dev.queue + Num(toPhone', "candidate")
           <= device.queue + Num(toPhone, "candidate")
    BY <1>2, <1>11, <2>1
  <2> QED  BY <1>1, <1>2, <1>3, <2>1, <2>2
<1>15. lastSeq' + Cardinality(PhonePending(u.tasks)) - dialed'
          <= lastSeq + Cardinality(PhonePending(tasks)) - dialed
  BY <1>1, <1>2, <1>3, <1>11
<1>16. Num(u.out, "candidate") + Slack(u.call, u.dev, u.conn) - made'
          <= Slack(call, device, conn) - made
  BY <1>1, <1>3, <1>6, <1>11
<1> QED  BY <1>6, <1>9, <1>10, <1>12, <1>13, <1>14, <1>15, <1>16, PhoneCounts

\* The first packet of the phone's queue is taken.
PhoneTakes == toPhone # <<>> /\ toPhone' = Tail(toPhone)

\* Another candidate waits.
OneMore(t) == [t EXCEPT !.dev.queue = @ + 1]

\* An invitation is taken: another call of the phone.
LEMMA InviteStep ==
    ASSUME IInv, UNCHANGED webVars, PhoneTakes,
           NEW p, p = Head(toPhone), p.event = "invite", call = Phone!NoCall,
           made' = made + 1, Faulty, UNCHANGED <<lastSeq, dialed>>,
           \/ Phone!Becomes(Phone!Say(Phone!WithCall(Phone!Store,
                               Phone!NextCall("incoming", p.seq)), "ringing", p.seq, 0))
           \/ \E b : Phone!Becomes(Phone!Closed(Phone!WithCall(Phone!Store,
                               Phone!NextCall("incoming", p.seq)), b))
    PROVE  IInv'
<1> DEFINE S == Phone!Store
           c == Phone!NextCall("incoming", p.seq)
           t == Phone!WithCall(S, c)
           u == Phone!Say(t, "ringing", p.seq, 0)
<1>1. /\ StoreOK(S) /\ dialed \in 0..MaxCalls /\ dialed \in Nat /\ made \in Nat
      /\ lastSeq \in Nat /\ faults \in 0..MaxFaults
  BY Parts
<1>2. /\ Num(toPhone, "invite") \in Nat /\ Num(toPhone, "candidate") \in Nat
      /\ Cardinality(PhonePending(tasks)) \in Nat
      /\ Slack(call, device, conn) \in {0, 1}
      /\ device.queue \in Nat
  BY CountsNat, PairAssumption
<1>3. /\ p \in Web!Packet /\ PhoneInbox'
      /\ Num(toPhone', "invite") = Num(toPhone, "invite") - 1
      /\ Num(toPhone', "candidate") = Num(toPhone, "candidate")
      /\ Num(toPhone', "invite") \in Nat
  BY PhoneHead DEF PhoneTakes
<1>4. p.seq \in 1..MaxCalls /\ p.seq # 0 /\ p.seq \in 0..MaxCalls
  BY <1>3, PairAssumption DEF Web!Packet
<1>5. made < MaxCalls
  BY <1>1, <1>2, <1>3, MadeBounded, PairAssumption
<1>6. c \in Phone!Call /\ (c.dir = "incoming" => c.seq # 0)
  BY <1>1, <1>4, <1>5, NextCallOK
<1>7. Phone!Becomes(u) \/ \E b : Phone!Becomes(Phone!Closed(t, b))
  OBVIOUS
<1> HIDE DEF c
<1>8. /\ StoreOK(t) /\ Clearing(t) /\ t.tasks = tasks /\ t.out = <<>>
      /\ t.dev.queue = device.queue
      /\ Slack(t.call, t.dev, t.conn) \in {0, 1}
      /\ Slack(call, device, conn) = 0
  BY <1>1, <1>6, WithCallOK
<1> HIDE DEF t, S
<1>9. PICK v : StoreOK(v) /\ Calmer(v, t) /\ Phone!Becomes(v)
  <2>1. CASE Phone!Becomes(u)
    <3>1. /\ 0 \in 0..MaxCalls
          /\ "ringing" \in Web!Events \ {"confirm", "invite", "candidate"}
      BY PairAssumption DEF Web!Events
    <3>2. StoreOK(u) /\ Calmer(u, t)
      BY <1>4, <1>8, <3>1, PhoneSayCalm
    <3> QED  BY <2>1, <3>2
  <2>2. CASE \E b : Phone!Becomes(Phone!Closed(t, b))
    <3>1. PICK b : Phone!Becomes(Phone!Closed(t, b))
      BY <2>2
    <3>2. StoreOK(Phone!Closed(t, b)) /\ Calmer(Phone!Closed(t, b), t)
      BY <1>8, PhoneClosedOK
    <3> QED  BY <3>1, <3>2
  <2> QED  BY <1>7, <2>1, <2>2
<1>10. /\ Cardinality(PhonePending(v.tasks)) \in Nat
       /\ Slack(v.call, v.dev, v.conn) \in {0, 1}
       /\ v.dev.queue \in 0..MaxCalls
  BY <1>9, StoreNat DEF StoreOK
<1>11. /\ Num(v.out, "invite") = 0 /\ Num(v.out, "candidate") = 0
       /\ Cardinality(PhonePending(v.tasks)) <= Cardinality(PhonePending(tasks))
       /\ v.dev.queue <= device.queue
  <2>1. Num(<<>>, "invite") = 0 /\ Num(<<>>, "candidate") = 0
    BY NumSmall
  <2> QED  BY <1>8, <1>9, <2>1 DEF Calmer
<1>12. /\ dialed' = dialed /\ lastSeq' = lastSeq /\ made' = made + 1
       /\ faults' \in 0..MaxFaults
  BY <1>1, FaultyOK
<1>13. dialed' \in 0..MaxCalls /\ lastSeq' \in Nat /\ made' \in Nat
  BY <1>1, <1>12
<1>14. Num(v.out, "invite") + Cardinality(PhonePending(v.tasks)) - dialed'
          <= Cardinality(PhonePending(tasks)) - dialed
  BY <1>1, <1>2, <1>10, <1>11, <1>12
<1>15. made' + Num(toPhone', "invite") - dialed'
          <= made + Num(toPhone, "invite") - dialed
  BY <1>1, <1>2, <1>3, <1>12
<1>16. lastSeq' + Cardinality(PhonePending(v.tasks)) - dialed'
          <= lastSeq + Cardinality(PhonePending(tasks)) - dialed
  BY <1>1, <1>2, <1>10, <1>11, <1>12
<1>17. Num(v.out, "candidate") + Slack(v.call, v.dev, v.conn) - made'
          <= Slack(call, device, conn) - made
  BY <1>1, <1>8, <1>10, <1>11, <1>12
<1>18. v.dev.queue + Num(toPhone', "candidate")
          <= device.queue + Num(toPhone, "candidate")
  BY <1>2, <1>3, <1>10, <1>11, PairAssumption
<1> QED  BY <1>3, <1>9, <1>12, <1>13, <1>14, <1>15, <1>16, <1>17, <1>18, PhoneCounts

\* A candidate that has to wait.
LEMMA TakeCandidateStep ==
    ASSUME IInv, UNCHANGED webVars, PhoneTakes,
           Head(toPhone).event = "candidate",
           UNCHANGED <<made, faults, lastSeq, dialed>>,
           ~(device.peer # 0 /\ conn[device.peer].remote # 0),
           Phone!Becomes(OneMore(Phone!Store))
    PROVE  IInv'
<1> DEFINE S == Phone!Store
           d == [device EXCEPT !.queue = device.queue + 1]
           u == Changed(S, call, d, conn)
<1>1. /\ StoreOK(S) /\ Clearing(S) /\ S \in Stores
      /\ S.call = call /\ S.dev = device /\ S.conn = conn
      /\ S.tasks = tasks /\ S.out = <<>>
      /\ call \in Phone!Call \cup {Phone!NoCall} /\ device \in Phone!Device
      /\ conn \in [Phone!Calls -> Phone!Connection]
      /\ \A j \in Phone!Calls : conn[j].state = "open" <=> device.peer = j
      /\ Timed(call, device, conn)
      /\ call.dir = "incoming" => call.seq # 0
  BY Parts, StoreFields
<1>2. /\ dialed \in 0..MaxCalls /\ dialed \in Nat /\ made \in Nat
      /\ lastSeq \in Nat /\ faults \in 0..MaxFaults /\ CandidatesOpen
  BY Parts
<1>3. /\ Num(toPhone, "invite") \in Nat /\ Num(toPhone, "candidate") \in Nat
      /\ Cardinality(PhonePending(tasks)) \in Nat
      /\ Cardinality(CanTrickle(overlay)) \in Nat
      /\ Slack(call, device, conn) \in {0, 1}
      /\ device.queue \in Nat
  BY CountsNat, PairAssumption
<1>4. /\ PhoneInbox'
      /\ Num(toPhone', "candidate") = Num(toPhone, "candidate") - 1
      /\ Num(toPhone', "invite") = Num(toPhone, "invite")
      /\ Num(toPhone', "candidate") \in Nat
  BY PhoneHead DEF PhoneTakes
<1>5. device.queue + 1 \in 0..MaxCalls
  BY <1>2, <1>3, <1>4, PairAssumption DEF CandidatesOpen
<1>6. u = OneMore(S)
  BY <1>1 DEF Stores, Changed, OneMore
<1>7. Phone!Becomes(u)
  BY <1>6
<1>8. /\ d \in Phone!Device /\ d.peer = device.peer /\ d.queue = device.queue + 1
      /\ d.setup = device.setup /\ d.lost = device.lost
  BY <1>1, <1>5 DEF Phone!Device
<1>9. u = Changed(S, call, d, conn)
  OBVIOUS
<1> HIDE DEF u, d, S
<1>10. Fit(call, d, conn)
  BY <1>1, <1>8 DEF Fit, Timed
<1>11. /\ StoreOK(u) /\ u.call = call /\ u.dev = d /\ u.conn = conn
       /\ u.tasks = S.tasks /\ u.out = S.out
  <2>1. \A j \in Phone!Calls : conn[j].state = "open" <=> d.peer = j
    BY <1>1, <1>8
  <2>2. /\ Clearing(S) /\ call \in Phone!Call \cup {Phone!NoCall}
        /\ conn \in [Phone!Calls -> Phone!Connection] /\ d \in Phone!Device
    BY <1>1, <1>8
  <2> QED  BY <1>9, <1>10, <2>1, <2>2, ChangedOK
<1>12. Slack(u.call, u.dev, u.conn) = Slack(call, device, conn)
  BY <1>8, <1>11 DEF Slack
<1>13. Num(u.out, "invite") = 0 /\ Num(u.out, "candidate") = 0
  <2>1. Num(<<>>, "invite") = 0 /\ Num(<<>>, "candidate") = 0
    BY NumSmall
  <2>2. u.out = <<>>
    BY <1>1, <1>11
  <2> QED  BY <2>1, <2>2
<1>14. PhonePending(u.tasks) = PhonePending(tasks) /\ u.dev.queue = device.queue + 1
  BY <1>1, <1>8, <1>11
<1>15. dialed' = dialed /\ lastSeq' = lastSeq /\ made' = made /\ faults' = faults
  OBVIOUS
<1>16. dialed' \in 0..MaxCalls /\ lastSeq' \in Nat /\ made' \in Nat
       /\ faults' \in 0..MaxFaults
  BY <1>2, <1>15
<1>17. Num(u.out, "invite") + Cardinality(PhonePending(u.tasks)) - dialed'
          <= Cardinality(PhonePending(tasks)) - dialed
  BY <1>2, <1>3, <1>13, <1>14, <1>15
<1>18. made' + Num(toPhone', "invite") - dialed'
          <= made + Num(toPhone, "invite") - dialed
  BY <1>2, <1>3, <1>4, <1>15
<1>19. lastSeq' + Cardinality(PhonePending(u.tasks)) - dialed'
          <= lastSeq + Cardinality(PhonePending(tasks)) - dialed
  BY <1>2, <1>3, <1>14, <1>15
<1>20. Num(u.out, "candidate") + Slack(u.call, u.dev, u.conn) - made'
          <= Slack(call, device, conn) - made
  BY <1>2, <1>3, <1>12, <1>13, <1>15
<1>21. u.dev.queue + Num(toPhone', "candidate")
          <= device.queue + Num(toPhone, "candidate")
  BY <1>3, <1>4, <1>14
<1> QED  BY <1>4, <1>7, <1>11, <1>16, <1>17, <1>18, <1>19, <1>20, <1>21, PhoneCounts

\* The phone takes a packet.
LEMMA PhoneDeliverStep ==
    ASSUME IInv, UNCHANGED webVars, Phone!Deliver
    PROVE  IInv'
<1> DEFINE p == Head(toPhone)
<1>1. /\ PhoneTakes /\ toPhone # <<>> /\ toPhone' = Tail(toPhone)
      /\ UNCHANGED <<lastSeq, dialed>>
      /\ \/ p.event = "invite" /\ Phone!HandleInvite(p)
         \/ /\ p.event = "confirm"
            /\ Phone!Becomes([Phone!Store EXCEPT !.call = Phone!Numbered(@, p.seq)])
            /\ UNCHANGED <<made, faults>>
         \/ /\ p.event \notin {"invite", "confirm"}
            /\ Phone!HandleSignal(p) /\ UNCHANGED <<made, faults>>
  BY DEF Phone!Deliver, PhoneTakes
<1>2. p \in Web!Packet /\ p.seq \in 1..MaxCalls
  BY <1>1, PhoneHead DEF Web!Packet
<1>3. StoreOK(Phone!Store)
  BY Parts
<1>4. CASE p.event = "invite" /\ Phone!HandleInvite(p)
  <2>1. CASE made' = made /\ Faulty
             /\ Phone!Becomes(Phone!Say(Phone!Store, "hang-up", p.seq, 0))
    <3>1. PhoneQuietly
      BY <1>2, <1>3, <2>1, RefuseQuietly
    <3> QED  BY <1>1, <2>1, <3>1, PhoneTakesQuietly
  <2>2. CASE /\ call = Phone!NoCall /\ made' = made + 1 /\ Faulty
             /\ \/ Phone!Becomes(Phone!Say(Phone!WithCall(Phone!Store,
                               Phone!NextCall("incoming", p.seq)), "ringing", p.seq, 0))
                \/ \E b : Phone!Becomes(Phone!Closed(Phone!WithCall(Phone!Store,
                               Phone!NextCall("incoming", p.seq)), b))
    <3>1. p = Head(toPhone)
      OBVIOUS
    <3> HIDE DEF p
    <3> QED  BY <1>1, <1>4, <2>2, <3>1, InviteStep
  <2> QED  BY <1>4, <2>1, <2>2 DEF Phone!HandleInvite, Phone!MayFault, Faulty
<1>5. CASE /\ p.event = "confirm"
           /\ Phone!Becomes([Phone!Store EXCEPT !.call = Phone!Numbered(@, p.seq)])
           /\ UNCHANGED <<made, faults>>
  <2>1. PhoneQuietly
    BY <1>2, <1>3, <1>5, ConfirmQuietly
  <2>2. Faulty
    BY <1>5 DEF Faulty
  <2> QED  BY <1>1, <1>5, <2>1, <2>2, PhoneTakesQuietly
<1>6. CASE p.event # "candidate" /\ Phone!HandleSignal(p) /\ UNCHANGED <<made, faults>>
  <2>1. PhoneQuietly
    BY <1>2, <1>3, <1>6, SignalQuietly
  <2>2. Faulty
    BY <1>6 DEF Faulty
  <2> QED  BY <1>1, <1>6, <2>1, <2>2, PhoneTakesQuietly
<1>7. CASE p.event = "candidate" /\ Phone!HandleSignal(p) /\ UNCHANGED <<made, faults>>
  <2> DEFINE v == OneMore(Phone!Store)
  <2>1. \/ Phone!Becomes(Phone!Store)
        \/ /\ ~(device.peer # 0 /\ conn[device.peer].remote # 0)
           /\ Phone!Becomes(v)
    <3>1. Phone!Store.call = call /\ Phone!Store.dev = device /\ Phone!Store.conn = conn
      BY <1>3, StoreFields
    <3>2. \/ Phone!Becomes(Phone!Store)
          \/ Phone!Becomes(Phone!TakeCandidate(Phone!Store))
      BY <1>7 DEF Phone!HandleSignal
    <3> QED  BY <3>1, <3>2 DEF Phone!TakeCandidate, OneMore
  <2>2. CASE Phone!Becomes(Phone!Store)
    <3>1. PhoneQuietly /\ Faulty
      BY <1>3, <1>7, <2>2, QuietStore, StoreFields, CalmerSelf DEF Faulty
    <3> QED  BY <1>1, <1>7, <3>1, PhoneTakesQuietly
  <2>3. CASE /\ ~(device.peer # 0 /\ conn[device.peer].remote # 0)
             /\ Phone!Becomes(v)
    BY <1>1, <1>7, <2>3, TakeCandidateStep
  <2> QED  BY <2>1, <2>2, <2>3
<1> QED  BY <1>1, <1>4, <1>5, <1>6, <1>7

\* The connection names its candidates.
LEMMA PhoneTrickleStep ==
    ASSUME IInv, UNCHANGED webVars, NEW k \in Phone!Calls, Phone!Trickle(k)
    PROVE  IInv'
<1> DEFINE S == Phone!Store
           t == [S EXCEPT !.conn[k].trickled = TRUE]
           u == Phone!Say(t, "candidate", call.seq, k)
<1>1. /\ StoreOK(S) /\ PhoneInbox
      /\ dialed \in 0..MaxCalls /\ dialed \in Nat /\ made \in Nat
      /\ lastSeq \in Nat /\ faults \in 0..MaxFaults
  BY Parts
<1>2. /\ conn[k].state = "open" /\ ~conn[k].trickled /\ Faulty
      /\ UNCHANGED <<made, toPhone, lastSeq, dialed>>
      /\ \/ Phone!Becomes(t)
         \/ call.seq # 0 /\ faults' = faults /\ Phone!Becomes(u)
         \/ \E b : Phone!Becomes(Phone!Closed(t, b))
  BY DEF Phone!Trickle, Faulty, Phone!MayFault
<1>3. /\ StoreOK(t) /\ Clearing(t) /\ Calmer(t, S)
      /\ t.call = call /\ t.dev = device /\ t.tasks = tasks /\ t.out = <<>>
      /\ Slack(t.call, t.dev, t.conn) = 0
  BY <1>1, <1>2, TrickledOK
<1>4. ASSUME PhoneQuietly PROVE IInv'
  BY <1>2, <1>4, PhoneCalmStep
<1> HIDE DEF t
<1>5. CASE Phone!Becomes(t)
  <2>1. PhoneQuietly
    BY <1>3, <1>5, QuietStore
  <2> QED  BY <1>4, <2>1
<1>6. CASE \E b : Phone!Becomes(Phone!Closed(t, b))
  <2>1. PhoneQuietly
    BY <1>1, <1>3, <1>6, QuietEnd
  <2> QED  BY <1>4, <2>1
<1>7. CASE call.seq # 0 /\ faults' = faults /\ Phone!Becomes(u)
  <2>1. /\ call.seq \in 1..MaxCalls /\ call # Phone!NoCall /\ device.peer = k
        /\ k \in 0..MaxCalls
    <3>1. call \in Phone!Call \cup {Phone!NoCall} /\ device.peer = k
      BY <1>1, <1>2, StoreFields
    <3> QED  BY <1>7, <3>1, PairAssumption DEF Phone!Call, Phone!NoCall, Phone!Calls
  <2>2. Slack(call, device, conn) = 1
    BY <1>2, <2>1 DEF Slack
  <2>3. /\ StoreOK(u) /\ u.call = t.call /\ u.dev = t.dev /\ u.conn = t.conn
        /\ u.tasks = t.tasks
        /\ Num(u.out, "invite") = Num(t.out, "invite")
        /\ Num(u.out, "candidate") = Num(t.out, "candidate") + 1
    <3>1. "candidate" \in Web!Events \ {"confirm"} /\ "candidate" # "invite"
      BY DEF Web!Events
    <3>2. u = Phone!Say(t, "candidate", call.seq, k)
      OBVIOUS
    <3> HIDE DEF u
    <3> QED  BY <1>3, <2>1, <3>1, <3>2, PhoneSayOK
  <2>4. Phone!Becomes(u)
    BY <1>7
  <2> HIDE DEF u, S
  <2>5. /\ Num(u.out, "invite") = 0 /\ Num(u.out, "candidate") = 1
        /\ PhonePending(u.tasks) = PhonePending(tasks)
        /\ Slack(u.call, u.dev, u.conn) = 0
        /\ u.dev.queue = device.queue
    <3>1. Num(<<>>, "invite") = 0 /\ Num(<<>>, "candidate") = 0
      BY NumSmall
    <3> QED  BY <1>3, <2>3, <3>1
  <2>6. /\ Num(toPhone, "invite") \in Nat /\ Num(toPhone, "candidate") \in Nat
        /\ Cardinality(PhonePending(tasks)) \in Nat
        /\ device.queue \in Nat
    BY CountsNat, PairAssumption
  <2>7. /\ made' = made /\ lastSeq' = lastSeq /\ dialed' = dialed /\ faults' = faults
        /\ toPhone' = toPhone
    BY <1>2, <1>7
  <2>8. /\ PhoneInbox' /\ dialed' \in 0..MaxCalls /\ faults' \in 0..MaxFaults
        /\ lastSeq' \in Nat /\ made' \in Nat
    BY <1>1, <2>7 DEF PhoneInbox
  <2>9. Num(u.out, "invite") + Cardinality(PhonePending(u.tasks)) - dialed'
           <= Cardinality(PhonePending(tasks)) - dialed
    BY <1>1, <2>5, <2>6, <2>7
  <2>10. made' + Num(toPhone', "invite") - dialed'
            <= made + Num(toPhone, "invite") - dialed
    BY <1>1, <2>6, <2>7
  <2>11. lastSeq' + Cardinality(PhonePending(u.tasks)) - dialed'
            <= lastSeq + Cardinality(PhonePending(tasks)) - dialed
    BY <1>1, <2>5, <2>6, <2>7
  <2>12. Num(u.out, "candidate") + Slack(u.call, u.dev, u.conn) - made'
            <= Slack(call, device, conn) - made
    BY <1>1, <2>2, <2>5, <2>7
  <2>13. u.dev.queue + Num(toPhone', "candidate")
            <= device.queue + Num(toPhone, "candidate")
    BY <2>5, <2>6, <2>7
  <2> QED  BY <2>3, <2>4, <2>8, <2>9, <2>10, <2>11, <2>12, <2>13, PhoneCounts
<1> QED  BY <1>2, <1>5, <1>6, <1>7

\* The invitation is published, or its publication fails.
LEMMA PhonePublishStep ==
    ASSUME IInv, UNCHANGED webVars, NEW task \in tasks, Phone!Publish(task)
    PROVE  IInv'
<1> DEFINE S == Phone!Store
           w == Phone!Without(S, task)
           s == lastSeq + 1
           i == Phone!Say(w, "invite", s, 0)
           p == Phone!Signal("confirm", s, task.id)
<1>1. /\ StoreOK(S) /\ PhoneInbox
      /\ dialed \in 0..MaxCalls /\ dialed \in Nat /\ made \in Nat
      /\ lastSeq \in Nat /\ faults \in 0..MaxFaults
      /\ dialing \in Nat /\ NumbersDialed
  BY Parts
<1>2. /\ task.stage = "publish" /\ made' = made /\ dialed' = dialed /\ Faulty
      /\ \/ /\ Phone!Becomes(i) /\ lastSeq' = s
            /\ toPhone' = Append(toPhone, p)
         \/ /\ \E b : Phone!Becomes(Phone!Closed(w, b))
            /\ lastSeq' = lastSeq /\ toPhone' = toPhone
         \/ /\ \E b : Phone!Becomes(Phone!Closed(i, b))
            /\ lastSeq' = s /\ toPhone' = toPhone
  BY DEF Phone!Publish, Faulty, Phone!MayFault
<1>3. /\ StoreOK(w) /\ Clearing(w) /\ Calmer(w, S)
      /\ w.call = call /\ w.dev = device /\ w.conn = conn /\ w.out = <<>>
      /\ task \in Phone!Task
      /\ Cardinality(PhonePending(w.tasks)) <= Cardinality(PhonePending(tasks)) - 1
  <2>1. w = Phone!Without(S, task) /\ task.stage \in Asking
    BY <1>2 DEF Asking
  <2> HIDE DEF w
  <2> QED  BY <1>1, <2>1, TaskOver
<1> HIDE DEF w
<1>4. /\ Num(toPhone, "invite") \in Nat /\ Num(toPhone, "candidate") \in Nat
      /\ Cardinality(PhonePending(tasks)) \in Nat
      /\ Cardinality(WebPending(overlay)) \in Nat
      /\ Slack(call, device, conn) \in {0, 1}
      /\ device.queue \in Nat
  BY CountsNat, PairAssumption
<1>5. Cardinality(PhonePending(w.tasks)) \in Nat
  BY <1>3, StoreNat DEF Clearing
<1>6. s \in 1..MaxCalls /\ 0 \in 0..MaxCalls /\ s \in Nat
  BY <1>1, <1>3, <1>4, <1>5, PairAssumption DEF NumbersDialed
<1> HIDE DEF s
<1>7. /\ StoreOK(i) /\ Clearing(i) /\ i.call = call /\ i.dev = device /\ i.conn = conn
      /\ i.tasks = w.tasks
      /\ Num(i.out, "invite") = 1
      /\ Num(i.out, "candidate") = 0
  <2>1. "invite" \in Web!Events \ {"confirm"} /\ "invite" # "candidate"
    BY DEF Web!Events
  <2>2. i = Phone!Say(w, "invite", s, 0)
    OBVIOUS
  <2> HIDE DEF i
  <2>3. /\ StoreOK(i) /\ Clearing(i) /\ i.call = w.call /\ i.dev = w.dev /\ i.conn = w.conn
        /\ i.tasks = w.tasks
        /\ Num(i.out, "invite") = Num(w.out, "invite") + 1
        /\ Num(i.out, "candidate") = Num(w.out, "candidate")
    BY <1>3, <1>6, <2>1, <2>2, PhoneSayOK
  <2>4. Num(<<>>, "invite") = 0 /\ Num(<<>>, "candidate") = 0
    BY NumSmall
  <2> QED  BY <1>3, <2>3, <2>4
<1>8. p \in Web!Packet /\ p.event = "confirm"
  <2>1. task.id \in 0..MaxCalls
    BY <1>3, PairAssumption DEF Phone!Task, Phone!Calls
  <2> QED  BY <1>6, <2>1 DEF Phone!Signal, Web!Packet, Web!Events
<1> HIDE DEF i, p, S
<1>9. CASE /\ \E b : Phone!Becomes(Phone!Closed(w, b))
           /\ lastSeq' = lastSeq /\ toPhone' = toPhone
  <2>1. PhoneQuietly
    BY <1>1, <1>3, <1>9, QuietEnd DEF S
  <2>2. UNCHANGED <<made, toPhone, lastSeq, dialed>>
    BY <1>2, <1>9
  <2> QED  BY <1>2, <2>1, <2>2, PhoneCalmStep
<1>10. CASE lastSeq' = s /\ ~(toPhone' = toPhone /\ lastSeq' = lastSeq)
            /\ (Phone!Becomes(i) \/ \E b : Phone!Becomes(Phone!Closed(i, b)))
  <2>1. PICK v : StoreOK(v) /\ Calmer(v, i) /\ Phone!Becomes(v)
    <3>1. CASE Phone!Becomes(i)
      BY <1>7, <3>1, CalmerSelf
    <3>2. CASE \E b : Phone!Becomes(Phone!Closed(i, b))
      <4>1. PICK b : Phone!Becomes(Phone!Closed(i, b))
        BY <3>2
      <4>2. StoreOK(Phone!Closed(i, b)) /\ Calmer(Phone!Closed(i, b), i)
        BY <1>7, PhoneClosedOK
      <4> QED  BY <4>1, <4>2
    <3> QED  BY <1>10, <3>1, <3>2
  <2>2. /\ Num(v.out, "invite") = 1 /\ Num(v.out, "candidate") = 0
        /\ Cardinality(PhonePending(v.tasks)) <= Cardinality(PhonePending(w.tasks))
        /\ Slack(v.call, v.dev, v.conn) <= Slack(call, device, conn)
        /\ v.dev.queue <= device.queue
    BY <1>7, <2>1 DEF Calmer
  <2>3. /\ Cardinality(PhonePending(v.tasks)) \in Nat
        /\ Slack(v.call, v.dev, v.conn) \in {0, 1}
        /\ v.dev.queue \in Nat
    BY <2>1, StoreNat, PairAssumption DEF StoreOK
  <2>4. Cardinality(PhonePending(v.tasks)) <= Cardinality(PhonePending(tasks)) - 1
    BY <1>3, <1>4, <1>5, <2>2, <2>3
  <2>5. /\ PhoneInbox'
        /\ Num(toPhone', "invite") = Num(toPhone, "invite")
        /\ Num(toPhone', "candidate") = Num(toPhone, "candidate")
    <3>1. CASE toPhone' = toPhone
      BY <1>1, <3>1 DEF PhoneInbox
    <3>2. CASE toPhone' = Append(toPhone, p)
      <4>1. toPhone \in Seq(Web!Packet)
        BY <1>1 DEF PhoneInbox
      <4>2. PhoneInbox'
        BY <1>8, <3>2, <4>1 DEF PhoneInbox
      <4>3. \A e : Num(toPhone', e) = Num(toPhone, e) + (IF p.event = e THEN 1 ELSE 0)
        BY <1>8, <3>2, <4>1, NumAppend
      <4>4. /\ Num(toPhone', "invite") = Num(toPhone, "invite") + 0
            /\ Num(toPhone', "candidate") = Num(toPhone, "candidate") + 0
        BY <1>8, <4>3
      <4> QED  BY <1>4, <4>2, <4>4
    <3> QED  BY <1>2, <3>1, <3>2
  <2>6. made' = made /\ dialed' = dialed /\ lastSeq' = lastSeq + 1
        /\ faults' \in 0..MaxFaults
    BY <1>1, <1>2, <1>10, FaultyOK DEF s
  <2>7. dialed' \in 0..MaxCalls /\ lastSeq' \in Nat /\ made' \in Nat
    BY <1>1, <2>6
  <2>8. Num(v.out, "invite") + Cardinality(PhonePending(v.tasks)) - dialed'
           <= Cardinality(PhonePending(tasks)) - dialed
    BY <1>1, <1>4, <2>2, <2>3, <2>4, <2>6
  <2>9. made' + Num(toPhone', "invite") - dialed'
           <= made + Num(toPhone, "invite") - dialed
    BY <1>1, <1>4, <2>5, <2>6
  <2>10. lastSeq' + Cardinality(PhonePending(v.tasks)) - dialed'
            <= lastSeq + Cardinality(PhonePending(tasks)) - dialed
    BY <1>1, <1>4, <2>3, <2>4, <2>6
  <2>11. Num(v.out, "candidate") + Slack(v.call, v.dev, v.conn) - made'
            <= Slack(call, device, conn) - made
    BY <1>1, <1>4, <2>2, <2>3, <2>6
  <2>12. v.dev.queue + Num(toPhone', "candidate")
            <= device.queue + Num(toPhone, "candidate")
    BY <1>4, <2>2, <2>3, <2>5
  <2> QED  BY <2>1, <2>5, <2>6, <2>7, <2>8, <2>9, <2>10, <2>11, <2>12, PhoneCounts
<1>11. lastSeq' = s => lastSeq' # lastSeq
  BY <1>1 DEF s
<1> QED  BY <1>2, <1>9, <1>10, <1>11
-----------------------------------------------------------------------------
(* The two together *)

\* The network loses a packet that is neither an invitation nor a confirmation.
LEMMA LoseStep ==
    ASSUME IInv, Lose
    PROVE  IInv'
<1>1. /\ UNCHANGED webVars /\ UNCHANGED phoneVars /\ Faulty
      /\ UNCHANGED <<dialing, made, lastSeq, dialed>>
      /\ \/ toWeb # <<>> /\ toWeb' = Tail(toWeb) /\ toPhone' = toPhone
         \/ toPhone # <<>> /\ toPhone' = Tail(toPhone) /\ toWeb' = toWeb
  BY DEF Lose, Losable, Faulty, webVars, phoneVars
<1>2. TabOK(Web!Tab) /\ StoreOK(Phone!Store) /\ PhoneInbox /\ TabInbox
  BY Parts
<1>3. CASE toWeb # <<>> /\ toWeb' = Tail(toWeb) /\ toPhone' = toPhone
  <2>1. Web!Becomes(Web!Tab)
    <3>1. toPhone \o <<>> = toPhone
      BY <1>2 DEF PhoneInbox
    <3> QED  BY <1>1, <1>3, <3>1 DEF Web!Becomes, Web!Tab, webVars
  <2>2. Web!Tab \in Tabs
    BY <1>2 DEF TabOK
  <2> DEFINE t == Web!Tab
  <2>3. WebQuietly
    BY <1>2, <2>1, <2>2, QuietSelf DEF WebQuietly
  <2> QED  BY <1>1, <1>3, <2>3, WebTakesQuietly
<1>4. CASE toPhone # <<>> /\ toPhone' = Tail(toPhone) /\ toWeb' = toWeb
  <2>1. Phone!Becomes(Phone!Store)
    <3>1. toWeb \o <<>> = toWeb
      BY <1>2 DEF TabInbox
    <3> QED  BY <1>1, <1>4, <3>1 DEF Phone!Becomes, Phone!Store, phoneVars
  <2>2. PhoneQuietly
    BY <1>2, <2>1, StoreFields, CalmerSelf, QuietStore
  <2> QED  BY <1>1, <1>4, <2>2, PhoneTakesQuietly
<1> QED  BY <1>1, <1>3, <1>4

\* The tab steps.
LEMMA WebStepOK ==
    ASSUME IInv, UNCHANGED phoneVars,
           \/ Web!User \/ Web!Work \/ Web!Timeout \/ Web!Deliver
           \/ \E i \in Web!Overlays : \/ Web!Mount(i) \/ Web!IceConnected(i)
                                      \/ Web!IceDisconnected(i) \/ Web!IceFailed(i)
    PROVE  IInv'
<1>1. CASE Web!User
  <2>1. CASE Web!Dial
    BY <2>1, DialStep
  <2>2. CASE Web!Escape
    <3>1. CASE Web!Overlays = {}
      BY <2>2, <3>1, WebQuietHandlers, Parts, PairAssumption
         DEF Web!Escape, TabOK, Tabs, Web!Tab, Web!Overlays
    <3>2. CASE Web!Overlays # {}
      BY <2>2, <3>2, WebQuietHandlers
    <3> QED  BY <3>1, <3>2
  <2>3. CASE \E i \in Web!Overlays : Web!Accept(i) \/ Web!HangUp(i)
    BY <2>3, WebQuietHandlers
  <2> QED  BY <1>1, <2>1, <2>2, <2>3 DEF Web!User
<1>2. CASE Web!Work
  <2>1. CASE Web!Dialed
    BY <2>1, DialedStep
  <2>2. ASSUME NEW i \in Web!Overlays, Web!Publish(i) PROVE IInv'
    BY <2>2, PublishStep
  <2>3. ASSUME NEW i \in Web!Overlays, Web!Trickle(i) PROVE IInv'
    BY <2>3, TrickleStep
  <2>4. ASSUME NEW i \in Web!Overlays, NEW stage \in overlay[i].doing,
               \/ Web!MediaOpens(i, stage) \/ Web!MediaFails(i, stage)
               \/ Web!Describe(i, stage) \/ Web!SetRemote(i, stage)
        PROVE  IInv'
    BY <2>4, WebQuietHandlers
  <2> QED  BY <1>2, <2>1, <2>2, <2>3, <2>4 DEF Web!Work
<1>3. CASE Web!Timeout
  BY <1>3, WebQuietHandlers DEF Web!Timeout
<1>4. CASE Web!Deliver
  BY <1>4, WebDeliverStep
<1>5. ASSUME NEW i \in Web!Overlays,
             Web!Mount(i) \/ Web!IceConnected(i) \/ Web!IceDisconnected(i)
                \/ Web!IceFailed(i)
      PROVE  IInv'
  BY <1>5, WebQuietHandlers
<1> QED  BY <1>1, <1>2, <1>3, <1>4, <1>5

\* Media that flows or stops changes the store alone.
LEMMA IceCalm ==
    ASSUME NEW k, Phone!IceConnected(k) \/ Phone!IceDisconnected(k)
    PROVE  Phone!Calm
<1>1. CASE Phone!IceConnected(k)
  BY <1>1, Zenon DEF Phone!IceConnected
<1>2. CASE Phone!IceDisconnected(k)
  BY <1>2, Zenon DEF Phone!IceDisconnected
<1> QED  BY <1>1, <1>2

\* The phone steps.
LEMMA PhoneStepOK ==
    ASSUME IInv, UNCHANGED webVars,
           \/ Phone!User \/ Phone!Work \/ Phone!Timeout \/ Phone!Deliver
           \/ \E k \in Phone!Calls : \/ Phone!IceConnected(k)
                                     \/ Phone!IceDisconnected(k) \/ Phone!IceFailed(k)
    PROVE  IInv'
<1>1. StoreOK(Phone!Store)
  BY Parts
<1>2. ASSUME PhoneQuietly, Phone!Calm PROVE IInv'
  BY <1>2, PhoneCalmStep DEF Phone!Calm, Faulty
<1>3. ASSUME PhoneQuietly, Faulty, UNCHANGED <<made, toPhone, lastSeq, dialed>>
      PROVE  IInv'
  BY <1>3, PhoneCalmStep
<1>4. CASE Phone!User
  <2>1. CASE Phone!StartCall
    BY <2>1, StartCallStep
  <2>2. CASE Phone!Accept
    <3>1. PhoneQuietly /\ Phone!Calm
      BY <1>1, <2>2, AcceptQuietly DEF Phone!Accept
    <3> QED  BY <1>2, <3>1
  <2>3. CASE Phone!HangUp
    <3>1. PhoneQuietly /\ Phone!Calm
      BY <1>1, <2>3, EndsQuietly DEF Phone!HangUp
    <3> QED  BY <1>2, <3>1
  <2> QED  BY <1>4, <2>1, <2>2, <2>3 DEF Phone!User
<1>5. CASE Phone!Work
  <2>1. ASSUME NEW task \in tasks, Phone!MediaOpens(task) PROVE IInv'
    <3>1. PhoneQuietly
      BY <1>1, <2>1, MediaOpensQuietly
    <3>2. Faulty /\ UNCHANGED <<made, toPhone, lastSeq, dialed>>
      BY <2>1 DEF Phone!MediaOpens, Faulty, Phone!MayFault
    <3> QED  BY <1>3, <3>1, <3>2
  <2>2. ASSUME NEW task \in tasks, Phone!MediaFails(task) PROVE IInv'
    <3>1. PhoneQuietly
      BY <1>1, <2>2, MediaFailsQuietly
    <3>2. Faulty /\ UNCHANGED <<made, toPhone, lastSeq, dialed>>
      BY <2>2 DEF Phone!MediaFails, Faulty, Phone!MayFault
    <3> QED  BY <1>3, <3>1, <3>2
  <2>3. ASSUME NEW task \in tasks, Phone!Publish(task) PROVE IInv'
    BY <2>3, PhonePublishStep
  <2>4. ASSUME NEW task \in tasks, Phone!Describe(task) PROVE IInv'
    <3>1. PhoneQuietly
      BY <1>1, <2>4, DescribeQuietly
    <3>2. Faulty /\ UNCHANGED <<made, toPhone, lastSeq, dialed>>
      <4>1. UNCHANGED faults \/ (Phone!MayFault /\ faults' = faults + 1)
        BY <2>4 DEF Phone!Describe
      <4>2. UNCHANGED <<made, toPhone, lastSeq, dialed>>
        BY <2>4 DEF Phone!Describe
      <4> QED  BY <4>1, <4>2 DEF Faulty, Phone!MayFault
    <3> QED  BY <1>3, <3>1, <3>2
  <2>5. ASSUME NEW task \in tasks, Phone!SetRemote(task) PROVE IInv'
    <3>1. PhoneQuietly
      BY <1>1, <2>5, SetRemoteQuietly
    <3>2. Phone!Calm
      BY <2>5 DEF Phone!SetRemote
    <3> QED  BY <1>2, <3>1, <3>2
  <2>6. ASSUME NEW k \in Phone!Calls, Phone!Trickle(k) PROVE IInv'
    BY <2>6, PhoneTrickleStep
  <2>7. ASSUME NEW k \in Phone!Calls, Phone!ReportClosed(k) PROVE IInv'
    <3>1. PhoneQuietly /\ Phone!Calm
      BY <1>1, <2>7, ReportQuietly DEF Phone!ReportClosed
    <3> QED  BY <1>2, <3>1
  <2> QED  BY <1>5, <2>1, <2>2, <2>3, <2>4, <2>5, <2>6, <2>7 DEF Phone!Work
<1>6. CASE Phone!Timeout
  <2>1. PhoneQuietly
    BY <1>1, <1>6, EndsQuietly DEF Phone!Timeout
  <2>2. Phone!Calm
    <3>1. CASE Phone!SetupTimeout
      BY <3>1 DEF Phone!SetupTimeout
    <3>2. CASE Phone!DisconnectTimeout
      BY <3>2 DEF Phone!DisconnectTimeout
    <3> QED  BY <1>6, <3>1, <3>2 DEF Phone!Timeout
  <2> QED  BY <1>2, <2>1, <2>2
<1>7. CASE Phone!Deliver
  BY <1>7, PhoneDeliverStep
<1>8. ASSUME NEW k \in Phone!Calls, Phone!IceConnected(k) \/ Phone!IceDisconnected(k)
      PROVE  IInv'
  <2>1. PhoneQuietly
    BY <1>1, <1>8, IceQuietly
  <2>2. Phone!Calm
    BY <1>8, IceCalm
  <2> QED  BY <1>2, <2>1, <2>2
<1>9. ASSUME NEW k \in Phone!Calls, Phone!IceFailed(k) PROVE IInv'
  <2>1. PhoneQuietly /\ Phone!Calm
    BY <1>1, <1>9, EndsQuietly DEF Phone!IceFailed
  <2> QED  BY <1>2, <2>1
<1> QED  BY <1>4, <1>5, <1>6, <1>7, <1>8, <1>9

\* A step that changes nothing.
LEMMA StutterOK ==
    ASSUME IInv, UNCHANGED vars
    PROVE  IInv'
<1>1. TabOK(Web!Tab) /\ StoreOK(Phone!Store) /\ TabInbox /\ PhoneInbox
  BY Parts
<1>2. /\ UNCHANGED webVars /\ UNCHANGED phoneVars /\ Faulty
      /\ UNCHANGED <<dialing, toWeb, lastSeq, dialed>> /\ toPhone' = toPhone
  BY DEF vars, webVars, Faulty
<1>3. Web!Becomes(Web!Tab)
  <2>1. toPhone \o <<>> = toPhone
    BY <1>1 DEF PhoneInbox
  <2> QED  BY <1>2, <2>1 DEF Web!Becomes, Web!Tab, webVars
<1>4. WebQuietly
  BY <1>1, <1>3, QuietSelf DEF WebQuietly, TabOK
<1> QED  BY <1>2, <1>4, WebCalmStep

\* The invariant is inductive.
LEMMA IInvNext ==
    ASSUME IInv, [Next]_vars
    PROVE  IInv'
<1>1. CASE \/ WebStep(Web!User) \/ WebStep(Web!Work) \/ WebStep(Web!Timeout)
           \/ WebStep(Web!Deliver)
           \/ \E i \in Web!Overlays : WebStep(Web!Mount(i)) \/ WebLinks(i)
                                    \/ WebStep(Web!IceDisconnected(i))
           \/ \E i \in Web!Overlays : WebStep(Web!IceFailed(i))
  BY <1>1, WebStepOK DEF WebStep, WebLinks
<1>2. CASE \/ PhoneStep(Phone!User) \/ PhoneStep(Phone!Work) \/ PhoneStep(Phone!Timeout)
           \/ PhoneStep(Phone!Deliver)
           \/ \E k \in Phone!Calls : PhoneLinks(k) \/ PhoneStep(Phone!IceDisconnected(k))
           \/ \E k \in Phone!Calls : PhoneStep(Phone!IceFailed(k))
  BY <1>2, PhoneStepOK DEF PhoneStep, PhoneLinks
<1>3. CASE Lose
  BY <1>3, LoseStep
<1>4. CASE UNCHANGED vars
  BY <1>4, StutterOK
<1> QED  BY <1>1, <1>2, <1>3, <1>4 DEF Next, Fails

-----------------------------------------------------------------------------
(* Theorems *)

\* Nobody has a call and nothing is on its way.
LEMMA InitIInv ==
    ASSUME Init
    PROVE  IInv
<1>1. /\ overlay = [i \in Web!Overlays |-> Web!NoOverlay] /\ active = 0 /\ dialing = 0
      /\ call = Phone!NoCall /\ device = Phone!Idle
      /\ conn = [k \in Phone!Calls |-> Phone!NoConnection]
      /\ tasks = {} /\ made = 0
      /\ toWeb = <<>> /\ toPhone = <<>> /\ lastSeq = 0 /\ dialed = 0 /\ faults = 0
  BY DEF Init, Web!Init, Phone!Init
<1>2. Scalars
  BY <1>1, PairAssumption DEF Scalars, TabInbox, PhoneInbox
<1>3. \A i \in Web!Overlays : i # 0
  BY DEF Web!Overlays
<1>4. Web!NoOverlay \in Web!Overlay
  BY PairAssumption DEF Web!NoOverlay, Web!Overlay
<1>5. TabOK(Web!Tab)
  <2>1. /\ Web!Tab.all = overlay /\ Web!Tab.act = 0 /\ Web!Tab.out = <<>>
        /\ Web!Tab \in Tabs
    BY <1>1, <1>4, PairAssumption DEF Web!Tab, Tabs
  <2>2. Core(Web!NoOverlay)
    <3>1. /\ Web!NoOverlay.dir = "none" /\ Web!NoOverlay.pc = "none"
          /\ Web!NoOverlay.doing = {}
      BY DEF Web!NoOverlay
    <3>2. ~(Asking \subseteq {})
      BY DEF Asking
    <3>3. CameraOk(Web!NoOverlay)
      BY DEF CameraOk, Web!NoOverlay
    <3> QED  BY <3>1, <3>2, <3>3 DEF Core
  <2>3. ~Web!Alive(Web!NoOverlay) /\ ~Web!Described(Web!NoOverlay)
    BY DEF Web!Alive, Web!Described, Web!NoOverlay
  <2>4. \A i \in Web!Overlays : Shape(Web!NoOverlay, i, 0) /\ Heeded(Web!NoOverlay)
    <3> SUFFICES ASSUME NEW i \in Web!Overlays
                 PROVE  Shape(Web!NoOverlay, i, 0) /\ Heeded(Web!NoOverlay)
      OBVIOUS
    <3>1. /\ Web!NoOverlay.view = "no" /\ ~Web!NoOverlay.stream
          /\ Web!NoOverlay.pc = "none" /\ ~Web!NoOverlay.setup /\ ~Web!NoOverlay.lost
          /\ Web!NoOverlay.ice = "new" /\ Web!NoOverlay.phase = "setup"
      BY DEF Web!NoOverlay
    <3> QED  BY <1>3, <2>2, <2>3, <3>1 DEF Shape, Heeded
  <2> QED  BY <1>1, <2>1, <2>4 DEF TabOK
<1>6. Phone!NoConnection \in Phone!Connection /\ Phone!NoConnection.state = "none"
  BY PairAssumption DEF Phone!NoConnection, Phone!Connection
<1>7. Phone!Idle \in Phone!Device /\ Phone!Idle.peer = 0 /\ Phone!Idle.queue = 0
      /\ ~Phone!Idle.setup
  BY PairAssumption DEF Phone!Idle, Phone!Device
<1>8. Phone!NoCall.id = 0 /\ Phone!NoCall.dir = "none"
  BY DEF Phone!NoCall
<1>9. StoreOK(Phone!Store)
  <2>1. /\ Phone!Store.call = call /\ Phone!Store.dev = device
        /\ Phone!Store.conn = conn /\ Phone!Store.tasks = {} /\ Phone!Store.out = <<>>
        /\ Phone!Store \in Stores
    BY <1>1, <1>6, <1>7 DEF Phone!Store, Stores
  <2>2. \A k \in Phone!Calls : conn[k].state # "open" /\ k # 0
    BY <1>1, <1>6 DEF Phone!Calls
  <2>3. Timed(call, device, conn)
    BY <1>1, <1>7, <1>8 DEF Timed
  <2>4. IsFiniteSet({})
    BY FS_EmptySet
  <2> QED  BY <1>1, <1>7, <1>8, <2>1, <2>2, <2>3, <2>4 DEF StoreOK
<1>10. Num(<<>>, "invite") = 0 /\ Num(<<>>, "candidate") = 0
  BY NumSmall
<1>11. /\ Used(overlay) = {} /\ WebPending(overlay) = {}
       /\ CanTrickle(overlay) \subseteq Web!Overlays
       /\ PhonePending(tasks) = {}
  BY <1>1 DEF Used, WebPending, CanTrickle, PhonePending, Pends, Web!NoOverlay
<1>12. Cardinality(CanTrickle(overlay)) <= MaxCalls /\ Cardinality(CanTrickle(overlay)) \in Nat
  BY <1>11, CountOverlays
<1>13. Cardinality({}) = 0
  BY FS_EmptySet
<1>14. OverlaysDialed /\ CallsDialed /\ NumbersDialed
  <2>1. /\ Cardinality(Used(overlay)) = 0 /\ Cardinality(WebPending(overlay)) = 0
        /\ Cardinality(PhonePending(tasks)) = 0
    BY <1>11, <1>13
  <2>2. Num(toWeb, "invite") = 0 /\ Num(toPhone, "invite") = 0
    BY <1>1, <1>10
  <2>3. dialing = 0 /\ dialed = 0 /\ made = 0 /\ lastSeq = 0
    BY <1>1
  <2> QED  BY <2>1, <2>2, <2>3 DEF OverlaysDialed, CallsDialed, NumbersDialed
<1>15. Slack(call, device, conn) = 0
  BY <1>1 DEF Slack
<1>16. CandidatesMade
  <2>1. \A i \in Web!Overlays : overlay[i].queue = 0
    BY <1>1 DEF Web!NoOverlay
  <2> QED  BY <1>1, <1>10, <1>15, <2>1 DEF CandidatesMade
<1>17. CandidatesOpen
  BY <1>1, <1>7, <1>10, <1>12, PairAssumption DEF CandidatesOpen
<1> QED  BY <1>2, <1>5, <1>9, <1>14, <1>16, <1>17 DEF IInv, Counts

\* The types and their bounds: no overlay, no number, no candidate and no call
\* of the phone beyond MaxCalls is ever needed.
LEMMA IInvType ==
    ASSUME IInv
    PROVE  TypeOK
<1>1. /\ TabOK(Web!Tab) /\ StoreOK(Phone!Store) /\ TabInbox /\ PhoneInbox
      /\ dialing \in Nat /\ dialed \in 0..MaxCalls /\ dialed \in Nat
      /\ faults \in 0..MaxFaults /\ made \in Nat /\ lastSeq \in Nat
      /\ OverlaysDialed /\ CallsDialed /\ NumbersDialed
  BY Parts
<1>2. /\ Num(toWeb, "invite") \in Nat /\ Num(toPhone, "invite") \in Nat
      /\ Cardinality(Used(overlay)) \in Nat
      /\ Cardinality(WebPending(overlay)) \in Nat
      /\ Cardinality(PhonePending(tasks)) \in Nat
  BY CountsNat
<1>3. dialing \in 0..MaxCalls /\ lastSeq \in 0..MaxCalls
  BY <1>1, <1>2, PairAssumption DEF NumbersDialed
<1>4. made \in 0..MaxCalls
  BY <1>1, <1>2, PairAssumption DEF CallsDialed
<1>5. overlay \in [Web!Overlays -> Web!Overlay] /\ active \in 0..MaxCalls
  BY <1>1, TabFields DEF Tabs
<1>6. toWeb \in Seq(Web!Packet) /\ toPhone \in Seq(Web!Packet)
  <2>1. Arriving \subseteq Web!Packet
    BY DEF Arriving
  <2> QED  BY <1>1, <2>1 DEF TabInbox, PhoneInbox
<1>7. Web!TypeOK
  BY <1>1, <1>3, <1>5, <1>6 DEF Web!TypeOK
<1>8. Phone!TypeOK
  BY <1>1, <1>4, StoreFields DEF Phone!TypeOK
<1> QED  BY <1>7, <1>8 DEF TypeOK

\* The camera is on only for the call that is shown.
LEMMA IInvCamera ==
    ASSUME IInv
    PROVE  CameraBelongsToCall
<1> SUFFICES ASSUME NEW i \in Web!Overlays
             PROVE  /\ overlay[i].stream => Web!Alive(overlay[i]) /\ i = active
                    /\ overlay[i].stray => overlay[i].twice
  BY DEF CameraBelongsToCall, Web!CameraBelongsToCall
<1>1. Shape(overlay[i], i, active)
  BY Parts, TabFields
<1>2. overlay[i].stream => Web!Alive(overlay[i])
  BY <1>1 DEF Shape
<1>3. Web!Alive(overlay[i]) => i = active
  BY <1>1 DEF Shape, Web!Alive
<1>4. overlay[i].stray => overlay[i].twice
  BY <1>1 DEF Shape, Core, CameraOk
<1> QED  BY <1>2, <1>3, <1>4

\* The queue is empty once the remote description is there.
LEMMA IInvCandidates ==
    ASSUME IInv
    PROVE  NoCandidateLeft
<1>1. Web!NoCandidateLeft
  BY Parts, TabFields DEF Web!NoCandidateLeft, Heeded
<1>2. Phone!NoCandidateLeft
  BY Parts, StoreFields DEF Phone!NoCandidateLeft
<1> QED  BY <1>1, <1>2 DEF NoCandidateLeft

\* Something will end every call.
LEMMA IInvTimed ==
    ASSUME IInv
    PROVE  CallIsTimed
<1>1. \A i \in Web!Overlays :
         Web!Alive(overlay[i]) <=>
            overlay[i].setup \/ overlay[i].lost \/ overlay[i].ice = "connected"
  BY Parts, TabFields DEF Shape
<1>2. Timed(call, device, conn)
  BY Parts, StoreFields
<1> QED  BY <1>1, <1>2 DEF CallIsTimed, Timed

\* The invariant always holds.
LEMMA SpecIInv == Spec => []IInv
<1>1. Init => IInv
  BY InitIInv
<1>2. IInv /\ [Next]_vars => IInv'
  BY IInvNext
<1> QED  BY <1>1, <1>2, PTL DEF Spec

\* Types, and that MaxCalls dialed calls never need more overlays, numbers,
\* calls of the phone or places for candidates than MaxCalls: activeCall and
\* the overlays of App.jsx, call and the candidates of callStore.ts.
THEOREM CallsBounded == Spec => []TypeOK
<1>1. IInv => TypeOK
  BY IInvType
<1> QED  BY <1>1, SpecIInv, PTL

\* No overlay that was closed, replaced or left holds the camera, whenever its
\* getUserMedia comes back, and a stream goes astray only in an overlay that
\* asked for the camera before it had the one it had asked for.
THEOREM CameraReleased == Spec => []CameraBelongsToCall
<1>1. IInv => CameraBelongsToCall
  BY IInvCamera
<1> QED  BY <1>1, SpecIInv, PTL

\* In whatever order candidates and descriptions come, none stays behind, in
\* the tab or on the phone.
THEOREM CandidatesDrained == Spec => []NoCandidateLeft
<1>1. IInv => NoCandidateLeft
  BY IInvCandidates
<1> QED  BY <1>1, SpecIInv, PTL

\* Every call has a timer or a connection that can be lost, and no timer of
\* the tab and no set-up timer of the phone outlives its call.
THEOREM CallsTimed == Spec => []CallIsTimed
<1>1. IInv => CallIsTimed
  BY IInvTimed
<1> QED  BY <1>1, SpecIInv, PTL
=============================================================================
