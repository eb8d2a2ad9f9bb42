---------------------------- MODULE CallTabProofs ----------------------------
(***************************************************************************)
(* The invariant of the call of a browser tab and a phone, and the half of *)
(* its proof that is about the tab: every step of the tab keeps it.  The   *)
(* phone's half and the theorems are in CallPairProofs.                    *)
(***************************************************************************)
EXTENDS CallPair, Integers, FiniteSetTheorems, SequenceTheorems, TLAPS

-----------------------------------------------------------------------------
(* The invariant.  Arriving: what Tinode brings to the tab.  Spoken: what  *)
(* the two ends say themselves; only Tinode confirms.                      *)

Arriving == {p \in Web!Packet : p.event = "confirm" => p.of # 0}

Spoken == {p \in Web!Packet : p.event # "confirm"}

Asking == {"startMedia", "publish"}

\* No stream goes astray, unless the overlay asked for the camera twice: then
\* it asks while it has it, or asks two times at once.
CameraOk(o) ==
    /\ o.stray => o.twice
    /\ o.stream => \A m \in o.doing \cap Web!MediaStages : o.twice
    /\ \A m, n \in o.doing \cap Web!MediaStages : m # n => o.twice

\* What an overlay never loses: its number, and what it still asks for.
Core(o) ==
    /\ o.dir = "none" => o.pc = "none"
    /\ o.dir = "incoming" => o.seq # 0
    /\ o.seq = 0 => o.doing \subseteq Asking
    /\ o.doing \cap Asking # {} =>
          o.view \in {"mounted", "gone"} /\ o.dir = "outgoing"
    /\ ~(Asking \subseteq o.doing)
    /\ CameraOk(o)

\* The structure of overlay number i while act is shown.
Shape(o, i, act) ==
    /\ i = act => /\ o.dir # "none" /\ o.view \in {"loading", "mounted"}
                  /\ ~o.ending
    /\ i # act => o.view \in {"no", "gone"}
    /\ o.stream => Web!Alive(o)
    /\ o.pc = "open" => Web!Alive(o)
    /\ Web!Alive(o) <=> o.setup \/ o.lost \/ o.ice = "connected"
    /\ o.phase = "incoming" => o.seq # 0
    /\ o.view = "loading" => o.remote = 0
    /\ Core(o)

\* What becomes of an overlay's candidates.
Heeded(o) ==
    /\ Web!Described(o) => o.queue = 0
    /\ o.remote # 0 /\ Web!Alive(o) /\ o.pc = "none" => "answerMedia" \in o.doing

\* The values of a tab.
Tabs == [all : [Web!Overlays -> Web!Overlay], act : 0..MaxCalls, out : Seq(Spoken)]

\* A tab in order.
TabOK(t) ==
    /\ t \in Tabs
    /\ \A i \in Web!Overlays : Shape(t.all[i], i, t.act) /\ Heeded(t.all[i])

\* The values of the phone's store.
Stores == [call : Phone!Call \cup {Phone!NoCall}, dev : Phone!Device,
           conn : [Phone!Calls -> Phone!Connection], tasks : SUBSET Phone!Task,
           out : Seq(Spoken)]

\* A call has its setup timer, its reconnect timer or a live connection.
Timed(c, d, cn) ==
    /\ c.id # 0 => \/ d.setup \/ d.lost
                   \/ d.peer # 0 /\ cn[d.peer].ice = "connected"
    /\ d.setup => c.id # 0

\* A task knows the connection or the call it works for.
Placed(task) ==
    /\ task.stage \in {"offer", "setOffer", "answer", "setAnswer"} => task.on # 0
    /\ task.stage = "acceptMedia" => task.seq # 0

\* The store: the open connection is the one the module knows, candidates
\* wait only for a description, the call is timed.
StoreOK(t) ==
    /\ t \in Stores
    /\ IsFiniteSet(t.tasks)
    /\ \A k \in Phone!Calls : t.conn[k].state = "open" <=> t.dev.peer = k
    /\ t.dev.peer # 0 /\ t.conn[t.dev.peer].remote # 0 => t.dev.queue = 0
    /\ Timed(t.call, t.dev, t.conn)
    /\ t.call.dir = "incoming" => t.call.seq # 0
    /\ \A task \in t.tasks : Placed(task)

\* How many packets of a queue carry an event.
Num(s, e) == Cardinality({n \in 1..Len(s) : s[n].event = e})

\* An outgoing call that has yet to invite.
Pends(o) == o.dir = "outgoing" /\ (o.view = "loading" \/ o.doing \cap Asking # {})

\* An overlay that has its candidates yet to send.
Opens(o) == o.pc = "none" \/ (o.pc = "open" /\ ~o.trickled)

Used(all) == {i \in Web!Overlays : all[i].dir # "none"}
WebPending(all) == {i \in Web!Overlays : Pends(all[i])}
CanTrickle(all) == {i \in Web!Overlays : Opens(all[i])}

PhonePending(ts) == {task \in ts : task.stage \in Asking}

\* Whether the phone has candidates of its call yet to send.
Slack(c, d, cn) ==
    IF c # Phone!NoCall /\ (d.peer = 0 \/ ~cn[d.peer].trickled) THEN 1 ELSE 0

TabInbox == toWeb \in Seq(Arriving)
PhoneInbox == toPhone \in Seq(Web!Packet)

Scalars ==
    /\ dialing \in Nat /\ dialed \in 0..MaxCalls /\ faults \in 0..MaxFaults
    /\ lastSeq \in Nat /\ made \in Nat
    /\ TabInbox /\ PhoneInbox

\* Every overlay and every click that prepares one, every invitation on its
\* way and every call of the phone that has yet to invite goes back to a call
\* that someone dialed.
OverlaysDialed ==
    Cardinality(Used(overlay)) + dialing + Num(toWeb, "invite")
       + Cardinality(PhonePending(tasks)) <= dialed

CallsDialed ==
    made + dialing + Num(toPhone, "invite") + Cardinality(WebPending(overlay))
       <= dialed

NumbersDialed ==
    lastSeq + dialing + Cardinality(WebPending(overlay))
       + Cardinality(PhonePending(tasks)) <= dialed

\* A call of the phone sends candidates of one connection at most.
CandidatesMade ==
    \A i \in Web!Overlays :
       overlay[i].queue + Num(toWeb, "candidate") + Slack(call, device, conn) <= made

\* An overlay opens one connection and sends its candidates once.
CandidatesOpen ==
    device.queue + Num(toPhone, "candidate") + Cardinality(CanTrickle(overlay))
       <= MaxCalls

Counts ==
    /\ OverlaysDialed /\ CallsDialed /\ NumbersDialed
    /\ CandidatesMade /\ CandidatesOpen

IInv == Scalars /\ TabOK(Web!Tab) /\ StoreOK(Phone!Store) /\ Counts

-----------------------------------------------------------------------------
(* Counting the packets of a queue *)

\* The positions of a queue are finitely many, so their number is a number.
LEMMA NumNat ==
    ASSUME NEW P, NEW s \in Seq(P), NEW e
    PROVE  Num(s, e) \in Nat /\ IsFiniteSet({n \in 1..Len(s) : s[n].event = e})
<1>1. IsFiniteSet(1..Len(s))
  BY FS_Interval
<1>2. {n \in 1..Len(s) : s[n].event = e} \in SUBSET (1..Len(s))
  OBVIOUS
<1> QED  BY <1>1, <1>2, FS_Subset, FS_CardinalityType DEF Num

\* A queue that follows another adds what it holds.
LEMMA NumConcat ==
    ASSUME NEW P, NEW q \in Seq(P), NEW s \in Seq(P), NEW e
    PROVE  Num(q \o s, e) = Num(q, e) + Num(s, e)
<1> DEFINE A == {n \in 1..Len(q) : q[n].event = e}
           B == {n \in 1..Len(s) : s[n].event = e}
           C == {n \in Len(q) + 1 .. Len(q) + Len(s) : (q \o s)[n].event = e}
           f == [n \in B |-> n + Len(q)]
<1>1. /\ Len(q) \in Nat /\ Len(s) \in Nat /\ Len(q \o s) = Len(q) + Len(s)
      /\ \A i \in 1..Len(q) : (q \o s)[i] = q[i]
      /\ \A i \in 1..Len(s) : (q \o s)[i + Len(q)] = s[i]
  <2>1. /\ Len(q \o s) = Len(q) + Len(s)
        /\ \A i \in 1 .. Len(q) + Len(s) : (q \o s)[i] =
              IF i <= Len(q) THEN q[i] ELSE s[i - Len(q)]
    BY ConcatProperties
  <2>2. Len(q) \in Nat /\ Len(s) \in Nat
    OBVIOUS
  <2>3. ASSUME NEW i \in 1..Len(s) PROVE (q \o s)[i + Len(q)] = s[i]
    <3>1. i + Len(q) \in 1 .. Len(q) + Len(s) /\ ~(i + Len(q) <= Len(q))
          /\ i + Len(q) - Len(q) = i
      BY <2>2
    <3> QED  BY <2>1, <3>1
  <2> QED  BY <2>1, <2>2, <2>3
<1>2. {n \in 1..Len(q \o s) : (q \o s)[n].event = e} = A \cup C
  BY <1>1
<1>3. A \cap C = {}
  BY <1>1
<1>4. IsFiniteSet(A) /\ IsFiniteSet(B)
  BY NumNat
<1>5. ExistsBijection(B, C)
  <2>1. \A n \in B : n + Len(q) \in C
    BY <1>1
  <2>2. f \in [B -> C]
    BY <2>1
  <2>3. \A a, b \in B : f[a] = f[b] => a = b
    BY <1>1
  <2>4. \A c \in C : \E b \in B : f[b] = c
    <3> TAKE c \in C
    <3>1. c - Len(q) \in 1..Len(s) /\ c - Len(q) + Len(q) = c
      BY <1>1
    <3>2. (q \o s)[c] = s[c - Len(q)]
      BY <1>1, <3>1
    <3>3. c - Len(q) \in B
      BY <3>1, <3>2
    <3> WITNESS c - Len(q) \in B
    <3> QED  BY <3>1, <3>3
  <2> HIDE DEF B, C, f
  <2>5. f \in Injection(B, C)
    BY <2>2, <2>3 DEF Injection, IsInjective
  <2>6. f \in Surjection(B, C)
    BY <2>2, <2>4 DEF Surjection
  <2> QED  BY <2>5, <2>6 DEF ExistsBijection, Bijection
<1>6. IsFiniteSet(C) /\ Cardinality(C) = Cardinality(B)
  BY <1>4, <1>5, FS_Bijection
<1>7. Cardinality(A \cup C) = Cardinality(A) + Cardinality(C)
  <2>1. Cardinality(A \cup C) = Cardinality(A) + Cardinality(C) - Cardinality(A \cap C)
    BY <1>4, <1>6, FS_Union
  <2>2. Cardinality(A \cap C) = 0
    BY <1>3, FS_EmptySet
  <2>3. Cardinality(A) \in Nat /\ Cardinality(C) \in Nat
    BY <1>4, <1>6, FS_CardinalityType
  <2> HIDE DEF A, C
  <2> QED  BY <2>1, <2>2, <2>3
<1> QED  BY <1>2, <1>6, <1>7 DEF Num

\* The empty queue and a queue of one packet.
LEMMA NumSmall ==
    ASSUME NEW P, NEW p \in P, NEW e
    PROVE  /\ Num(<<>>, e) = 0
           /\ Num(<<p>>, e) = IF p.event = e THEN 1 ELSE 0
<1>1. {n \in 1..Len(<<>>) : <<>>[n].event = e} = {}
  OBVIOUS
<1>2. Len(<<p>>) = 1 /\ <<p>>[1] = p
  OBVIOUS
<1>3. {n \in 1..Len(<<p>>) : <<p>>[n].event = e} = IF p.event = e THEN {1} ELSE {}
  BY <1>2
<1>4. Cardinality({}) = 0 /\ Cardinality({1}) = 1
  BY FS_EmptySet, FS_Singleton
<1> QED  BY <1>1, <1>3, <1>4 DEF Num

\* One packet more.
LEMMA NumAppend ==
    ASSUME NEW P, NEW q \in Seq(P), NEW p \in P, NEW e
    PROVE  Num(Append(q, p), e) = Num(q, e) + (IF p.event = e THEN 1 ELSE 0)
<1>1. Append(q, p) = q \o <<p>> /\ <<p>> \in Seq(P)
  BY AppendIsConcat
<1>2. Num(q \o <<p>>, e) = Num(q, e) + Num(<<p>>, e)
  BY <1>1, NumConcat
<1>3. Num(<<p>>, e) = IF p.event = e THEN 1 ELSE 0
  BY NumSmall
<1> QED  BY <1>1, <1>2, <1>3

\* The first packet leaves.
LEMMA NumTail ==
    ASSUME NEW P, NEW q \in Seq(P), q # <<>>, NEW e
    PROVE  Num(q, e) = Num(Tail(q), e) + (IF Head(q).event = e THEN 1 ELSE 0)
<1>1. Head(q) \in P /\ Tail(q) \in Seq(P) /\ <<Head(q)>> \in Seq(P)
  BY HeadTailProperties
<1>2. q = <<Head(q)>> \o Tail(q)
  OBVIOUS
<1>3. Num(q, e) = Num(<<Head(q)>>, e) + Num(Tail(q), e)
  <2>1. Num(<<Head(q)>> \o Tail(q), e) = Num(<<Head(q)>>, e) + Num(Tail(q), e)
    BY <1>1, NumConcat
  <2> QED  BY <1>2, <2>1
<1>4. Num(<<Head(q)>>, e) = IF Head(q).event = e THEN 1 ELSE 0
  BY <1>1, NumSmall
<1>5. Num(Tail(q), e) \in Nat
  BY <1>1, NumNat
<1> QED  BY <1>3, <1>4, <1>5

-----------------------------------------------------------------------------
(* The tab as a value *)

\* A tab that comes from another one without using up an overlay, preparing
\* or publishing an invitation, or sending or keeping a candidate.
Quiet(t, u) ==
    /\ \A i \in Web!Overlays :
          /\ t.all[i].dir # "none" => u.all[i].dir # "none"
          /\ Pends(t.all[i]) => Pends(u.all[i])
          /\ Opens(t.all[i]) => Opens(u.all[i])
          /\ t.all[i].queue <= u.all[i].queue
    /\ Num(t.out, "invite") = Num(u.out, "invite")
    /\ Num(t.out, "candidate") = Num(u.out, "candidate")

\* What may be closed: everything but what concerns candidates may be amiss
\* in the overlay that is closed.
AlmostOK(t, i) ==
    /\ t \in Tabs
    /\ \A j \in Web!Overlays :
          Shape(t.all[j], j, t.act) /\ (j # i => Heeded(t.all[j]))

\* Quietness is transitive.
LEMMA QuietTrans ==
    ASSUME NEW t \in Tabs, NEW u \in Tabs, NEW v \in Tabs, Quiet(t, u), Quiet(u, v)
    PROVE  Quiet(t, v)
<1>1. \A i \in Web!Overlays : t.all[i].queue \in Int /\ u.all[i].queue \in Int
                              /\ v.all[i].queue \in Int
  BY PairAssumption, Z3T(60) DEF Tabs, Web!Overlay
<1> QED  BY <1>1 DEF Quiet

\* Doing nothing is quiet.
LEMMA QuietSelf == ASSUME NEW t \in Tabs PROVE Quiet(t, t)
<1>1. \A i \in Web!Overlays : t.all[i].queue \in Int
  BY PairAssumption DEF Tabs, Web!Overlay
<1> QED  BY <1>1 DEF Quiet

\* The fields of a cleaned overlay.
LEMMA CleanedFields ==
    ASSUME NEW o \in Web!Overlay
    PROVE  LET c == Web!Cleaned(o) IN
           /\ c \in Web!Overlay
           /\ c.dir = o.dir /\ c.seq = o.seq /\ c.view = o.view
           /\ c.ending = o.ending /\ c.doing = o.doing
           /\ c.pc = IF o.pc = "none" THEN "none" ELSE "closed"
           /\ c.twice = o.twice /\ c.stray = o.stray
           /\ c.stream = FALSE /\ c.ice = "new" /\ c.queue = 0 /\ c.remote = 0
           /\ c.setup = FALSE /\ c.lost = FALSE /\ c.phase = "setup"
<1> DEFINE c == Web!Cleaned(o)
<1>1. Web!NoOverlay \in Web!Overlay
  BY PairAssumption DEF Web!NoOverlay, Web!Overlay
<1>2. c \in Web!Overlay
  BY <1>1, PairAssumption, ZenonT(60) DEF Web!Overlay, Web!Cleaned
<1>3. /\ c.dir = o.dir /\ c.seq = o.seq /\ c.view = o.view
      /\ c.ending = o.ending /\ c.doing = o.doing
      /\ c.pc = IF o.pc = "none" THEN "none" ELSE "closed"
      /\ c.twice = o.twice /\ c.stray = o.stray
  BY <1>1 DEF Web!Overlay, Web!Cleaned
<1>4. /\ c.stream = FALSE /\ c.ice = "new" /\ c.queue = 0 /\ c.remote = 0
      /\ c.setup = FALSE /\ c.lost = FALSE /\ c.phase = "setup"
  BY DEF Web!NoOverlay, Web!Cleaned
<1> QED  BY <1>2, <1>3, <1>4

\* One signal more.
LEMMA SayOK ==
    ASSUME NEW t \in Tabs, NEW e \in Web!Events \ {"confirm"},
           NEW s \in 1..MaxCalls, NEW of \in 0..MaxCalls
    PROVE  LET u == Web!Say(t, e, s, of) IN
           /\ u \in Tabs /\ u.all = t.all /\ u.act = t.act
           /\ \A k : Num(u.out, k) = Num(t.out, k) + (IF e = k THEN 1 ELSE 0)
<1> DEFINE p == Web!Signal(e, s, of)
           u == Web!Say(t, e, s, of)
<1>1. p \in Spoken /\ p.event = e
  BY DEF Spoken, Web!Packet, Web!Signal
<1>2. t.out \in Seq(Spoken) /\ Append(t.out, p) \in Seq(Spoken)
  BY <1>1 DEF Tabs
<1>3. u \in Tabs /\ u.all = t.all /\ u.act = t.act /\ u.out = Append(t.out, p)
  BY <1>2 DEF Tabs, Web!Say
<1>4. ASSUME NEW k
      PROVE  Num(u.out, k) = Num(t.out, k) + (IF e = k THEN 1 ELSE 0)
  BY <1>1, <1>2, <1>3, NumAppend
<1> QED  BY <1>3, <1>4

\* A hang-up, if there is one, is quiet.
LEMMA HangUpIfOK ==
    ASSUME NEW t \in Tabs, NEW yes, NEW s \in 0..MaxCalls
    PROVE  LET u == Web!HangUpIf(t, yes, s) IN
           /\ u \in Tabs /\ u.all = t.all /\ u.act = t.act
           /\ \A k : k # "hang-up" => Num(u.out, k) = Num(t.out, k)
<1>1. CASE yes /\ s # 0
  <2>1. s \in 1..MaxCalls /\ 0 \in 0..MaxCalls /\ "hang-up" \in Web!Events \ {"confirm"}
    BY <1>1, PairAssumption DEF Web!Events
  <2>2. Web!HangUpIf(t, yes, s) = Web!Say(t, "hang-up", s, 0)
    BY <1>1 DEF Web!HangUpIf
  <2>3. t.out \in Seq(Spoken)
    BY DEF Tabs
  <2> DEFINE u == Web!Say(t, "hang-up", s, 0)
  <2>4. /\ u \in Tabs /\ u.all = t.all /\ u.act = t.act
        /\ \A k : Num(u.out, k) = Num(t.out, k) + (IF "hang-up" = k THEN 1 ELSE 0)
    BY <2>1, SayOK, ZenonT(60)
  <2>5. \A k : Num(t.out, k) \in Nat
    BY <2>3, NumNat
  <2> HIDE DEF u
  <2>6. \A k : k # "hang-up" => Num(u.out, k) = Num(t.out, k)
    BY <2>4, <2>5
  <2> QED  BY <2>2, <2>4, <2>6 DEF u
<1>2. CASE ~(yes /\ s # 0)
  BY <1>2 DEF Web!HangUpIf
<1> QED  BY <1>1, <1>2

\* One overlay is replaced.
LEMMA PutFields ==
    ASSUME NEW t \in Tabs, NEW i \in Web!Overlays, NEW o \in Web!Overlay
    PROVE  LET u == Web!Put(t, i, o) IN
           /\ u \in Tabs /\ u.act = t.act /\ u.out = t.out
           /\ u.all[i] = o
           /\ \A j \in Web!Overlays : j # i => u.all[j] = t.all[j]
BY DEF Tabs, Web!Put

\* A tab in order stays so when an overlay in order is put into it.
LEMMA PutOK ==
    ASSUME NEW t, TabOK(t), NEW i \in Web!Overlays, NEW o \in Web!Overlay,
           Shape(o, i, t.act), Heeded(o)
    PROVE  TabOK(Web!Put(t, i, o))
<1> DEFINE u == Web!Put(t, i, o)
<1>1. t \in Tabs /\ \A j \in Web!Overlays : Shape(t.all[j], j, t.act) /\ Heeded(t.all[j])
  BY DEF TabOK
<1>2. /\ u \in Tabs /\ u.act = t.act /\ u.all[i] = o
      /\ \A j \in Web!Overlays : j # i => u.all[j] = t.all[j]
  BY <1>1, PutFields
<1> HIDE DEF u
<1>3. ASSUME NEW j \in Web!Overlays PROVE Shape(u.all[j], j, u.act) /\ Heeded(u.all[j])
  <2>1. CASE j = i  BY <2>1, <1>2
  <2>2. CASE j # i  BY <2>2, <1>1, <1>2
  <2> QED  BY <2>1, <2>2
<1>4. TabOK(u)
  BY <1>2, <1>3 DEF TabOK
<1> QED  BY <1>4 DEF u

\* A tab in order but for one overlay stays so when that overlay is replaced.
LEMMA PutAlmostOK ==
    ASSUME NEW t, NEW i \in Web!Overlays, AlmostOK(t, i), NEW o \in Web!Overlay,
           Shape(o, i, t.act)
    PROVE  AlmostOK(Web!Put(t, i, o), i)
<1> DEFINE u == Web!Put(t, i, o)
<1>1. t \in Tabs /\ \A j \in Web!Overlays :
          Shape(t.all[j], j, t.act) /\ (j # i => Heeded(t.all[j]))
  BY DEF AlmostOK
<1>2. /\ u \in Tabs /\ u.act = t.act /\ u.all[i] = o
      /\ \A j \in Web!Overlays : j # i => u.all[j] = t.all[j]
  BY <1>1, PutFields
<1> HIDE DEF u
<1>3. ASSUME NEW j \in Web!Overlays
      PROVE  Shape(u.all[j], j, u.act) /\ (j # i => Heeded(u.all[j]))
  <2>1. CASE j = i  BY <2>1, <1>2
  <2>2. CASE j # i  BY <2>2, <1>1, <1>2
  <2> QED  BY <2>1, <2>2
<1>4. AlmostOK(u, i)
  BY <1>2, <1>3 DEF AlmostOK
<1> QED  BY <1>4 DEF u

\* Replacing an overlay is quiet when the new one counts for no more.
LEMMA PutQuiet ==
    ASSUME NEW t \in Tabs, NEW i \in Web!Overlays, NEW o \in Web!Overlay,
           o.dir # "none" => t.all[i].dir # "none",
           Pends(o) => Pends(t.all[i]), Opens(o) => Opens(t.all[i]),
           o.queue <= t.all[i].queue
    PROVE  Quiet(Web!Put(t, i, o), t)
<1>1. \A j \in Web!Overlays : t.all[j].queue \in Int
  BY PairAssumption DEF Tabs, Web!Overlay
<1> DEFINE u == Web!Put(t, i, o)
<1>2. /\ u.out = t.out /\ u.all[i] = o
      /\ \A j \in Web!Overlays : j # i => u.all[j] = t.all[j]
  BY PutFields
<1> HIDE DEF u
<1>3. ASSUME NEW j \in Web!Overlays
      PROVE  /\ u.all[j].dir # "none" => t.all[j].dir # "none"
             /\ Pends(u.all[j]) => Pends(t.all[j])
             /\ Opens(u.all[j]) => Opens(t.all[j])
             /\ u.all[j].queue <= t.all[j].queue
  <2>1. CASE j = i  BY <2>1, <1>2
  <2>2. CASE j # i  BY <2>2, <1>1, <1>2
  <2> QED  BY <2>1, <2>2
<1>4. Quiet(u, t)
  BY <1>2, <1>3 DEF Quiet
<1> QED  BY <1>4 DEF u

-----------------------------------------------------------------------------
\* The fields of an overlay that is cleaned and then gone or ending.
LEMMA EndedFields ==
    ASSUME NEW o \in Web!Overlay, NEW g,
           \/ g = [Web!Cleaned(o) EXCEPT !.view = "gone"]
           \/ g = [Web!Cleaned(o) EXCEPT !.ending = TRUE]
    PROVE  /\ g \in Web!Overlay
           /\ g.dir = o.dir /\ g.seq = o.seq /\ g.doing = o.doing
           /\ g.twice = o.twice /\ g.stray = o.stray
           /\ g.pc = IF o.pc = "none" THEN "none" ELSE "closed"
           /\ g.stream = FALSE /\ g.ice = "new" /\ g.queue = 0 /\ g.remote = 0
           /\ g.setup = FALSE /\ g.lost = FALSE /\ g.phase = "setup"
           /\ (g.view = "gone" /\ g.ending = o.ending) \/ (g.view = o.view /\ g.ending)
<1> DEFINE c == Web!Cleaned(o)
<1>1. /\ c \in Web!Overlay
      /\ c.dir = o.dir /\ c.seq = o.seq /\ c.view = o.view
      /\ c.ending = o.ending /\ c.doing = o.doing
      /\ c.pc = IF o.pc = "none" THEN "none" ELSE "closed"
      /\ c.twice = o.twice /\ c.stray = o.stray
      /\ c.stream = FALSE /\ c.ice = "new" /\ c.queue = 0 /\ c.remote = 0
      /\ c.setup = FALSE /\ c.lost = FALSE /\ c.phase = "setup"
  BY CleanedFields
<1> HIDE DEF c
<1>2. g = [c EXCEPT !.view = "gone"] \/ g = [c EXCEPT !.ending = TRUE]
  BY DEF c
<1>3. CASE g = [c EXCEPT !.view = "gone"]
  <2>1. g \in Web!Overlay
    BY <1>1, <1>3 DEF Web!Overlay
  <2>2. /\ g.dir = c.dir /\ g.seq = c.seq /\ g.doing = c.doing /\ g.pc = c.pc
        /\ g.stream = c.stream /\ g.ice = c.ice /\ g.queue = c.queue
        /\ g.remote = c.remote /\ g.setup = c.setup /\ g.lost = c.lost
        /\ g.phase = c.phase /\ g.twice = c.twice /\ g.stray = c.stray
        /\ g.view = "gone" /\ g.ending = c.ending
    BY <1>1, <1>3 DEF Web!Overlay
  <2> QED  BY <1>1, <2>1, <2>2
<1>4. CASE g = [c EXCEPT !.ending = TRUE]
  <2>1. g \in Web!Overlay
    BY <1>1, <1>4 DEF Web!Overlay
  <2>2. /\ g.dir = c.dir /\ g.seq = c.seq /\ g.doing = c.doing /\ g.pc = c.pc
        /\ g.stream = c.stream /\ g.ice = c.ice /\ g.queue = c.queue
        /\ g.remote = c.remote /\ g.setup = c.setup /\ g.lost = c.lost
        /\ g.phase = c.phase /\ g.twice = c.twice /\ g.stray = c.stray
        /\ g.view = c.view /\ g.ending
    BY <1>1, <1>4 DEF Web!Overlay
  <2> QED  BY <1>1, <2>1, <2>2
<1> QED  BY <1>2, <1>3, <1>4

\* Such an overlay is no call any more.
LEMMA EndedOK ==
    ASSUME NEW o \in Web!Overlay, Core(o), NEW g \in Web!Overlay,
           g.dir = o.dir, g.seq = o.seq, g.doing = o.doing,
           g.twice = o.twice, g.stray = o.stray,
           g.pc = IF o.pc = "none" THEN "none" ELSE "closed",
           g.stream = FALSE, g.ice = "new", g.queue = 0, g.remote = 0,
           g.setup = FALSE, g.lost = FALSE, g.phase = "setup",
           (g.view = "gone" /\ g.ending = o.ending) \/ (g.view = o.view /\ g.ending)
    PROVE  /\ Core(g) /\ Heeded(g)
           /\ \A i, act : i # act /\ g.view \in {"no", "gone"} => Shape(g, i, act)
           /\ Pends(g) => Pends(o)
           /\ Opens(g) => Opens(o)
           /\ g.queue <= o.queue
<1>1. Core(g)
  BY DEF Core, CameraOk
<1>2. ~Web!Alive(g) /\ g.pc # "open"
  BY DEF Web!Alive, Web!Overlay
<1>3. Heeded(g)
  BY <1>2 DEF Heeded, Web!Described
<1>4. Pends(g) => Pends(o)
  BY DEF Pends
<1>5. Opens(g) => Opens(o)
  BY <1>2 DEF Opens
<1>6. g.queue <= o.queue
  BY PairAssumption DEF Web!Overlay
<1>7. \A i, act : i # act /\ g.view \in {"no", "gone"} => Shape(g, i, act)
  BY <1>1, <1>2 DEF Shape
<1> QED  BY <1>1, <1>3, <1>4, <1>5, <1>6, <1>7

\* What may be cleared: of the active overlay only the core matters.
Clearable(t) ==
    \A j \in Web!Overlays :
       IF j = t.act THEN Core(t.all[j])
       ELSE Shape(t.all[j], j, t.act) /\ Heeded(t.all[j])

\* Clearing the active call leaves a tab without a call.
LEMMA ClearedOK ==
    ASSUME NEW t \in Tabs, Clearable(t)
    PROVE  LET u == Web!Cleared(t) IN
           /\ TabOK(u) /\ u.act = 0 /\ Quiet(u, t)
           /\ \A j \in Web!Overlays : u.all[j].dir = t.all[j].dir
<1>1. CASE t.act = 0
  <2>1. Web!Cleared(t) = t
    BY <1>1 DEF Web!Cleared
  <2>2. \A j \in Web!Overlays : j # 0
    BY DEF Web!Overlays
  <2>3. TabOK(t)
    BY <1>1, <2>2 DEF TabOK, Clearable
  <2> QED  BY <1>1, <2>1, <2>3, QuietSelf
<1>2. CASE t.act # 0
  <2>0. PICK j \in Web!Overlays : j = t.act
    BY <1>2, PairAssumption DEF Tabs, Web!Overlays
  <2> DEFINE o == t.all[j]
             yes == o.view = "mounted" /\ ~o.ending
             h == Web!HangUpIf(t, yes, o.seq)
             g == [Web!Cleaned(o) EXCEPT !.view = "gone"]
             p == Web!Put(h, j, g)
             u == [p EXCEPT !.act = 0]
  <2>1. o \in Web!Overlay /\ o.seq \in 0..MaxCalls
    BY DEF Tabs, Web!Overlay
  <2> HIDE DEF yes
  <2>2. h \in Tabs /\ h.all = t.all /\ h.act = t.act
        /\ \A k : k # "hang-up" => Num(h.out, k) = Num(t.out, k)
    BY <2>1, HangUpIfOK
  <2>3. /\ g \in Web!Overlay
        /\ g.dir = o.dir /\ g.seq = o.seq /\ g.doing = o.doing
        /\ g.twice = o.twice /\ g.stray = o.stray
        /\ g.pc = IF o.pc = "none" THEN "none" ELSE "closed"
        /\ g.stream = FALSE /\ g.ice = "new" /\ g.queue = 0 /\ g.remote = 0
        /\ g.setup = FALSE /\ g.lost = FALSE /\ g.phase = "setup"
        /\ (g.view = "gone" /\ g.ending = o.ending) \/ (g.view = o.view /\ g.ending)
    BY <2>1, EndedFields
  <2>4. g.view = "gone"
    <3>1. Web!Cleaned(o) \in Web!Overlay
      BY <2>1, CleanedFields
    <3> QED  BY <3>1 DEF Web!Overlay
  <2>5. Web!Cleared(t) = u
    BY <1>2, <2>0 DEF Web!Cleared, yes
  <2>6. Core(o)
    BY <2>0 DEF Clearable
  <2> HIDE DEF g
  <2>7. /\ Heeded(g)
        /\ \A i, act : i # act /\ g.view \in {"no", "gone"} => Shape(g, i, act)
        /\ Pends(g) => Pends(o)
        /\ Opens(g) => Opens(o)
        /\ g.queue <= o.queue
    BY <2>1, <2>3, <2>6, EndedOK
  <2> HIDE DEF h, o
  <2>8. /\ p \in Tabs /\ p.act = t.act /\ p.out = h.out
        /\ p.all[j] = g
        /\ \A k \in Web!Overlays : k # j => p.all[k] = t.all[k]
    <3>1. h \in Tabs /\ g \in Web!Overlay
      BY <2>2, <2>3
    <3>2. /\ p \in Tabs /\ p.act = h.act /\ p.out = h.out /\ p.all[j] = g
          /\ \A k \in Web!Overlays : k # j => p.all[k] = h.all[k]
      BY <3>1, PutFields
    <3> QED  BY <2>2, <3>2
  <2> HIDE DEF p
  <2>9. u \in Tabs /\ u.act = 0 /\ u.out = h.out /\ u.all = p.all
    BY <2>8, PairAssumption, Z3 DEF Tabs
  <2> HIDE DEF u
  <2>10. ASSUME NEW k \in Web!Overlays
         PROVE  /\ Shape(u.all[k], k, 0) /\ Heeded(u.all[k])
                /\ u.all[k].dir = t.all[k].dir
                /\ Pends(u.all[k]) => Pends(t.all[k])
                /\ Opens(u.all[k]) => Opens(t.all[k])
                /\ u.all[k].queue <= t.all[k].queue
    <3>1. k # 0
      BY DEF Web!Overlays
    <3>2. CASE k = j
      BY <3>1, <3>2, <2>3, <2>4, <2>7, <2>8, <2>9 DEF o
    <3>3. CASE k # j
      <4>1. u.all[k] = t.all[k] /\ Shape(t.all[k], k, t.act) /\ Heeded(t.all[k])
        BY <3>3, <2>0, <2>8, <2>9 DEF Clearable
      <4>2. Shape(t.all[k], k, 0)
        BY <2>0, <3>1, <3>3, <4>1 DEF Shape
      <4>3. t.all[k].queue \in Int
        BY PairAssumption DEF Tabs, Web!Overlay
      <4> QED  BY <4>1, <4>2, <4>3
    <3> QED  BY <3>2, <3>3
  <2>11. TabOK(u)
    BY <2>9, <2>10 DEF TabOK
  <2>12. Quiet(u, t)
    BY <2>2, <2>9, <2>10 DEF Quiet
  <2> QED  BY <2>5, <2>9, <2>10, <2>11, <2>12
<1> QED  BY <1>1, <1>2

\* Closing a call, the active one or another, does so too, unless that call
\* is ending already.
LEMMA ClosedOK ==
    ASSUME NEW t, NEW i \in Web!Overlays, AlmostOK(t, i), NEW notify
    PROVE  LET u == Web!Closed(t, i, notify) IN TabOK(u) /\ Quiet(u, t)
<1> DEFINE o == t.all[i]
<1>1. /\ t \in Tabs /\ o \in Web!Overlay /\ Shape(o, i, t.act)
      /\ \A k \in Web!Overlays : Shape(t.all[k], k, t.act) /\ (k # i => Heeded(t.all[k]))
  BY DEF AlmostOK, Tabs
<1>2. CASE o.ending
  <2>1. Web!Closed(t, i, notify) = t
    BY <1>2 DEF Web!Closed
  <2>2. ~Web!Alive(o) /\ o.pc # "open"
    BY <1>1, <1>2 DEF Shape, Web!Alive
  <2>3. Heeded(o)
    BY <2>2 DEF Heeded, Web!Described
  <2>4. TabOK(t)
    BY <1>1, <2>3 DEF TabOK
  <2> QED  BY <1>1, <2>1, <2>4, QuietSelf
<1>3. CASE ~o.ending
  <2> DEFINE h == Web!HangUpIf(t, notify, o.seq)
             g == [Web!Cleaned(o) EXCEPT !.ending = TRUE]
             p == Web!Put(h, i, g)
             u == Web!Cleared(p)
  <2>1. o.seq \in 0..MaxCalls
    BY <1>1 DEF Web!Overlay
  <2>2. h \in Tabs /\ h.all = t.all /\ h.act = t.act
        /\ \A k : k # "hang-up" => Num(h.out, k) = Num(t.out, k)
    BY <1>1, <2>1, HangUpIfOK
  <2>3. /\ g \in Web!Overlay
        /\ g.dir = o.dir /\ g.seq = o.seq /\ g.doing = o.doing
        /\ g.twice = o.twice /\ g.stray = o.stray
        /\ g.pc = IF o.pc = "none" THEN "none" ELSE "closed"
        /\ g.stream = FALSE /\ g.ice = "new" /\ g.queue = 0 /\ g.remote = 0
        /\ g.setup = FALSE /\ g.lost = FALSE /\ g.phase = "setup"
        /\ (g.view = "gone" /\ g.ending = o.ending) \/ (g.view = o.view /\ g.ending)
    BY <1>1, EndedFields
  <2>4. g.view = o.view
    <3>1. Web!Cleaned(o) \in Web!Overlay /\ Web!Cleaned(o).view = o.view
      BY <1>1, CleanedFields
    <3> QED  BY <3>1 DEF Web!Overlay
  <2>5. Web!Closed(t, i, notify) = u
    BY <1>3 DEF Web!Closed
  <2>6. Core(o)
    BY <1>1 DEF Shape
  <2> HIDE DEF g
  <2>7. /\ Heeded(g) /\ Core(g)
        /\ \A k, act : k # act /\ g.view \in {"no", "gone"} => Shape(g, k, act)
        /\ Pends(g) => Pends(o)
        /\ Opens(g) => Opens(o)
        /\ g.queue <= o.queue
    BY <1>1, <2>3, <2>6, EndedOK
  <2> HIDE DEF h
  <2>8. /\ p \in Tabs /\ p.act = t.act /\ p.out = h.out
        /\ p.all[i] = g
        /\ \A k \in Web!Overlays : k # i => p.all[k] = t.all[k]
    BY <1>1, <2>2, <2>3, PutFields
  <2>9. Quiet(p, h)
    BY <1>1, <2>2, <2>3, <2>7, PutQuiet
  <2>10. Quiet(h, t)
    <3>1. \A k \in Web!Overlays : t.all[k].queue \in Int
      BY <1>1, PairAssumption DEF Tabs, Web!Overlay
    <3> QED  BY <2>2, <3>1 DEF Quiet
  <2> HIDE DEF p
  <2>11. ASSUME NEW k \in Web!Overlays
         PROVE  IF k = p.act THEN Core(p.all[k])
                ELSE Shape(p.all[k], k, p.act) /\ Heeded(p.all[k])
    <3>1. CASE k = i /\ k = p.act
      BY <3>1, <2>7, <2>8
    <3>2. CASE k = i /\ k # p.act
      <4>1. o.view \in {"no", "gone"}
        BY <3>2, <1>1, <2>8 DEF Shape
      <4> QED  BY <3>2, <4>1, <2>4, <2>7, <2>8
    <3>3. CASE k # i
      BY <3>3, <1>1, <2>8 DEF Shape
    <3> QED  BY <3>1, <3>2, <3>3
  <2>12. TabOK(u) /\ Quiet(u, p)
    <3>1. Clearable(p)
      BY <2>11 DEF Clearable
    <3> QED  BY <2>8, <3>1, ClearedOK
  <2>13. u \in Tabs
    BY <2>12 DEF TabOK
  <2> HIDE DEF u
  <2>14. Quiet(u, t)
    <3>1. Quiet(u, h)
      BY <2>2, <2>8, <2>9, <2>12, <2>13, QuietTrans
    <3> QED  BY <1>1, <2>2, <2>10, <2>13, <3>1, QuietTrans
  <2> QED  BY <2>5, <2>12, <2>14
<1> QED  BY <1>2, <1>3

\* A tab whose overlays are in order is one whose call may be closed.
LEMMA OKAlmost ==
    ASSUME NEW t, TabOK(t), NEW i
    PROVE  AlmostOK(t, i)
BY DEF TabOK, AlmostOK

-----------------------------------------------------------------------------
(* Steps of one overlay *)

\* An overlay that may take the place of another one quietly; when it is to
\* be closed at once, its candidates do not matter.
Steady(n, o, i, act) ==
    /\ n \in Web!Overlay
    /\ Shape(n, i, act)
    /\ n.dir = o.dir
    /\ Pends(n) => Pends(o)
    /\ Opens(n) => Opens(o)
    /\ n.queue <= o.queue

Fine(n, o, i, act) == Steady(n, o, i, act) /\ Heeded(n)

\* What a step of the tab leaves behind: a tab in order.
WebQuietly == \E t : TabOK(t) /\ Quiet(t, Web!Tab) /\ Web!Becomes(t)

\* A fine step of one overlay keeps the tab in order, quietly.
LEMMA PutFine ==
    ASSUME NEW t, TabOK(t), NEW i \in Web!Overlays, NEW n, Fine(n, t.all[i], i, t.act)
    PROVE  TabOK(Web!Put(t, i, n)) /\ Quiet(Web!Put(t, i, n), t)
<1>1. t \in Tabs
  BY DEF TabOK
<1> QED  BY <1>1, PutOK, PutQuiet DEF Fine, Steady

\* A call that is closed after a step of its overlay.
LEMMA CloseSteady ==
    ASSUME NEW t, TabOK(t), NEW i \in Web!Overlays, NEW n,
           Steady(n, t.all[i], i, t.act), NEW notify
    PROVE  LET u == Web!Closed(Web!Put(t, i, n), i, notify) IN
           TabOK(u) /\ Quiet(u, t)
<1> DEFINE p == Web!Put(t, i, n)
           u == Web!Closed(p, i, notify)
<1>1. t \in Tabs /\ n \in Web!Overlay /\ Shape(n, i, t.act)
  BY DEF TabOK, Steady
<1>2. p \in Tabs
  BY <1>1, PutFields
<1>3. AlmostOK(p, i)
  BY <1>1, OKAlmost, PutAlmostOK
<1>4. Quiet(p, t)
  BY <1>1, PutQuiet DEF Steady
<1> HIDE DEF p
<1>5. TabOK(u) /\ Quiet(u, p)
  BY <1>3, ClosedOK
<1>6. u \in Tabs
  BY <1>5 DEF TabOK
<1> HIDE DEF u
<1>7. Quiet(u, t)
  BY <1>1, <1>2, <1>4, <1>5, <1>6, QuietTrans
<1> QED  BY <1>5, <1>7 DEF u, p

\* The tab of the state.
LEMMA TabFields ==
    ASSUME TabOK(Web!Tab)
    PROVE  /\ Web!Tab \in Tabs
           /\ Web!Tab.all = overlay /\ Web!Tab.act = active /\ Web!Tab.out = <<>>
           /\ \A i \in Web!Overlays :
                 /\ overlay[i] \in Web!Overlay
                 /\ Shape(overlay[i], i, active) /\ Heeded(overlay[i])
<1>1. Web!Tab \in Tabs /\ \A i \in Web!Overlays :
         Shape(Web!Tab.all[i], i, Web!Tab.act) /\ Heeded(Web!Tab.all[i])
  BY DEF TabOK
<1>2. Web!Tab.all = overlay /\ Web!Tab.act = active /\ Web!Tab.out = <<>>
  BY DEF Web!Tab
<1>3. overlay \in [Web!Overlays -> Web!Overlay]
  BY <1>1, <1>2 DEF Tabs
<1> QED  BY <1>1, <1>2, <1>3

\* A call that is answered is set up.
LEMMA AcceptFine ==
    ASSUME NEW o \in Web!Overlay, NEW i, NEW act, Shape(o, i, act), Heeded(o),
           Web!Alive(o), o.phase = "incoming"
    PROVE  Fine(Web!Asked([o EXCEPT !.phase = "setup"], "acceptMedia"), o, i, act)
<1> DEFINE n == Web!Asked([o EXCEPT !.phase = "setup"], "acceptMedia")
<1>1. n \in Web!Overlay
  BY PairAssumption DEF Web!Asked, Web!Begun, Web!Overlay, Web!Stages
<1>2. n.queue <= o.queue
  BY PairAssumption DEF Web!Asked, Web!Begun, Web!Overlay
<1>3. n.dir = o.dir /\ (Pends(n) => Pends(o)) /\ (Opens(n) => Opens(o))
  BY DEF Web!Asked, Web!Begun, Web!Overlay, Pends, Opens, Asking
<1>4. CameraOk(n)
  BY DEF Web!Asked, Web!Begun, Web!Overlay, CameraOk, Shape, Core, Web!MediaStages
<1>5. Shape(n, i, act)
  BY <1>4 DEF Web!Asked, Web!Begun, Web!Overlay, Shape, Core, Web!Alive, Asking
<1>6. Heeded(n)
  BY DEF Web!Asked, Web!Begun, Web!Overlay, Heeded, Shape, Web!Described, Web!Alive
<1> QED  BY <1>1, <1>2, <1>3, <1>5, <1>6 DEF Fine, Steady

\* The component of an outgoing call has loaded: it asks for the camera.
LEMMA MountOutFine ==
    ASSUME NEW o \in Web!Overlay, NEW i, NEW act, Shape(o, i, act), Heeded(o),
           o.view = "loading", o.dir = "outgoing"
    PROVE  Fine(Web!Asked([o EXCEPT !.view = "mounted", !.setup = TRUE], "startMedia"), o, i, act)
<1> DEFINE n == Web!Asked([o EXCEPT !.view = "mounted", !.setup = TRUE], "startMedia")
<1>1. n \in Web!Overlay
  BY PairAssumption DEF Web!Asked, Web!Begun, Web!Overlay, Web!Stages
<1>2. n.queue <= o.queue
  BY PairAssumption DEF Web!Asked, Web!Begun, Web!Overlay
<1>3. n.dir = o.dir /\ (Pends(n) => Pends(o)) /\ (Opens(n) => Opens(o))
  BY DEF Web!Asked, Web!Begun, Web!Overlay, Pends, Opens, Asking
<1>4. CameraOk(n)
  BY ZenonT(60) DEF Web!Asked, Web!Begun, Web!Overlay, CameraOk, Shape, Core, Web!MediaStages
<1>5. Shape(n, i, act)
  BY <1>4 DEF Web!Asked, Web!Begun, Web!Overlay, Shape, Core, Web!Alive, Asking
<1>6. Heeded(n)
  BY DEF Web!Asked, Web!Begun, Web!Overlay, Heeded, Shape, Web!Described, Web!Alive
<1> QED  BY <1>1, <1>2, <1>3, <1>5, <1>6 DEF Fine, Steady

\* The component of an incoming call has loaded.
LEMMA MountInFine ==
    ASSUME NEW o \in Web!Overlay, NEW i, NEW act, Shape(o, i, act), Heeded(o),
           o.view = "loading", o.dir = "incoming"
    PROVE  Fine([o EXCEPT !.view = "mounted", !.setup = TRUE], o, i, act)
<1> DEFINE n == [o EXCEPT !.view = "mounted", !.setup = TRUE]
<1>1. n \in Web!Overlay
  BY PairAssumption DEF Web!Begun, Web!Overlay, Web!Stages
<1>2. n.queue <= o.queue
  BY PairAssumption DEF Web!Begun, Web!Overlay
<1>3. n.dir = o.dir /\ (Pends(n) => Pends(o)) /\ (Opens(n) => Opens(o))
  BY DEF Web!Begun, Web!Overlay, Pends, Opens, Asking
<1>4. CameraOk(n)
  BY DEF Web!Begun, Web!Overlay, CameraOk, Shape, Core, Web!MediaStages
<1>5. Shape(n, i, act)
  BY <1>4 DEF Web!Begun, Web!Overlay, Shape, Core, Web!Alive, Asking
<1>6. Heeded(n)
  BY DEF Web!Begun, Web!Overlay, Heeded, Shape, Web!Described, Web!Alive
<1> QED  BY <1>1, <1>2, <1>3, <1>5, <1>6 DEF Fine, Steady

\* An awaited call comes back, or a closed connection refuses.
LEMMA DidSteady ==
    ASSUME NEW o \in Web!Overlay, NEW i, NEW act, Shape(o, i, act), Heeded(o),
           NEW stage
    PROVE  Steady(Web!Did(o, stage), o, i, act)
<1> DEFINE n == Web!Did(o, stage)
<1>1. n \in Web!Overlay
  BY PairAssumption DEF Web!Did, Web!Overlay, Web!Stages
<1>2. n.queue <= o.queue
  BY PairAssumption DEF Web!Did, Web!Overlay
<1>3. n.dir = o.dir /\ (Pends(n) => Pends(o)) /\ (Opens(n) => Opens(o))
  BY DEF Web!Did, Web!Overlay, Pends, Opens, Asking
<1>4. CameraOk(n)
  BY DEF Web!Did, Web!Overlay, CameraOk, Shape, Core, Web!MediaStages
<1>5. Shape(n, i, act)
  BY <1>4 DEF Web!Did, Web!Overlay, Shape, Core, Web!Alive, Asking
<1> QED  BY <1>1, <1>2, <1>3, <1>5 DEF Steady

\* A stream that comes too late is stopped.
LEMMA LateSteady ==
    ASSUME NEW o \in Web!Overlay, NEW i, NEW act, Shape(o, i, act), Heeded(o),
           NEW stage, ~Web!Alive(o)
    PROVE  Steady(Web!WithStream(Web!Did(o, stage)), o, i, act)
<1> DEFINE n == Web!WithStream(Web!Did(o, stage))
<1>1. n \in Web!Overlay
  BY PairAssumption, ZenonT(60) DEF Web!Did, Web!WithStream, Web!Alive, Web!Overlay, Web!Stages
<1>2. n.queue <= o.queue
  BY PairAssumption DEF Web!Did, Web!WithStream, Web!Alive, Web!Overlay
<1>3. n.dir = o.dir /\ (Pends(n) => Pends(o)) /\ (Opens(n) => Opens(o))
  BY DEF Web!Did, Web!WithStream, Web!Alive, Web!Overlay, Pends, Opens, Asking
<1>4. CameraOk(n)
  BY DEF Web!Did, Web!WithStream, Web!Overlay, Web!Alive, CameraOk, Shape, Core, Web!MediaStages
<1>5. Shape(n, i, act)
  BY <1>4 DEF Web!Did, Web!WithStream, Web!Alive, Web!Overlay, Shape, Core, Web!Alive, Asking
<1> QED  BY <1>1, <1>2, <1>3, <1>5 DEF Steady

\* A request for the camera changes what the overlay does, and perhaps twice.
LEMMA AskedFields ==
    ASSUME NEW o \in Web!Overlay, NEW stage \in Web!MediaStages
    PROVE  LET a == Web!Asked(o, stage) IN
           /\ a \in Web!Overlay
           /\ a.doing = o.doing \cup {stage}
           /\ a.twice = (o.twice \/ o.stream \/ o.doing \cap Web!MediaStages # {})
           /\ a.stream = o.stream /\ a.stray = o.stray
           /\ a.dir = o.dir /\ a.seq = o.seq /\ a.view = o.view
           /\ a.ending = o.ending /\ a.phase = o.phase /\ a.pc = o.pc
           /\ a.ice = o.ice /\ a.local = o.local /\ a.remote = o.remote
           /\ a.queue = o.queue /\ a.trickled = o.trickled
           /\ a.offered = o.offered /\ a.answered = o.answered
           /\ a.answerSet = o.answerSet /\ a.setup = o.setup /\ a.lost = o.lost
<1> DEFINE a == Web!Asked(o, stage)
           d == o.doing \cup {stage}
           tw == o.twice \/ o.stream \/ o.doing \cap Web!MediaStages # {}
<1>1. d \in SUBSET Web!Stages /\ tw \in BOOLEAN
  BY DEF Web!Stages, Web!MediaStages, Web!Overlay
<1> HIDE DEF d, tw
<1>2. a = [o EXCEPT !.doing = d, !.twice = tw]
  BY DEF Web!Asked, Web!Begun, Web!Overlay, d, tw
<1>3. a \in Web!Overlay
  BY <1>1, <1>2, ZenonT(60) DEF Web!Overlay
<1>4. /\ a.doing = d /\ a.twice = tw
      /\ a.stream = o.stream /\ a.stray = o.stray
      /\ a.dir = o.dir /\ a.seq = o.seq /\ a.view = o.view
      /\ a.ending = o.ending /\ a.phase = o.phase /\ a.pc = o.pc
      /\ a.ice = o.ice /\ a.local = o.local /\ a.remote = o.remote
      /\ a.queue = o.queue /\ a.trickled = o.trickled
      /\ a.offered = o.offered /\ a.answered = o.answered
      /\ a.answerSet = o.answerSet /\ a.setup = o.setup /\ a.lost = o.lost
  BY <1>2 DEF Web!Overlay
<1> HIDE DEF a
<1> QED  BY <1>3, <1>4 DEF a, d, tw

\* A stream that comes in time takes the place of the one before.
LEMMA StreamFields ==
    ASSUME NEW o \in Web!Overlay, Web!Alive(o), NEW stage \in Web!MediaStages
    PROVE  LET a == Web!WithStream(Web!Did(o, stage)) IN
           /\ a \in Web!Overlay
           /\ a.doing = o.doing \ {stage} /\ a.twice = o.twice
           /\ a.stream = TRUE /\ a.stray = (o.stray \/ o.stream)
           /\ a.dir = o.dir /\ a.seq = o.seq /\ a.view = o.view
           /\ a.ending = o.ending /\ a.phase = o.phase /\ a.pc = o.pc
           /\ a.ice = o.ice /\ a.local = o.local /\ a.remote = o.remote
           /\ a.queue = o.queue /\ a.trickled = o.trickled
           /\ a.offered = o.offered /\ a.answered = o.answered
           /\ a.answerSet = o.answerSet /\ a.setup = o.setup /\ a.lost = o.lost
<1> DEFINE a == Web!WithStream(Web!Did(o, stage))
           d == o.doing \ {stage}
           st == o.stray \/ o.stream
<1>1. d \in SUBSET Web!Stages /\ st \in BOOLEAN
  BY DEF Web!Stages, Web!MediaStages, Web!Overlay
<1> HIDE DEF d, st
<1>2. Web!Alive(Web!Did(o, stage))
  BY DEF Web!Did, Web!Alive, Web!Overlay
<1>3. a = [o EXCEPT !.doing = d, !.stream = TRUE, !.stray = st]
  BY <1>2 DEF Web!WithStream, Web!Did, Web!Overlay, d, st
<1>4. a \in Web!Overlay
  BY <1>1, <1>3, ZenonT(60) DEF Web!Overlay
<1>5. /\ a.doing = d /\ a.twice = o.twice
      /\ a.stream = TRUE /\ a.stray = st
      /\ a.dir = o.dir /\ a.seq = o.seq /\ a.view = o.view
      /\ a.ending = o.ending /\ a.phase = o.phase /\ a.pc = o.pc
      /\ a.ice = o.ice /\ a.local = o.local /\ a.remote = o.remote
      /\ a.queue = o.queue /\ a.trickled = o.trickled
      /\ a.offered = o.offered /\ a.answered = o.answered
      /\ a.answerSet = o.answerSet /\ a.setup = o.setup /\ a.lost = o.lost
  BY <1>3 DEF Web!Overlay
<1> HIDE DEF a
<1> QED  BY <1>4, <1>5 DEF a, d, st

\* A request for the camera keeps an overlay in order.
LEMMA AskedFine ==
    ASSUME NEW o \in Web!Overlay, NEW i, NEW act, Shape(o, i, act), Heeded(o),
           NEW stage \in Web!MediaStages \ {"startMedia"}, Web!Alive(o), o.seq # 0
    PROVE  Fine(Web!Asked(o, stage), o, i, act)
<1> DEFINE a == Web!Asked(o, stage)
<1>1. /\ a \in Web!Overlay
      /\ a.doing = o.doing \cup {stage}
      /\ a.twice = (o.twice \/ o.stream \/ o.doing \cap Web!MediaStages # {})
      /\ a.stream = o.stream /\ a.stray = o.stray
      /\ a.dir = o.dir /\ a.seq = o.seq /\ a.view = o.view
      /\ a.ending = o.ending /\ a.phase = o.phase /\ a.pc = o.pc
      /\ a.ice = o.ice /\ a.local = o.local /\ a.remote = o.remote
      /\ a.queue = o.queue /\ a.trickled = o.trickled
      /\ a.offered = o.offered /\ a.answered = o.answered
      /\ a.answerSet = o.answerSet /\ a.setup = o.setup /\ a.lost = o.lost
  BY AskedFields, Zenon
<1> HIDE DEF a
<1>2. a.queue <= o.queue /\ a.dir = o.dir
  BY <1>1, PairAssumption DEF Web!Overlay
<1>3. (Pends(a) => Pends(o)) /\ (Opens(a) => Opens(o))
  BY <1>1 DEF Pends, Opens, Asking, Web!MediaStages
<1>4. CameraOk(a)
  <2>1. CASE o.twice \/ o.stream \/ o.doing \cap Web!MediaStages # {}
    BY <1>1, <2>1 DEF CameraOk, Shape, Core
  <2>2. CASE ~o.twice /\ ~o.stream /\ o.doing \cap Web!MediaStages = {}
    <3>1. a.doing \cap Web!MediaStages = {stage}
      BY <1>1, <2>2
    <3>2. a.stream = FALSE /\ ~a.stray
      BY <1>1, <2>2 DEF CameraOk, Shape, Core, Web!Overlay
    <3> QED  BY <3>1, <3>2 DEF CameraOk
  <2> QED  BY <2>1, <2>2
<1>5. Core(a)
  BY <1>1, <1>4 DEF Core, Shape, Asking, Web!MediaStages, Web!Alive
<1>6. Shape(a, i, act)
  BY <1>1, <1>5 DEF Shape, Web!Alive
<1>7. Heeded(a)
  BY <1>1 DEF Heeded, Web!Described, Web!Alive
<1> QED  BY <1>1, <1>2, <1>3, <1>6, <1>7 DEF Fine, Steady, a

\* So does the use of the camera it has for a connection.
LEMMA PeeredFine ==
    ASSUME NEW o \in Web!Overlay, NEW i, NEW act, Shape(o, i, act), Heeded(o),
           NEW next \in {"offer", "setOffer"}, Web!Alive(o), o.dir # "none",
           o.seq # 0
    PROVE  LET a == Web!Begun(Web!WithPeer(o), next) IN
           /\ Fine(a, o, i, act) /\ a.dir = o.dir /\ a.view = o.view
           /\ a.ending = o.ending /\ a.pc # "none" /\ a.doing = o.doing \cup {next}
           /\ a.queue = o.queue /\ a.remote = o.remote
           /\ a.pc = "open" => o.pc \in {"none", "open"}
<1> DEFINE pc == IF o.pc = "none" THEN "open" ELSE o.pc
           d == o.doing \cup {next}
           a == Web!Begun(Web!WithPeer(o), next)
<1>1. d \in SUBSET Web!Stages /\ pc \in {"open", "closed"}
  BY DEF Web!Overlay, Web!Stages
<1>2. pc = "open" => o.pc \in {"none", "open"}
  OBVIOUS
<1>3. o.pc \in {"open", "closed"} => pc = o.pc
  OBVIOUS
<1> HIDE DEF d, pc
<1>4. a = [o EXCEPT !.pc = pc, !.doing = d]
  BY DEF Web!Begun, Web!WithPeer, Web!Overlay, d, pc
<1>5. a \in Web!Overlay
  BY <1>1, <1>4, ZenonT(60) DEF Web!Overlay
<1>6. /\ a.doing = d /\ a.pc = pc /\ a.twice = o.twice
      /\ a.stream = o.stream /\ a.stray = o.stray
      /\ a.dir = o.dir /\ a.seq = o.seq /\ a.view = o.view
      /\ a.ending = o.ending /\ a.phase = o.phase /\ a.ice = o.ice
      /\ a.local = o.local /\ a.remote = o.remote /\ a.queue = o.queue
      /\ a.trickled = o.trickled /\ a.setup = o.setup /\ a.lost = o.lost
  BY <1>4 DEF Web!Overlay
<1> HIDE DEF a
<1>7. a.queue <= o.queue
  BY <1>6, PairAssumption DEF Web!Overlay
<1>8. (Pends(a) => Pends(o)) /\ (Opens(a) => Opens(o))
  BY <1>1, <1>2, <1>6 DEF Pends, Opens, Asking, d
<1>9. CameraOk(a)
  <2>1. a.doing \cap Web!MediaStages \subseteq o.doing
    BY <1>6 DEF d, Web!MediaStages
  <2> QED  BY <1>6, <2>1 DEF CameraOk, Shape, Core
<1>10. Core(a)
  BY <1>6, <1>9 DEF Core, Shape, Asking, Web!Alive, d
<1>11. Shape(a, i, act)
  BY <1>6, <1>10 DEF Shape, Web!Alive
<1>12. Heeded(a)
  <2>1. CASE o.pc = "open"
    BY <1>3, <1>6, <2>1 DEF Heeded, Web!Described, Web!Alive, d
  <2>2. CASE o.pc # "open" /\ o.remote # 0
    BY <1>1, <1>3, <1>6, <2>2 DEF Heeded, Web!Described, Web!Alive, Web!Overlay, d
  <2>3. CASE o.remote = 0
    BY <1>6, <2>3 DEF Heeded, Web!Described
  <2> QED  BY <2>1, <2>2, <2>3
<1> QED  BY <1>1, <1>2, <1>5, <1>6, <1>7, <1>8, <1>11, <1>12 DEF Fine, Steady, a, d

\* A camera that opens in time leads on to what asked for it.
LEMMA AfterMediaFine ==
    ASSUME NEW o \in Web!Overlay, NEW i, NEW act, Shape(o, i, act), Heeded(o),
           NEW stage \in o.doing \cap Web!MediaStages,
           Web!Alive(o)
    PROVE  Fine(Web!AfterMedia(Web!WithStream(Web!Did(o, stage)), stage), o, i, act)
<1> DEFINE w == Web!WithStream(Web!Did(o, stage))
           n == Web!AfterMedia(w, stage)
<1>0. stage \in Web!MediaStages
  OBVIOUS
<1>1. /\ w \in Web!Overlay
      /\ w.doing = o.doing \ {stage} /\ w.twice = o.twice
      /\ w.stream = TRUE /\ w.stray = (o.stray \/ o.stream)
      /\ w.dir = o.dir /\ w.seq = o.seq /\ w.view = o.view
      /\ w.ending = o.ending /\ w.phase = o.phase /\ w.pc = o.pc
      /\ w.ice = o.ice /\ w.local = o.local /\ w.remote = o.remote
      /\ w.queue = o.queue /\ w.trickled = o.trickled
      /\ w.offered = o.offered /\ w.answered = o.answered
      /\ w.answerSet = o.answerSet /\ w.setup = o.setup /\ w.lost = o.lost
  BY <1>0, StreamFields, Zenon
<1> HIDE DEF w
<1>2. CameraOk(w)
  BY <1>1 DEF CameraOk, Shape, Core, Web!MediaStages
<1>3. Shape(w, i, act)
  BY <1>1, <1>2 DEF Shape, Core, Web!Alive, Asking
<1>4. CASE stage = "startMedia"
  <2>1. n = [w EXCEPT !.doing = @ \cup {"publish"}]
    BY <1>4 DEF Web!AfterMedia, Web!Begun
  <2>2. n \in Web!Overlay
    BY <1>1, <2>1 DEF Web!Overlay, Web!Stages
  <2>3. n.queue <= o.queue /\ n.dir = o.dir
    BY <1>1, <2>1, PairAssumption DEF Web!Overlay
  <2>4. (Pends(n) => Pends(o)) /\ (Opens(n) => Opens(o))
    BY <1>1, <1>4, <2>1 DEF Web!Overlay, Pends, Opens, Asking
  <2>5. CameraOk(n)
    BY <1>1, <1>2, <2>1 DEF CameraOk, Web!Overlay, Web!MediaStages
  <2>6. Shape(n, i, act)
    BY <1>1, <1>3, <1>4, <2>1, <2>5 DEF Shape, Core, Web!Alive, Web!Overlay, Asking
  <2>7. Heeded(n)
    BY <1>1, <1>4, <2>1 DEF Heeded, Web!Described, Web!Alive, Web!Overlay
  <2> QED  BY <2>2, <2>3, <2>4, <2>6, <2>7 DEF Fine, Steady, w
<1>5. CASE stage = "acceptMedia"
  <2>1. n = w
    BY <1>5 DEF Web!AfterMedia
  <2>2. n.queue <= o.queue /\ n.dir = o.dir
    BY <1>1, <2>1, PairAssumption DEF Web!Overlay
  <2>3. (Pends(n) => Pends(o)) /\ (Opens(n) => Opens(o))
    BY <1>1, <2>1 DEF Pends, Opens, Asking
  <2>4. Heeded(n)
    BY <1>1, <1>5, <2>1 DEF Heeded, Web!Described, Web!Alive
  <2> QED  BY <1>1, <1>3, <2>1, <2>2, <2>3, <2>4 DEF Fine, Steady, w
<1>6. CASE stage \in {"offerMedia", "answerMedia"}
  <2> DEFINE next == IF stage = "offerMedia" THEN "offer" ELSE "setOffer"
             pc == IF w.pc = "none" THEN "open" ELSE w.pc
  <2>1. n = [w EXCEPT !.pc = pc, !.doing = w.doing \cup {next}]
    BY <1>1, <1>6 DEF Web!AfterMedia, Web!Begun, Web!WithPeer, Web!Overlay
  <2>2. pc \in {"open", "closed"} /\ next \in {"offer", "setOffer"}
    BY <1>1 DEF Web!Overlay
  <2> HIDE DEF n
  <2>3. n \in Web!Overlay
    <3> DEFINE d == w.doing \cup {next}
    <3>1. d \in SUBSET Web!Stages
      BY <1>1, <2>2 DEF Web!Overlay, Web!Stages
    <3>2. pc \in {"none", "open", "closed"}
      BY <2>2
    <3> HIDE DEF d, pc
    <3>3. [w EXCEPT !.pc = pc, !.doing = d] \in Web!Overlay
      BY <1>1, <3>1, <3>2, ZenonT(60) DEF Web!Overlay
    <3> QED  BY <2>1, <3>3 DEF d
  <2>4. n.queue <= o.queue /\ n.dir = o.dir
    BY <1>1, <2>1, PairAssumption DEF Web!Overlay
  <2>5. (Pends(n) => Pends(o)) /\ (Opens(n) => Opens(o))
    BY <1>1, <1>6, <2>1, <2>2 DEF Web!Overlay, Pends, Opens, Asking
  <2>6. CameraOk(n)
    <3>1. /\ n.stray = w.stray /\ n.twice = w.twice /\ n.stream = w.stream
          /\ n.doing \cap Web!MediaStages \subseteq w.doing
      BY <1>1, <2>1, <2>2 DEF Web!Overlay, Web!MediaStages
    <3> QED  BY <1>2, <3>1 DEF CameraOk
  <2>7. Shape(n, i, act)
    BY <1>1, <1>3, <1>6, <2>1, <2>2, <2>6 DEF Shape, Core, Web!Alive, Web!Overlay, Asking
  <2>8. Heeded(n)
    BY <1>1, <1>6, <2>1, <2>2 DEF Heeded, Web!Described, Web!Alive, Web!Overlay
  <2> QED  BY <2>3, <2>4, <2>5, <2>7, <2>8 DEF Fine, Steady, n, w
<1> QED  BY <1>4, <1>5, <1>6 DEF Web!MediaStages, w

\* A local description is set on an open connection.
LEMMA DescribedFine ==
    ASSUME NEW o \in Web!Overlay, NEW i, NEW act, Shape(o, i, act), Heeded(o),
           NEW stage \in {"offer", "answer"}, o.pc = "open"
    PROVE  Fine([Web!Did(o, stage) EXCEPT !.local = TRUE], o, i, act)
<1> DEFINE n == [Web!Did(o, stage) EXCEPT !.local = TRUE]
<1>1. n \in Web!Overlay
  BY PairAssumption DEF Web!Did, Web!Overlay, Web!Stages
<1>2. n.queue <= o.queue
  BY PairAssumption DEF Web!Did, Web!Overlay
<1>3. n.dir = o.dir /\ (Pends(n) => Pends(o)) /\ (Opens(n) => Opens(o))
  BY DEF Web!Did, Web!Overlay, Pends, Opens, Asking
<1>4. CameraOk(n)
  BY DEF Web!Did, Web!Overlay, CameraOk, Shape, Core, Web!MediaStages
<1>5. Shape(n, i, act)
  BY <1>4 DEF Web!Did, Web!Overlay, Shape, Core, Web!Alive, Asking
<1>6. Heeded(n)
  BY DEF Web!Did, Web!Overlay, Heeded, Shape, Web!Described, Web!Alive
<1> QED  BY <1>1, <1>2, <1>3, <1>5, <1>6 DEF Fine, Steady

\* A remote description is set on an open connection.
LEMMA RemoteSetFine ==
    ASSUME NEW o \in Web!Overlay, NEW i, NEW act, Shape(o, i, act), Heeded(o),
           NEW stage \in o.doing \cap {"setOffer", "setAnswer"}, o.pc = "open"
    PROVE  Fine(Web!RemoteSet(o, stage), o, i, act)
<1> DEFINE n == Web!RemoteSet(o, stage)
<1>1. n \in Web!Overlay
  <2> DEFINE d == Web!Did(o, stage)
             r == Web!Drained(d)
             b == Web!Begun(r, "answer")
  <2>1. d \in Web!Overlay
    BY DEF Web!Did, Web!Overlay
  <2> HIDE DEF d
  <2>2. r \in Web!Overlay
    BY <2>1, PairAssumption DEF Web!Drained, Web!Overlay
  <2> HIDE DEF r
  <2>3. b \in Web!Overlay
    BY <2>2 DEF Web!Begun, Web!Overlay, Web!Stages
  <2>4. n \in {r, b}
    BY DEF Web!RemoteSet, r, d
  <2> QED  BY <2>2, <2>3, <2>4
<1>2. n.queue <= o.queue
  BY PairAssumption DEF Web!RemoteSet, Web!Did, Web!Begun, Web!Drained, Web!Overlay
<1>3. n.dir = o.dir /\ (Pends(n) => Pends(o)) /\ (Opens(n) => Opens(o))
  BY DEF Web!RemoteSet, Web!Did, Web!Begun, Web!Drained, Web!Overlay, Pends, Opens, Asking
<1>4. CameraOk(n)
  BY DEF Web!RemoteSet, Web!Did, Web!Begun, Web!Drained, Web!Overlay, CameraOk, Shape, Core, Web!MediaStages
<1>5. Shape(n, i, act)
  BY <1>4 DEF Web!RemoteSet, Web!Did, Web!Begun, Web!Drained, Web!Overlay, Shape, Core, Web!Alive, Asking
<1>6. Heeded(n)
  BY DEF Web!RemoteSet, Web!Did, Web!Begun, Web!Drained, Web!Overlay, Heeded, Shape, Web!Described, Web!Alive
<1> QED  BY <1>1, <1>2, <1>3, <1>5, <1>6 DEF Fine, Steady

\* An open connection connects.
LEMMA ConnectedFine ==
    ASSUME NEW o \in Web!Overlay, NEW i, NEW act, Shape(o, i, act), Heeded(o),
           o.pc = "open"
    PROVE  Fine([o EXCEPT !.ice = "connected", !.setup = FALSE, !.lost = FALSE], o, i, act)
<1> DEFINE n == [o EXCEPT !.ice = "connected", !.setup = FALSE, !.lost = FALSE]
<1>1. n \in Web!Overlay
  BY PairAssumption DEF Web!Did, Web!Overlay, Web!Stages
<1>2. n.queue <= o.queue
  BY PairAssumption DEF Web!Did, Web!Overlay
<1>3. n.dir = o.dir /\ (Pends(n) => Pends(o)) /\ (Opens(n) => Opens(o))
  BY DEF Web!Did, Web!Overlay, Pends, Opens, Asking
<1>4. CameraOk(n)
  BY DEF Web!Did, Web!Overlay, CameraOk, Shape, Core, Web!MediaStages
<1>5. Shape(n, i, act)
  BY <1>4 DEF Web!Did, Web!Overlay, Shape, Core, Web!Alive, Asking
<1>6. Heeded(n)
  BY DEF Web!Did, Web!Overlay, Heeded, Shape, Web!Described, Web!Alive
<1> QED  BY <1>1, <1>2, <1>3, <1>5, <1>6 DEF Fine, Steady

\* A connection is lost.
LEMMA LostFine ==
    ASSUME NEW o \in Web!Overlay, NEW i, NEW act, Shape(o, i, act), Heeded(o),
           o.pc = "open"
    PROVE  Fine(Web!Lost(o), o, i, act)
<1> DEFINE n == Web!Lost(o)
<1>1. n \in Web!Overlay
  BY PairAssumption DEF Web!Lost, Web!Overlay, Web!Stages
<1>2. n.queue <= o.queue
  BY PairAssumption DEF Web!Lost, Web!Overlay
<1>3. n.dir = o.dir /\ (Pends(n) => Pends(o)) /\ (Opens(n) => Opens(o))
  BY DEF Web!Lost, Web!Overlay, Pends, Opens, Asking
<1>4. CameraOk(n)
  BY DEF Web!Lost, Web!Overlay, CameraOk, Shape, Core, Web!MediaStages
<1>5. Shape(n, i, act)
  BY <1>4 DEF Web!Lost, Web!Overlay, Shape, Core, Web!Alive, Asking
<1>6. Heeded(n)
  BY DEF Web!Lost, Web!Overlay, Heeded, Shape, Web!Described, Web!Alive
<1> QED  BY <1>1, <1>2, <1>3, <1>5, <1>6 DEF Fine, Steady

\* The candidates of a connection are sent.
LEMMA TrickledFine ==
    ASSUME NEW o \in Web!Overlay, NEW i, NEW act, Shape(o, i, act), Heeded(o)
    PROVE  Fine([o EXCEPT !.trickled = TRUE], o, i, act)
<1> DEFINE n == [o EXCEPT !.trickled = TRUE]
<1>1. n \in Web!Overlay
  BY PairAssumption DEF Web!Did, Web!Overlay, Web!Stages
<1>2. n.queue <= o.queue
  BY PairAssumption DEF Web!Did, Web!Overlay
<1>3. n.dir = o.dir /\ (Pends(n) => Pends(o)) /\ (Opens(n) => Opens(o))
  BY DEF Web!Did, Web!Overlay, Pends, Opens, Asking
<1>4. CameraOk(n)
  BY DEF Web!Did, Web!Overlay, CameraOk, Shape, Core, Web!MediaStages
<1>5. Shape(n, i, act)
  BY <1>4 DEF Web!Did, Web!Overlay, Shape, Core, Web!Alive, Asking
<1>6. Heeded(n)
  BY DEF Web!Did, Web!Overlay, Heeded, Shape, Web!Described, Web!Alive
<1> QED  BY <1>1, <1>2, <1>3, <1>5, <1>6 DEF Fine, Steady

\* An overlay gets a number.
LEMMA NumberedFine ==
    ASSUME NEW o \in Web!Overlay, NEW i, NEW act, Shape(o, i, act), Heeded(o),
           NEW s \in 1..MaxCalls
    PROVE  Fine([o EXCEPT !.seq = s], o, i, act)
<1> DEFINE n == [o EXCEPT !.seq = s]
<1>1. n \in Web!Overlay
  BY PairAssumption DEF Web!Did, Web!Overlay, Web!Stages
<1>2. n.queue <= o.queue
  BY PairAssumption DEF Web!Did, Web!Overlay
<1>3. n.dir = o.dir /\ (Pends(n) => Pends(o)) /\ (Opens(n) => Opens(o))
  BY DEF Web!Did, Web!Overlay, Pends, Opens, Asking
<1>4. CameraOk(n)
  BY DEF Web!Did, Web!Overlay, CameraOk, Shape, Core, Web!MediaStages
<1>5. Shape(n, i, act)
  BY <1>4 DEF Web!Did, Web!Overlay, Shape, Core, Web!Alive, Asking
<1>6. Heeded(n)
  BY DEF Web!Did, Web!Overlay, Heeded, Shape, Web!Described, Web!Alive
<1> QED  BY <1>1, <1>2, <1>3, <1>5, <1>6 DEF Fine, Steady

\* An offer is taken.
LEMMA TakeOfferFine ==
    ASSUME NEW o \in Web!Overlay, NEW i, NEW act, Shape(o, i, act), Heeded(o),
           NEW p \in Web!Packet, o.view = "mounted", i = act, o.seq # 0
    PROVE  Fine(Web!TakeOffer(o, p), o, i, act)
<1> DEFINE n == Web!TakeOffer(o, p)
<1>1. Web!Alive(o) /\ o.dir # "none"
  BY DEF Web!Alive, Shape
<1>2. CASE o.dir # "incoming" \/ o.answered
  <2>1. n = o
    BY <1>2 DEF Web!TakeOffer
  <2>2. o.queue <= o.queue
    BY PairAssumption DEF Web!Overlay
  <2> QED  BY <2>1, <2>2 DEF Fine, Steady
<1>3. CASE ~(o.dir # "incoming" \/ o.answered)
  <2>1. PICK a : /\ n = [a EXCEPT !.answered = TRUE, !.remote = p.of]
                 /\ a = IF o.stream THEN Web!Begun(Web!WithPeer(o), "setOffer")
                                    ELSE Web!Asked(o, "answerMedia")
    BY <1>3 DEF Web!TakeOffer
  <2>2. Fine(a, o, i, act)
    BY <1>1, <2>1, AskedFine, PeeredFine DEF Web!MediaStages
  <2>3. /\ a.doing \cap {"setOffer", "answerMedia"} # {}
        /\ a.pc = "none" => "answerMedia" \in a.doing
        /\ a.view = o.view
    <3>1. CASE o.stream
      BY <1>1, <2>1, <3>1, PeeredFine
    <3>2. CASE ~o.stream
      <4>1. a.doing = o.doing \cup {"answerMedia"} /\ a.view = o.view
        BY <2>1, <3>2, AskedFields DEF Web!MediaStages
      <4> QED  BY <4>1
    <3> QED  BY <3>1, <3>2
  <2>4. a \in Web!Overlay /\ Shape(a, i, act)
    BY <2>2 DEF Fine, Steady
  <2> HIDE DEF n
  <2>5. n \in Web!Overlay
    <3>1. p.of \in 0..MaxCalls
      BY DEF Web!Packet
    <3> QED  BY <2>1, <2>4, <3>1, ZenonT(120) DEF Web!Overlay
  <2>6. /\ n.doing = a.doing /\ n.pc = a.pc /\ n.twice = a.twice
        /\ n.stream = a.stream /\ n.stray = a.stray
        /\ n.dir = a.dir /\ n.seq = a.seq /\ n.view = a.view
        /\ n.ending = a.ending /\ n.phase = a.phase /\ n.ice = a.ice
        /\ n.queue = a.queue /\ n.trickled = a.trickled
        /\ n.setup = a.setup /\ n.lost = a.lost
    BY <2>1, <2>4 DEF Web!Overlay
  <2>7. CameraOk(n)
    BY <2>4, <2>6 DEF CameraOk, Shape, Core
  <2>8. Core(n)
    BY <2>4, <2>6, <2>7 DEF Core, Shape
  <2>9. n.view # "loading"
    BY <2>3, <2>6
  <2>10. Shape(n, i, act)
    BY <2>4, <2>6, <2>8, <2>9 DEF Shape, Web!Alive
  <2>11. Heeded(n)
    BY <2>3, <2>6 DEF Heeded, Web!Described
  <2>12. (Pends(n) => Pends(o)) /\ (Opens(n) => Opens(o))
    BY <2>2, <2>6 DEF Fine, Steady, Pends, Opens
  <2> QED  BY <2>2, <2>5, <2>6, <2>10, <2>11, <2>12 DEF Fine, Steady, n
<1> QED  BY <1>2, <1>3

\* An answer is taken.
LEMMA TakeAnswerFine ==
    ASSUME NEW o \in Web!Overlay, NEW i, NEW act, Shape(o, i, act), Heeded(o),
           NEW p \in Web!Packet, o.view = "mounted", i = act, o.seq # 0
    PROVE  Fine(Web!TakeAnswer(o, p), o, i, act)
<1> DEFINE n == Web!TakeAnswer(o, p)
<1>1. n \in Web!Overlay
  <2>1. CASE o.dir # "outgoing" \/ o.pc # "open" \/ o.answerSet
    BY <2>1, PairAssumption DEF Web!TakeAnswer, Web!Begun, Web!Packet, Web!Overlay, Web!Stages
  <2>2. CASE ~(o.dir # "outgoing" \/ o.pc # "open" \/ o.answerSet)
    BY <2>2, PairAssumption DEF Web!TakeAnswer, Web!Begun, Web!Packet, Web!Overlay, Web!Stages
  <2> QED  BY <2>1, <2>2
<1>2. n.queue <= o.queue
  BY PairAssumption DEF Web!TakeAnswer, Web!Begun, Web!WithPeer, Web!Packet, Web!Overlay
<1>3. n.dir = o.dir /\ (Pends(n) => Pends(o)) /\ (Opens(n) => Opens(o))
  BY DEF Web!TakeAnswer, Web!Begun, Web!WithPeer, Web!Packet, Web!Overlay, Pends, Opens, Asking
<1>4. CameraOk(n)
  BY DEF Web!TakeAnswer, Web!Begun, Web!WithPeer, Web!Packet, Web!Overlay, CameraOk, Shape, Core, Web!MediaStages
<1>5. Shape(n, i, act)
  BY <1>4 DEF Web!TakeAnswer, Web!Begun, Web!WithPeer, Web!Packet, Web!Overlay, Shape, Core, Web!Alive, Asking
<1>6. Heeded(n)
  BY DEF Web!TakeAnswer, Web!Begun, Web!WithPeer, Web!Packet, Web!Overlay, Heeded, Shape, Web!Described, Web!Alive
<1> QED  BY <1>1, <1>2, <1>3, <1>5, <1>6 DEF Fine, Steady

\* Word that the call was answered is taken.
LEMMA TakeAcceptFine ==
    ASSUME NEW o \in Web!Overlay, NEW i, NEW act, Shape(o, i, act), Heeded(o),
           o.view = "mounted", i = act, o.seq # 0
    PROVE  Fine(Web!TakeAccept(o), o, i, act)
<1> DEFINE n == Web!TakeAccept(o)
<1>1. Web!Alive(o) /\ o.dir # "none"
  BY DEF Web!Alive, Shape
<1>2. CASE o.dir # "outgoing" \/ o.offered
  <2>1. n = o
    BY <1>2 DEF Web!TakeAccept
  <2>2. o.queue <= o.queue
    BY PairAssumption DEF Web!Overlay
  <2> QED  BY <2>1, <2>2 DEF Fine, Steady
<1>3. CASE ~(o.dir # "outgoing" \/ o.offered)
  <2>1. PICK a : /\ n = [a EXCEPT !.offered = TRUE]
                 /\ a = IF o.stream THEN Web!Begun(Web!WithPeer(o), "offer")
                                    ELSE Web!Asked(o, "offerMedia")
    BY <1>3 DEF Web!TakeAccept
  <2>2. Fine(a, o, i, act)
    BY <1>1, <2>1, AskedFine, PeeredFine DEF Web!MediaStages
  <2>3. a \in Web!Overlay /\ Shape(a, i, act) /\ Heeded(a)
    BY <2>2 DEF Fine, Steady
  <2> HIDE DEF n
  <2>4. n \in Web!Overlay
    BY <2>1, <2>3, ZenonT(120) DEF Web!Overlay
  <2>5. /\ n.doing = a.doing /\ n.pc = a.pc /\ n.twice = a.twice
        /\ n.stream = a.stream /\ n.stray = a.stray /\ n.remote = a.remote
        /\ n.dir = a.dir /\ n.seq = a.seq /\ n.view = a.view
        /\ n.ending = a.ending /\ n.phase = a.phase /\ n.ice = a.ice
        /\ n.queue = a.queue /\ n.trickled = a.trickled
        /\ n.setup = a.setup /\ n.lost = a.lost
    BY <2>1, <2>3 DEF Web!Overlay
  <2>6. CameraOk(n)
    BY <2>3, <2>5 DEF CameraOk, Shape, Core
  <2>7. Core(n)
    BY <2>3, <2>5, <2>6 DEF Core, Shape
  <2>8. Shape(n, i, act)
    BY <2>3, <2>5, <2>7 DEF Shape, Web!Alive
  <2>9. Heeded(n)
    <3>1. Web!Described(n) <=> Web!Described(a)
      BY <2>5 DEF Web!Described
    <3>2. Web!Alive(n) <=> Web!Alive(a)
      BY <2>5 DEF Web!Alive
    <3> QED  BY <2>3, <2>5, <3>1, <3>2 DEF Heeded
  <2>10. (Pends(n) => Pends(o)) /\ (Opens(n) => Opens(o))
    BY <2>2, <2>5 DEF Fine, Steady, Pends, Opens
  <2> QED  BY <2>2, <2>4, <2>5, <2>8, <2>9, <2>10 DEF Fine, Steady, n
<1> QED  BY <1>2, <1>3

-----------------------------------------------------------------------------
(* Steps of the tab that are quiet *)

\* A signal that is no invitation and no candidate is quiet.
LEMMA SayQuiet ==
    ASSUME NEW t, TabOK(t),
           NEW e \in Web!Events \ {"confirm", "invite", "candidate"},
           NEW s \in 1..MaxCalls, NEW of \in 0..MaxCalls
    PROVE  LET u == Web!Say(t, e, s, of) IN TabOK(u) /\ Quiet(u, t)
<1> DEFINE u == Web!Say(t, e, s, of)
<1>1. t \in Tabs
  BY DEF TabOK
<1>2. e \in Web!Events \ {"confirm"} /\ e # "invite" /\ e # "candidate"
  OBVIOUS
<1>3. /\ u \in Tabs /\ u.all = t.all /\ u.act = t.act
      /\ \A k : Num(u.out, k) = Num(t.out, k) + (IF e = k THEN 1 ELSE 0)
  BY <1>1, <1>2, SayOK, ZenonT(60)
<1>4. \A k : Num(t.out, k) \in Nat
  BY <1>1, NumNat DEF Tabs
<1> HIDE DEF u
<1>5. Num(u.out, "invite") = Num(t.out, "invite")
      /\ Num(u.out, "candidate") = Num(t.out, "candidate")
  BY <1>2, <1>3, <1>4
<1>6. TabOK(u)
  BY <1>3 DEF TabOK
<1>7. \A i \in Web!Overlays : t.all[i].queue \in Int
  BY <1>1, PairAssumption DEF Tabs, Web!Overlay
<1>8. Quiet(u, t)
  BY <1>3, <1>5, <1>7 DEF Quiet
<1> QED  BY <1>6, <1>8 DEF u

\* A step of one overlay and the signal it sends.
LEMMA PutSay ==
    ASSUME NEW t, TabOK(t), NEW i \in Web!Overlays, NEW n, Fine(n, t.all[i], i, t.act),
           NEW e \in Web!Events \ {"confirm", "invite", "candidate"},
           NEW s \in 1..MaxCalls, NEW of \in 0..MaxCalls
    PROVE  LET u == Web!Say(Web!Put(t, i, n), e, s, of) IN TabOK(u) /\ Quiet(u, t)
<1> DEFINE p == Web!Put(t, i, n)
           u == Web!Say(p, e, s, of)
<1>1. TabOK(p) /\ Quiet(p, t)
  BY PutFine
<1> HIDE DEF p
<1>2. TabOK(u) /\ Quiet(u, p)
  BY <1>1, SayQuiet
<1>3. t \in Tabs /\ p \in Tabs /\ u \in Tabs
  BY <1>1, <1>2 DEF TabOK
<1> HIDE DEF u
<1>4. Quiet(u, t)
  BY <1>1, <1>2, <1>3, QuietTrans
<1> QED  BY <1>2, <1>4 DEF u, p

\* The overlays of the tab, one by one.
LEMMA OneOverlay ==
    ASSUME TabOK(Web!Tab), NEW i \in Web!Overlays
    PROVE  /\ overlay[i] \in Web!Overlay /\ overlay[i] = Web!Tab.all[i]
           /\ Shape(overlay[i], i, Web!Tab.act) /\ Heeded(overlay[i])
           /\ Web!Tab.act = active
BY TabFields

\* A step that puts one overlay in the place of another is quiet.
LEMMA QuietPut ==
    ASSUME TabOK(Web!Tab), NEW i \in Web!Overlays, NEW n,
           Fine(n, overlay[i], i, Web!Tab.act), Web!Becomes(Web!Put(Web!Tab, i, n))
    PROVE  WebQuietly
<1>1. Fine(n, Web!Tab.all[i], i, Web!Tab.act)
  BY OneOverlay
<1>2. TabOK(Web!Put(Web!Tab, i, n)) /\ Quiet(Web!Put(Web!Tab, i, n), Web!Tab)
  BY <1>1, PutFine
<1> QED  BY <1>2 DEF WebQuietly

\* A fine step of an overlay and a signal are quiet, unless the signal is an
\* invitation or a candidate.
LEMMA QuietPutSay ==
    ASSUME TabOK(Web!Tab), NEW i \in Web!Overlays, NEW n,
           Fine(n, overlay[i], i, Web!Tab.act),
           NEW e \in Web!Events \ {"confirm", "invite", "candidate"},
           NEW s \in 1..MaxCalls, NEW of \in 0..MaxCalls,
           Web!Becomes(Web!Say(Web!Put(Web!Tab, i, n), e, s, of))
    PROVE  WebQuietly
<1>1. Fine(n, Web!Tab.all[i], i, Web!Tab.act)
  BY OneOverlay
<1> DEFINE u == Web!Say(Web!Put(Web!Tab, i, n), e, s, of)
<1>2. TabOK(u) /\ Quiet(u, Web!Tab)
  BY <1>1, PutSay
<1> QED  BY <1>2 DEF WebQuietly

\* A step of an overlay whose call is then closed is quiet.
LEMMA QuietClose ==
    ASSUME TabOK(Web!Tab), NEW i \in Web!Overlays, NEW n,
           Steady(n, overlay[i], i, Web!Tab.act), NEW notify,
           Web!Becomes(Web!Closed(Web!Put(Web!Tab, i, n), i, notify))
    PROVE  WebQuietly
<1>1. Steady(n, Web!Tab.all[i], i, Web!Tab.act)
  BY OneOverlay
<1> DEFINE u == Web!Closed(Web!Put(Web!Tab, i, n), i, notify)
<1>2. TabOK(u) /\ Quiet(u, Web!Tab)
  BY <1>1, CloseSteady
<1> QED  BY <1>2 DEF WebQuietly

\* Closing a call is quiet.
LEMMA QuietCloseNow ==
    ASSUME TabOK(Web!Tab), NEW i \in Web!Overlays, NEW notify,
           Web!Becomes(Web!Closed(Web!Tab, i, notify))
    PROVE  WebQuietly
<1>1. AlmostOK(Web!Tab, i)
  BY OKAlmost
<1> DEFINE u == Web!Closed(Web!Tab, i, notify)
<1>2. TabOK(u) /\ Quiet(u, Web!Tab)
  BY <1>1, ClosedOK
<1> QED  BY <1>2 DEF WebQuietly

-----------------------------------------------------------------------------
(* One lemma per handler of the tab that is quiet *)

\* The user answers the incoming call (acceptVideoCall).
LEMMA AcceptQuiet ==
    ASSUME TabOK(Web!Tab), NEW i \in Web!Overlays, Web!Accept(i)
    PROVE  WebQuietly
BY OneOverlay, AcceptFine, QuietPut DEF Web!Accept

\* The user hangs up or refuses.
LEMMA HangUpQuiet ==
    ASSUME TabOK(Web!Tab), NEW i \in Web!Overlays,
           Web!HangUp(i) \/ Web!IceFailed(i) \/ Web!SetupTimeout(i)
             \/ Web!DisconnectTimeout(i)
    PROVE  WebQuietly
<1>1. Web!Becomes(Web!Closed(Web!Tab, i, TRUE))
  BY DEF Web!HangUp, Web!IceFailed, Web!SetupTimeout, Web!DisconnectTimeout
<1> QED  BY <1>1, QuietCloseNow

\* Escape takes the call off the screen without closing it.
LEMMA EscapeQuiet ==
    ASSUME TabOK(Web!Tab), Web!Escape
    PROVE  WebQuietly
<1> DEFINE u == Web!Cleared(Web!Tab)
<1>1. Clearable(Web!Tab)
  BY TabFields DEF Clearable, Shape
<1>2. TabOK(u) /\ Quiet(u, Web!Tab)
  BY <1>1, TabFields, ClearedOK
<1> QED  BY <1>2 DEF WebQuietly, Web!Escape

\* The overlay's component has loaded.
LEMMA MountQuiet ==
    ASSUME TabOK(Web!Tab), NEW i \in Web!Overlays, Web!Mount(i)
    PROVE  WebQuietly
<1> DEFINE act == Web!Tab.act
           o == overlay[i]
           n == [o EXCEPT !.view = "mounted", !.setup = TRUE]
           m == Web!Asked(n, "startMedia")
<1>1. o \in Web!Overlay /\ Shape(o, i, act) /\ Heeded(o) /\ o.view = "loading"
  BY OneOverlay DEF Web!Mount
<1>2. n.dir = o.dir /\ n.seq = o.seq
  BY <1>1 DEF Web!Overlay
<1>3. CASE n.dir = "outgoing" /\ Web!Becomes(Web!Put(Web!Tab, i, m))
  <2>1. Fine(m, o, i, act)
    BY <1>1, <1>2, <1>3, MountOutFine
  <2> QED  BY <1>3, <2>1, QuietPut
<1>4. CASE /\ n.dir = "incoming"
           /\ Web!Becomes(Web!Say(Web!Put(Web!Tab, i, n), "ringing", n.seq, 0))
  <2>1. Fine(n, o, i, act)
    BY <1>1, <1>2, <1>4, MountInFine
  <2>2. n.seq \in 1..MaxCalls /\ 0 \in 0..MaxCalls
        /\ "ringing" \in Web!Events \ {"confirm", "invite", "candidate"}
    BY <1>1, <1>2, <1>4, PairAssumption DEF Shape, Core, Web!Overlay, Web!Events
  <2> QED  BY <1>4, <2>1, <2>2, QuietPutSay
<1>5. CASE /\ n.dir = "incoming"
           /\ Web!Becomes(Web!Failed(Web!Put(Web!Tab, i, n), i))
  <2>1. Steady(n, o, i, act)
    BY <1>1, <1>2, <1>5, MountInFine DEF Fine
  <2> QED  BY <1>5, <2>1, QuietClose DEF Web!Failed
<1> QED  BY <1>3, <1>4, <1>5 DEF Web!Mount

\* The camera opens, in time or too late.
LEMMA MediaOpensQuiet ==
    ASSUME TabOK(Web!Tab), NEW i \in Web!Overlays, NEW stage, Web!MediaOpens(i, stage)
    PROVE  WebQuietly
<1> DEFINE act == Web!Tab.act
           o == overlay[i]
           w == Web!WithStream(Web!Did(o, stage))
           n == Web!AfterMedia(w, stage)
<1>1. /\ o \in Web!Overlay /\ Shape(o, i, act) /\ Heeded(o)
      /\ stage \in o.doing \cap Web!MediaStages
  BY OneOverlay DEF Web!MediaOpens
<1>2. Web!Alive(w) <=> Web!Alive(o)
  BY <1>1 DEF Web!Alive, Web!WithStream, Web!Did, Web!Overlay
<1>3. w.seq = o.seq
  BY <1>1 DEF Web!WithStream, Web!Did, Web!Overlay
<1>4. CASE /\ ~Web!Alive(w)
           /\ Web!Becomes(Web!Closed(Web!Put(Web!Tab, i, w), i, stage # "startMedia"))
  <2>1. Steady(w, o, i, act)
    BY <1>1, <1>2, <1>4, LateSteady
  <2>2. PICK notify : Web!Becomes(Web!Closed(Web!Put(Web!Tab, i, w), i, notify))
    BY <1>4
  <2> QED  BY <2>1, <2>2, QuietClose
<1>5. CASE Web!Alive(w)
  <2>1. Fine(n, o, i, act)
    BY <1>1, <1>2, <1>5, AfterMediaFine
  <2>2. CASE Web!Becomes(Web!Put(Web!Tab, i, n))
    BY <2>1, <2>2, QuietPut
  <2>3. CASE /\ stage = "acceptMedia"
             /\ Web!Becomes(Web!Say(Web!Put(Web!Tab, i, n), "accept", w.seq, 0))
    <3>1. w.seq \in 1..MaxCalls /\ 0 \in 0..MaxCalls
          /\ "accept" \in Web!Events \ {"confirm", "invite", "candidate"}
      BY <1>1, <1>3, <2>3, PairAssumption DEF Shape, Core, Asking, Web!Overlay, Web!Events
    <3> QED  BY <2>1, <2>3, <3>1, QuietPutSay
  <2>4. CASE Web!Becomes(Web!Failed(Web!Put(Web!Tab, i, n), i))
    BY <2>1, <2>4, QuietClose DEF Web!Failed, Fine
  <2> QED  BY <1>5, <2>2, <2>3, <2>4 DEF Web!MediaOpens
<1> QED  BY <1>4, <1>5 DEF Web!MediaOpens

\* The camera does not open: the call is closed.
LEMMA MediaFailsQuiet ==
    ASSUME TabOK(Web!Tab), NEW i \in Web!Overlays, NEW stage, Web!MediaFails(i, stage)
    PROVE  WebQuietly
<1> DEFINE n == Web!Did(overlay[i], stage)
<1>1. Steady(n, overlay[i], i, Web!Tab.act)
  BY OneOverlay, DidSteady
<1>2. PICK notify : Web!Becomes(Web!Closed(Web!Put(Web!Tab, i, n), i, notify))
  BY DEF Web!MediaFails
<1> QED  BY <1>1, <1>2, QuietClose

\* The local description is set, or refused.
LEMMA DescribeQuiet ==
    ASSUME TabOK(Web!Tab), NEW i \in Web!Overlays, NEW stage, Web!Describe(i, stage)
    PROVE  WebQuietly
<1> DEFINE act == Web!Tab.act
           o == overlay[i]
           d == Web!Did(o, stage)
           n == [d EXCEPT !.local = TRUE]
<1>1. /\ o \in Web!Overlay /\ Shape(o, i, act) /\ Heeded(o)
      /\ stage \in o.doing /\ stage \in {"offer", "answer"}
  BY OneOverlay DEF Web!Describe
<1>2. d.pc = o.pc /\ d.seq = o.seq
  BY <1>1 DEF Web!Did, Web!Overlay
<1>3. Steady(d, o, i, act)
  BY <1>1, DidSteady
<1>4. CASE d.pc # "open" /\ Web!Becomes(Web!Failed(Web!Put(Web!Tab, i, d), i))
  BY <1>3, <1>4, QuietClose DEF Web!Failed
<1>5. CASE d.pc = "open"
  <2>1. Fine(n, o, i, act)
    BY <1>1, <1>2, <1>5, DescribedFine
  <2>2. CASE Web!Becomes(Web!Say(Web!Put(Web!Tab, i, n), stage, d.seq, i))
    <3>1. d.seq \in 1..MaxCalls /\ i \in 0..MaxCalls
          /\ stage \in Web!Events \ {"confirm", "invite", "candidate"}
      BY <1>1, <1>2, PairAssumption
         DEF Shape, Core, Asking, Web!Overlay, Web!Overlays, Web!Events
    <3> QED  BY <2>1, <2>2, <3>1, QuietPutSay
  <2>3. CASE Web!Becomes(Web!Failed(Web!Put(Web!Tab, i, n), i))
    BY <2>1, <2>3, QuietClose DEF Web!Failed, Fine
  <2> QED  BY <1>5, <2>2, <2>3 DEF Web!Describe
<1> QED  BY <1>4, <1>5 DEF Web!Describe

\* The remote description is set, or refused.
LEMMA SetRemoteQuiet ==
    ASSUME TabOK(Web!Tab), NEW i \in Web!Overlays, NEW stage, Web!SetRemote(i, stage)
    PROVE  WebQuietly
<1> DEFINE act == Web!Tab.act
           o == overlay[i]
           n == Web!RemoteSet(o, stage)
           d == Web!Did(o, stage)
<1>1. /\ o \in Web!Overlay /\ Shape(o, i, act) /\ Heeded(o)
      /\ stage \in o.doing \cap {"setOffer", "setAnswer"}
  BY OneOverlay DEF Web!SetRemote
<1>2. CASE o.pc = "open"
  <2>1. Fine(n, o, i, act)
    BY <1>1, <1>2, RemoteSetFine
  <2>2. Web!Becomes(Web!Put(Web!Tab, i, n))
    BY <1>2 DEF Web!SetRemote
  <2> QED  BY <2>1, <2>2, QuietPut
<1>3. CASE o.pc # "open"
  <2>1. Steady(d, o, i, act)
    BY <1>1, DidSteady
  <2>2. Web!Becomes(Web!Closed(Web!Put(Web!Tab, i, d), i, TRUE))
    BY <1>3 DEF Web!SetRemote, Web!Failed
  <2> QED  BY <2>1, <2>2, QuietClose
<1> QED  BY <1>2, <1>3

\* The connection reports its state.
LEMMA IceQuiet ==
    ASSUME TabOK(Web!Tab), NEW i \in Web!Overlays,
           Web!IceConnected(i) \/ Web!IceDisconnected(i)
    PROVE  WebQuietly
<1> DEFINE act == Web!Tab.act
           o == overlay[i]
           n == [o EXCEPT !.ice = "connected", !.setup = FALSE, !.lost = FALSE]
<1>1. o \in Web!Overlay /\ Shape(o, i, act) /\ Heeded(o) /\ o.pc = "open"
  BY OneOverlay DEF Web!IceConnected, Web!IceDisconnected
<1>2. CASE Web!Becomes(Web!Put(Web!Tab, i, n))
  BY <1>1, <1>2, ConnectedFine, QuietPut
<1>3. CASE Web!Becomes(Web!Put(Web!Tab, i, Web!Lost(o)))
  BY <1>1, <1>3, LostFine, QuietPut
<1> QED  BY <1>2, <1>3 DEF Web!IceConnected, Web!IceDisconnected

-----------------------------------------------------------------------------
(* The tab's effect on the counts *)

\* A set of overlays is finite, and a smaller one has no more of them.
LEMMA CountOverlays ==
    ASSUME NEW A, NEW B, A \subseteq Web!Overlays, B \subseteq Web!Overlays
    PROVE  /\ IsFiniteSet(A) /\ Cardinality(A) \in Nat /\ Cardinality(A) <= MaxCalls
           /\ A \subseteq B => Cardinality(A) <= Cardinality(B)
           /\ \A i : A \subseteq B \cup {i} => Cardinality(A) <= Cardinality(B) + 1
           /\ \A i \in B : A \subseteq B \ {i} => Cardinality(A) <= Cardinality(B) - 1
<1>1. IsFiniteSet(Web!Overlays) /\ Cardinality(Web!Overlays) = MaxCalls
  BY FS_Interval, PairAssumption DEF Web!Overlays
<1>2. IsFiniteSet(A) /\ IsFiniteSet(B) /\ Cardinality(A) <= MaxCalls
  BY <1>1, FS_Subset
<1>3. Cardinality(A) \in Nat /\ Cardinality(B) \in Nat
  BY <1>2, FS_CardinalityType
<1>4. ASSUME A \subseteq B PROVE Cardinality(A) <= Cardinality(B)
  BY <1>2, <1>4, FS_Subset
<1>5. ASSUME NEW i, A \subseteq B \cup {i} PROVE Cardinality(A) <= Cardinality(B) + 1
  <2>1. /\ IsFiniteSet(B \cup {i})
        /\ Cardinality(B \cup {i}) = IF i \in B THEN Cardinality(B) ELSE Cardinality(B) + 1
    BY <1>2, FS_AddElement
  <2>2. Cardinality(A) <= Cardinality(B \cup {i})
    BY <1>5, <2>1, FS_Subset
  <2> QED  BY <1>3, <2>1, <2>2
<1>6. ASSUME NEW i \in B, A \subseteq B \ {i} PROVE Cardinality(A) <= Cardinality(B) - 1
  <2>1. IsFiniteSet(B \ {i}) /\ Cardinality(B \ {i}) = Cardinality(B) - 1
    BY <1>2, FS_RemoveElement
  <2>2. Cardinality(A) <= Cardinality(B \ {i})
    BY <1>6, <2>1, FS_Subset
  <2> QED  BY <1>3, <2>1, <2>2
<1> QED  BY <1>2, <1>3, <1>4, <1>5, <1>6

\* The three sets of overlays are sets of overlays.
LEMMA OverlaySets ==
    ASSUME NEW all
    PROVE  /\ Used(all) \subseteq Web!Overlays
           /\ WebPending(all) \subseteq Web!Overlays
           /\ CanTrickle(all) \subseteq Web!Overlays
BY DEF Used, WebPending, CanTrickle

\* A quiet change counts no more than before.
LEMMA QuietCounts ==
    ASSUME NEW t, NEW u, Quiet(t, u)
    PROVE  /\ Cardinality(Used(t.all)) <= Cardinality(Used(u.all))
           /\ Cardinality(WebPending(t.all)) <= Cardinality(WebPending(u.all))
           /\ Cardinality(CanTrickle(t.all)) <= Cardinality(CanTrickle(u.all))
<1>1. /\ Used(t.all) \subseteq Used(u.all)
      /\ WebPending(t.all) \subseteq WebPending(u.all)
      /\ CanTrickle(t.all) \subseteq CanTrickle(u.all)
  BY DEF Quiet, Used, WebPending, CanTrickle
<1> QED  BY <1>1, OverlaySets, CountOverlays

\* The tab becomes a value that is in order, and sends what it says.
LEMMA TabBecomes ==
    ASSUME NEW t, TabOK(t), Web!Becomes(t), toPhone \in Seq(Web!Packet)
    PROVE  /\ TabOK(Web!Tab)'
           /\ overlay' = t.all /\ active' = t.act
           /\ toPhone' \in Seq(Web!Packet)
           /\ \A e : Num(toPhone', e) = Num(toPhone, e) + Num(t.out, e)
<1>1. /\ t \in Tabs
      /\ \A i \in Web!Overlays : Shape(t.all[i], i, t.act) /\ Heeded(t.all[i])
  BY DEF TabOK
<1>2. overlay' = t.all /\ active' = t.act /\ toPhone' = toPhone \o t.out
  BY DEF Web!Becomes
<1>3. t.out \in Seq(Web!Packet)
  <2>1. t.out \in Seq(Spoken) /\ Spoken \subseteq Web!Packet
    BY <1>1 DEF Tabs, Spoken
  <2> QED  BY <2>1
<1>4. toPhone' \in Seq(Web!Packet)
  BY <1>2, <1>3
<1>5. \A e : Num(toPhone', e) = Num(toPhone, e) + Num(t.out, e)
  BY <1>2, <1>3, NumConcat
<1>6. TabOK([all |-> t.all, act |-> t.act, out |-> <<>>])
  <2> DEFINE v == [all |-> t.all, act |-> t.act, out |-> <<>>]
  <2>1. v.all = t.all /\ v.act = t.act
    OBVIOUS
  <2>2. v \in Tabs
    BY <1>1 DEF Tabs
  <2> HIDE DEF v
  <2>3. TabOK(v)
    BY <1>1, <2>1, <2>2 DEF TabOK
  <2> QED  BY <2>3 DEF v
<1>7. Web!Tab' = [all |-> t.all, act |-> t.act, out |-> <<>>]
  BY <1>2 DEF Web!Tab
<1>8. TabOK(Web!Tab')
  BY <1>6, <1>7
<1> QED  BY <1>2, <1>4, <1>5, <1>8

\* What a quiet handler does to the counts: none of them grows.
LEMMA WebQuietCounts ==
    ASSUME WebQuietly, TabOK(Web!Tab), toPhone \in Seq(Web!Packet)
    PROVE  /\ TabOK(Web!Tab)' /\ toPhone' \in Seq(Web!Packet)
           /\ Cardinality(Used(overlay')) <= Cardinality(Used(overlay))
           /\ Cardinality(WebPending(overlay')) <= Cardinality(WebPending(overlay))
           /\ Cardinality(CanTrickle(overlay')) <= Cardinality(CanTrickle(overlay))
           /\ Num(toPhone', "invite") = Num(toPhone, "invite")
           /\ Num(toPhone', "candidate") = Num(toPhone, "candidate")
           /\ \A i \in Web!Overlays : overlay'[i].queue <= overlay[i].queue
<1>1. PICK t : TabOK(t) /\ Quiet(t, Web!Tab) /\ Web!Becomes(t)
  BY DEF WebQuietly
<1>2. /\ TabOK(Web!Tab)' /\ toPhone' \in Seq(Web!Packet)
      /\ overlay' = t.all
      /\ \A e : Num(toPhone', e) = Num(toPhone, e) + Num(t.out, e)
  BY <1>1, TabBecomes
<1>3. Web!Tab.all = overlay /\ Web!Tab.out = <<>>
  BY DEF Web!Tab
<1>4. /\ Cardinality(Used(t.all)) <= Cardinality(Used(overlay))
      /\ Cardinality(WebPending(t.all)) <= Cardinality(WebPending(overlay))
      /\ Cardinality(CanTrickle(t.all)) <= Cardinality(CanTrickle(overlay))
  BY <1>1, <1>3, QuietCounts
<1>5. /\ Num(t.out, "invite") = 0 /\ Num(t.out, "candidate") = 0
      /\ \A i \in Web!Overlays : t.all[i].queue <= overlay[i].queue
  <2>1. \A e : Num(<<>>, e) = 0
    BY NumSmall
  <2>2. /\ Num(t.out, "invite") = Num(Web!Tab.out, "invite")
        /\ Num(t.out, "candidate") = Num(Web!Tab.out, "candidate")
    BY <1>1 DEF Quiet
  <2>3. \A i \in Web!Overlays : t.all[i].queue <= Web!Tab.all[i].queue
    BY <1>1 DEF Quiet
  <2> QED  BY <1>3, <2>1, <2>2, <2>3
<1>6. \A e : Num(toPhone, e) \in Nat
  BY NumNat
<1>7. Num(toPhone', "invite") = Num(toPhone, "invite")
      /\ Num(toPhone', "candidate") = Num(toPhone, "candidate")
  BY <1>2, <1>5, <1>6
<1> QED  BY <1>2, <1>4, <1>5, <1>7

-----------------------------------------------------------------------------
(* Steps of the tab that are not quiet *)

\* A new overlay takes the first free place.
LEMMA NewOverlayOK ==
    ASSUME NEW t, TabOK(t), t.act = 0,
           \A j \in Web!Overlays : t.all[j].dir = overlay[j].dir,
           Web!FreeOverlay # {}, NEW dir \in {"incoming", "outgoing"},
           NEW s \in 0..MaxCalls, dir = "incoming" => s # 0
    PROVE  LET u == Web!NewOverlay(t, dir, s) IN
           /\ TabOK(u) /\ u.out = t.out
           /\ Cardinality(Used(u.all)) <= Cardinality(Used(t.all)) + 1
           /\ Cardinality(WebPending(u.all)) <= Cardinality(WebPending(t.all))
                 + (IF dir = "incoming" THEN 0 ELSE 1)
           /\ Cardinality(CanTrickle(u.all)) <= Cardinality(CanTrickle(t.all))
           /\ \A j \in Web!Overlays : u.all[j].queue <= t.all[j].queue
<1> DEFINE c == CHOOSE i \in Web!FreeOverlay : \A j \in Web!FreeOverlay : i <= j
<1>0. PICK i : i = c
  OBVIOUS
<1>1. i \in Web!FreeOverlay
  <2>1. Web!FreeOverlay \subseteq Nat
    BY DEF Web!FreeOverlay, Web!Overlays
  <2> DEFINE Less == {ss \in Nat \X Nat : ss[1] < ss[2]}
  <2>a. IsWellFoundedOn(Less, Nat)
    BY NatLessThanWellFounded DEF OpToRel
  <2> HIDE DEF Less
  <2>2. PICK x \in Web!FreeOverlay : \A y \in Web!FreeOverlay : ~(<<y, x>> \in Less)
    BY <2>1, <2>a, WFMin
  <2>3. \A y \in Web!FreeOverlay : x <= y
    <3> TAKE y \in Web!FreeOverlay
    <3>1. x \in Nat /\ y \in Nat
      BY <2>1
    <3>2. ~(y < x)
      BY <2>2, <3>1 DEF Less
    <3> QED  BY <3>1, <3>2
  <2> QED  BY <1>0, <2>3
<1>2. i \in Web!Overlays /\ overlay[i].dir = "none"
  BY <1>1 DEF Web!FreeOverlay
<1>a. PICK ph \in {"incoming", "setup"} : ph = IF dir = "incoming" THEN "incoming" ELSE "setup"
  OBVIOUS
<1> DEFINE n == [Web!NoOverlay EXCEPT
                 !.dir = dir, !.seq = s, !.view = "loading", !.phase = ph]
           p == Web!Put(t, i, n)
           u == [p EXCEPT !.act = i]
<1>3. Web!NewOverlay(t, dir, s) = u
  BY <1>0, <1>a DEF Web!NewOverlay
<1>4. /\ n \in Web!Overlay /\ n.dir = dir /\ n.seq = s /\ n.view = "loading"
      /\ n.phase = IF dir = "incoming" THEN "incoming" ELSE "setup"
      /\ n.ending = FALSE /\ n.stream = FALSE /\ n.pc = "none" /\ n.ice = "new"
      /\ n.remote = 0 /\ n.queue = 0 /\ n.setup = FALSE /\ n.lost = FALSE
      /\ n.doing = {} /\ n.stray = FALSE
  <2>1. Web!NoOverlay \in Web!Overlay
    BY PairAssumption DEF Web!NoOverlay, Web!Overlay
  <2>2. n \in Web!Overlay
    BY <2>1, PairAssumption, ZenonT(60) DEF Web!Overlay
  <2>3. /\ n.dir = dir /\ n.seq = s /\ n.view = "loading"
        /\ n.phase = IF dir = "incoming" THEN "incoming" ELSE "setup"
    BY <1>a, <2>1 DEF Web!Overlay
  <2>4. /\ n.ending = FALSE /\ n.stream = FALSE /\ n.pc = "none" /\ n.ice = "new"
        /\ n.remote = 0 /\ n.queue = 0 /\ n.setup = FALSE /\ n.lost = FALSE
        /\ n.doing = {} /\ n.stray = FALSE
    BY DEF Web!NoOverlay
  <2> QED  BY <2>2, <2>3, <2>4
<1> HIDE DEF n
<1>5. /\ t \in Tabs
      /\ \A j \in Web!Overlays : Shape(t.all[j], j, t.act) /\ Heeded(t.all[j])
  BY DEF TabOK
<1>6. /\ p \in Tabs /\ p.out = t.out /\ p.all[i] = n
      /\ \A j \in Web!Overlays : j # i => p.all[j] = t.all[j]
  BY <1>2, <1>4, <1>5, PutFields
<1> HIDE DEF p
<1>7. u \in Tabs /\ u.act = i /\ u.out = t.out /\ u.all = p.all
  BY <1>2, <1>6 DEF Tabs, Web!Overlays
<1> HIDE DEF u
<1>8. Core(n) /\ ~Web!Alive(n) /\ Heeded(n)
  BY <1>4 DEF Core, CameraOk, Asking, Web!Alive, Heeded, Web!Described
<1>9. Shape(n, i, i)
  BY <1>4, <1>8 DEF Shape
<1>10. i # 0
  BY <1>2 DEF Web!Overlays
<1>11. ASSUME NEW j \in Web!Overlays, j # i PROVE Shape(t.all[j], j, i)
  <2>1. j # 0
    BY DEF Web!Overlays
  <2>2. Shape(t.all[j], j, 0)
    BY <1>5
  <2> QED  BY <1>11, <2>1, <2>2 DEF Shape
<1>12. TabOK(u)
  <2>1. ASSUME NEW j \in Web!Overlays PROVE Shape(u.all[j], j, u.act) /\ Heeded(u.all[j])
    <3>1. CASE j = i
      BY <3>1, <1>6, <1>7, <1>8, <1>9
    <3>2. CASE j # i
      BY <3>2, <1>5, <1>6, <1>7, <1>11
    <3> QED  BY <3>1, <3>2
  <2> QED  BY <1>7, <2>1 DEF TabOK
<1>13. \A j \in Web!Overlays : u.all[j].queue <= t.all[j].queue
  <2> TAKE j \in Web!Overlays
  <2>1. t.all[j].queue \in 0..MaxCalls
    BY <1>5 DEF Tabs, Web!Overlay
  <2>2. u.all[j].queue \in {0, t.all[j].queue}
    BY <1>4, <1>6, <1>7
  <2> QED  BY <2>1, <2>2, PairAssumption
<1>14. Used(u.all) \subseteq Used(t.all) \cup {i}
  BY <1>6, <1>7 DEF Used
<1>15. WebPending(u.all) \subseteq WebPending(t.all) \cup {i}
  BY <1>6, <1>7 DEF WebPending
<1>16. dir = "incoming" => WebPending(u.all) \subseteq WebPending(t.all)
  BY <1>4, <1>6, <1>7 DEF WebPending, Pends
<1>17. CanTrickle(u.all) \subseteq CanTrickle(t.all)
  <2>1. Opens(t.all[i])
    BY <1>2, <1>5 DEF Opens, Shape, Core
  <2> QED  BY <1>6, <1>7, <2>1 DEF CanTrickle
<1>18. Cardinality(Used(u.all)) <= Cardinality(Used(t.all)) + 1
       /\ Cardinality(CanTrickle(u.all)) <= Cardinality(CanTrickle(t.all))
  BY <1>14, <1>17, OverlaySets, CountOverlays
<1>19. Cardinality(WebPending(u.all)) <= Cardinality(WebPending(t.all))
          + (IF dir = "incoming" THEN 0 ELSE 1)
  <2>1. CASE dir = "incoming"
    <3>1. Cardinality(WebPending(u.all)) <= Cardinality(WebPending(t.all))
          /\ Cardinality(WebPending(t.all)) \in Nat
      BY <2>1, <1>16, OverlaySets, CountOverlays
    <3> QED  BY <2>1, <3>1
  <2>2. CASE dir # "incoming"
    <3>1. Cardinality(WebPending(u.all)) <= Cardinality(WebPending(t.all)) + 1
      BY <1>15, OverlaySets, CountOverlays
    <3> QED  BY <2>2, <3>1
  <2> QED  BY <2>1, <2>2
<1> QED  BY <1>3, <1>7, <1>12, <1>13, <1>18, <1>19

-----------------------------------------------------------------------------
(* The handlers of the tab, with what they do to the counts *)

\* The phone keeps its store while the tab steps.
LEMMA PhoneKept ==
    ASSUME StoreOK(Phone!Store), UNCHANGED phoneVars
    PROVE  /\ StoreOK(Phone!Store)'
           /\ call' = call /\ device' = device /\ conn' = conn /\ tasks' = tasks
           /\ made' = made
           /\ Slack(call, device, conn)' = Slack(call, device, conn)
           /\ PhonePending(tasks)' = PhonePending(tasks)
<1>1. /\ call' = call /\ device' = device /\ conn' = conn /\ tasks' = tasks
      /\ made' = made
  BY DEF phoneVars
<1>2. Phone!Store' = Phone!Store
  BY <1>1 DEF Phone!Store
<1>3. StoreOK(Phone!Store)'
  BY <1>2
<1> QED  BY <1>1, <1>3

\* The counts are numbers.
LEMMA CountsNat ==
    ASSUME IInv
    PROVE  /\ \A e : Num(toWeb, e) \in Nat /\ Num(toPhone, e) \in Nat
           /\ Cardinality(Used(overlay)) \in Nat
           /\ Cardinality(WebPending(overlay)) \in Nat
           /\ Cardinality(CanTrickle(overlay)) \in Nat
           /\ Cardinality(PhonePending(tasks)) \in Nat
           /\ Slack(call, device, conn) \in {0, 1}
           /\ \A i \in Web!Overlays : overlay[i].queue \in 0..MaxCalls
           /\ device.queue \in 0..MaxCalls
<1>1. \A e : Num(toWeb, e) \in Nat /\ Num(toPhone, e) \in Nat
  BY NumNat DEF IInv, Scalars, TabInbox, PhoneInbox
<1>2. /\ Cardinality(Used(overlay)) \in Nat
      /\ Cardinality(WebPending(overlay)) \in Nat
      /\ Cardinality(CanTrickle(overlay)) \in Nat
  BY OverlaySets, CountOverlays
<1>3. Cardinality(PhonePending(tasks)) \in Nat
  <2>1. IsFiniteSet(tasks) /\ PhonePending(tasks) \in SUBSET tasks
    BY DEF IInv, StoreOK, Phone!Store, PhonePending
  <2> QED  BY <2>1, FS_Subset, FS_CardinalityType
<1>4. Slack(call, device, conn) \in {0, 1}
  BY DEF Slack
<1>5. \A i \in Web!Overlays : overlay[i].queue \in 0..MaxCalls
  BY TabFields DEF IInv, Web!Overlay
<1>6. device.queue \in 0..MaxCalls
  BY DEF IInv, StoreOK, Stores, Phone!Store, Phone!Device
<1> QED  BY <1>1, <1>2, <1>3, <1>4, <1>5, <1>6

\* A step of the tab that counts no more than before keeps the invariant.
LEMMA WebQuietStep ==
    ASSUME IInv, WebQuietly, UNCHANGED phoneVars,
           UNCHANGED <<dialing, lastSeq, dialed>>, faults' \in 0..MaxFaults,
           TabInbox',
           Num(toWeb', "invite") <= Num(toWeb, "invite"),
           Num(toWeb', "candidate") <= Num(toWeb, "candidate")
    PROVE  IInv'
<1>1. TabOK(Web!Tab) /\ StoreOK(Phone!Store) /\ Scalars /\ Counts
  BY DEF IInv
<1>2. /\ TabOK(Web!Tab)' /\ toPhone' \in Seq(Web!Packet)
      /\ Cardinality(Used(overlay')) <= Cardinality(Used(overlay))
      /\ Cardinality(WebPending(overlay')) <= Cardinality(WebPending(overlay))
      /\ Cardinality(CanTrickle(overlay')) <= Cardinality(CanTrickle(overlay))
      /\ Num(toPhone', "invite") = Num(toPhone, "invite")
      /\ Num(toPhone', "candidate") = Num(toPhone, "candidate")
      /\ \A i \in Web!Overlays : overlay'[i].queue <= overlay[i].queue
  BY <1>1, WebQuietCounts DEF Scalars, PhoneInbox
<1>3. /\ StoreOK(Phone!Store)'
      /\ call' = call /\ device' = device /\ conn' = conn /\ tasks' = tasks
      /\ made' = made
      /\ Slack(call, device, conn)' = Slack(call, device, conn)
      /\ PhonePending(tasks)' = PhonePending(tasks)
  BY <1>1, PhoneKept
<1>4. Scalars'
  BY <1>1, <1>2, <1>3 DEF Scalars, PhoneInbox
<1>5. /\ Num(toWeb', "invite") \in Nat /\ Num(toWeb', "candidate") \in Nat
      /\ Cardinality(Used(overlay')) \in Nat
      /\ Cardinality(WebPending(overlay')) \in Nat
      /\ Cardinality(CanTrickle(overlay')) \in Nat
      /\ \A i \in Web!Overlays : overlay'[i].queue \in 0..MaxCalls
  <2>1. Web!Tab' \in Tabs /\ Web!Tab'.all = overlay'
    BY <1>2 DEF TabOK, Web!Tab
  <2>2. \A i \in Web!Overlays : overlay'[i].queue \in 0..MaxCalls
    BY <2>1 DEF Tabs, Web!Overlay
  <2> QED  BY <2>2, <1>2, NumNat, OverlaySets, CountOverlays DEF TabInbox
<1>a. /\ dialing \in Nat /\ dialed \in Nat /\ made \in Nat /\ lastSeq \in Nat
      /\ Num(toWeb, "invite") \in Nat /\ Num(toWeb, "candidate") \in Nat
      /\ Num(toPhone, "invite") \in Nat /\ Num(toPhone, "candidate") \in Nat
      /\ Cardinality(Used(overlay)) \in Nat
      /\ Cardinality(WebPending(overlay)) \in Nat
      /\ Cardinality(CanTrickle(overlay)) \in Nat
      /\ Cardinality(PhonePending(tasks)) \in Nat
      /\ device.queue \in 0..MaxCalls
  BY <1>1, CountsNat DEF Scalars
<1>b. /\ dialing' = dialing /\ lastSeq' = lastSeq /\ dialed' = dialed
      /\ made' = made /\ device' = device
      /\ Cardinality(PhonePending(tasks')) = Cardinality(PhonePending(tasks))
  BY <1>3
<1>c. /\ Cardinality(Used(overlay')) <= Cardinality(Used(overlay))
      /\ Cardinality(WebPending(overlay')) <= Cardinality(WebPending(overlay))
      /\ Cardinality(CanTrickle(overlay')) <= Cardinality(CanTrickle(overlay))
      /\ Num(toPhone', "invite") = Num(toPhone, "invite")
      /\ Num(toPhone', "candidate") = Num(toPhone, "candidate")
      /\ Num(toWeb', "invite") \in Nat /\ Num(toWeb', "candidate") \in Nat
      /\ Cardinality(Used(overlay')) \in Nat
      /\ Cardinality(WebPending(overlay')) \in Nat
      /\ Cardinality(CanTrickle(overlay')) \in Nat
  BY <1>2, <1>5
<1>d. OverlaysDialed /\ CallsDialed /\ NumbersDialed /\ CandidatesOpen
  BY <1>1 DEF Counts
<1>6. OverlaysDialed'
  BY <1>a, <1>b, <1>c, <1>d DEF OverlaysDialed
<1>7. CallsDialed'
  BY <1>a, <1>b, <1>c, <1>d DEF CallsDialed
<1>8. NumbersDialed'
  BY <1>a, <1>b, <1>c, <1>d DEF NumbersDialed
<1>9. CandidatesMade'
  <2> SUFFICES ASSUME NEW i \in Web!Overlays
               PROVE  overlay'[i].queue + Num(toWeb', "candidate")
                         + Slack(call, device, conn)' <= made'
    BY DEF CandidatesMade
  <2>1. overlay[i].queue + Num(toWeb, "candidate") + Slack(call, device, conn) <= made
    BY <1>1 DEF Counts, CandidatesMade
  <2>2. overlay[i].queue \in 0..MaxCalls /\ Slack(call, device, conn) \in {0, 1}
    BY CountsNat
  <2>3. overlay'[i].queue <= overlay[i].queue /\ overlay'[i].queue \in 0..MaxCalls
    BY <1>2, <1>5
  <2>4. Slack(call, device, conn)' = Slack(call, device, conn)
    BY <1>3
  <2> QED  BY <1>a, <1>b, <1>c, <2>1, <2>2, <2>3, <2>4, PairAssumption
<1>10. CandidatesOpen'
  BY <1>a, <1>b, <1>c, <1>d, PairAssumption DEF CandidatesOpen
<1> QED  BY <1>2, <1>3, <1>4, <1>6, <1>7, <1>8, <1>9, <1>10 DEF IInv, Counts

-----------------------------------------------------------------------------
\* The conjuncts that a step has to give back, and what they are made of.
LEMMA Parts ==
    ASSUME IInv
    PROVE  /\ TabOK(Web!Tab) /\ StoreOK(Phone!Store) /\ TabInbox /\ PhoneInbox
           /\ dialing \in Nat /\ dialed \in 0..MaxCalls /\ dialed \in Nat
           /\ faults \in 0..MaxFaults /\ made \in Nat /\ lastSeq \in Nat
           /\ OverlaysDialed /\ CallsDialed /\ NumbersDialed
           /\ CandidatesMade /\ CandidatesOpen
BY DEF IInv, Scalars, Counts

\* The parts of the invariant make it up.
LEMMA PartsBack ==
    ASSUME TabOK(Web!Tab)', StoreOK(Phone!Store)', TabInbox', PhoneInbox',
           dialing' \in Nat, dialed' \in 0..MaxCalls, faults' \in 0..MaxFaults,
           made' \in Nat, lastSeq' \in Nat,
           OverlaysDialed', CallsDialed', NumbersDialed', CandidatesMade',
           CandidatesOpen'
    PROVE  IInv'
BY DEF IInv, Scalars, Counts

\* A handler uses up one fault or none.
Faulty == faults' = faults \/ (faults < MaxFaults /\ faults' = faults + 1)

\* A fault stays within the budget of faults.
LEMMA FaultyOK ==
    ASSUME faults \in 0..MaxFaults, Faulty
    PROVE  faults' \in 0..MaxFaults
BY PairAssumption DEF Faulty

\* A step of the tab that is not quiet: by how much it may change the counts.
LEMMA WebCountedStep ==
    ASSUME IInv, UNCHANGED phoneVars, TabOK(Web!Tab)', TabInbox', PhoneInbox',
           dialing' \in Nat, dialed' \in 0..MaxCalls, faults' \in 0..MaxFaults,
           lastSeq' \in Nat,
           Cardinality(Used(overlay')) + dialing' + Num(toWeb', "invite") - dialed'
              <= Cardinality(Used(overlay)) + dialing + Num(toWeb, "invite") - dialed,
           dialing' + Num(toPhone', "invite") + Cardinality(WebPending(overlay')) - dialed'
              <= dialing + Num(toPhone, "invite") + Cardinality(WebPending(overlay)) - dialed,
           lastSeq' + dialing' + Cardinality(WebPending(overlay')) - dialed'
              <= lastSeq + dialing + Cardinality(WebPending(overlay)) - dialed,
           \A i \in Web!Overlays :
              overlay'[i].queue + Num(toWeb', "candidate")
                 <= overlay[i].queue + Num(toWeb, "candidate"),
           Num(toPhone', "candidate") + Cardinality(CanTrickle(overlay'))
              <= Num(toPhone, "candidate") + Cardinality(CanTrickle(overlay))
    PROVE  IInv'
<1>1. /\ StoreOK(Phone!Store) /\ dialing \in Nat /\ dialed \in Nat /\ made \in Nat
      /\ lastSeq \in Nat
      /\ OverlaysDialed /\ CallsDialed /\ NumbersDialed /\ CandidatesMade /\ CandidatesOpen
  BY Parts
<1>2. /\ StoreOK(Phone!Store)' /\ device' = device /\ made' = made /\ made' \in Nat
      /\ Slack(call, device, conn)' = Slack(call, device, conn)
      /\ Cardinality(PhonePending(tasks')) = Cardinality(PhonePending(tasks))
  BY <1>1, PhoneKept
<1>3. /\ Num(toWeb, "invite") \in Nat /\ Num(toWeb, "candidate") \in Nat
      /\ Num(toPhone, "invite") \in Nat /\ Num(toPhone, "candidate") \in Nat
      /\ Cardinality(Used(overlay)) \in Nat
      /\ Cardinality(WebPending(overlay)) \in Nat
      /\ Cardinality(CanTrickle(overlay)) \in Nat
      /\ Cardinality(PhonePending(tasks)) \in Nat
      /\ Slack(call, device, conn) \in {0, 1}
      /\ \A i \in Web!Overlays : overlay[i].queue \in 0..MaxCalls
      /\ device.queue \in 0..MaxCalls
  BY CountsNat
<1>4. /\ Num(toWeb', "invite") \in Nat /\ Num(toWeb', "candidate") \in Nat
      /\ Num(toPhone', "invite") \in Nat /\ Num(toPhone', "candidate") \in Nat
      /\ Cardinality(Used(overlay')) \in Nat
      /\ Cardinality(WebPending(overlay')) \in Nat
      /\ Cardinality(CanTrickle(overlay')) \in Nat
      /\ \A i \in Web!Overlays : overlay'[i].queue \in 0..MaxCalls
  <2>1. Web!Tab' \in Tabs /\ Web!Tab'.all = overlay'
    BY DEF TabOK, Web!Tab
  <2>2. \A i \in Web!Overlays : overlay'[i].queue \in 0..MaxCalls
    BY <2>1 DEF Tabs, Web!Overlay
  <2> QED  BY <2>2, NumNat, OverlaySets, CountOverlays DEF TabInbox, PhoneInbox
<1>5. OverlaysDialed'
  BY <1>1, <1>2, <1>3, <1>4 DEF OverlaysDialed
<1>6. CallsDialed'
  BY <1>1, <1>2, <1>3, <1>4 DEF CallsDialed
<1>7. NumbersDialed'
  BY <1>1, <1>2, <1>3, <1>4 DEF NumbersDialed
<1>8. CandidatesMade'
  <2> SUFFICES ASSUME NEW i \in Web!Overlays
               PROVE  overlay'[i].queue + Num(toWeb', "candidate")
                         + Slack(call, device, conn)' <= made'
    BY DEF CandidatesMade
  <2>1. overlay[i].queue + Num(toWeb, "candidate") + Slack(call, device, conn) <= made
    BY <1>1 DEF CandidatesMade
  <2>2. /\ overlay[i].queue \in 0..MaxCalls /\ overlay'[i].queue \in 0..MaxCalls
        /\ overlay'[i].queue + Num(toWeb', "candidate")
              <= overlay[i].queue + Num(toWeb, "candidate")
    BY <1>3, <1>4
  <2> QED  BY <1>1, <1>2, <1>3, <1>4, <2>1, <2>2, PairAssumption
<1>9. CandidatesOpen'
  BY <1>1, <1>2, <1>3, <1>4, PairAssumption DEF CandidatesOpen
<1> QED  BY <1>2, <1>5, <1>6, <1>7, <1>8, <1>9, PartsBack

-----------------------------------------------------------------------------
(* Quiet handlers of the tab, as steps *)

\* What they leave alone.
LEMMA WebCalmStep ==
    ASSUME IInv, WebQuietly, UNCHANGED phoneVars, Faulty,
           UNCHANGED <<dialing, toWeb, lastSeq, dialed>>
    PROVE  IInv'
<1>1. toWeb' = toWeb /\ UNCHANGED <<dialing, lastSeq, dialed>>
  OBVIOUS
<1>2. TabInbox' /\ faults' \in 0..MaxFaults
  BY <1>1, Parts, FaultyOK DEF TabInbox
<1>3. /\ Num(toWeb', "invite") <= Num(toWeb, "invite")
      /\ Num(toWeb', "candidate") <= Num(toWeb, "candidate")
  BY <1>1, CountsNat
<1> QED  BY <1>1, <1>2, <1>3, WebQuietStep

\* Every handler of the tab that only works on its own overlays is quiet.
LEMMA WebQuietHandlers ==
    ASSUME IInv, NEW i \in Web!Overlays, NEW stage, UNCHANGED phoneVars,
           \/ Web!Accept(i) \/ Web!HangUp(i) \/ Web!Escape \/ Web!Mount(i)
           \/ Web!MediaOpens(i, stage) \/ Web!MediaFails(i, stage)
           \/ Web!Describe(i, stage) \/ Web!SetRemote(i, stage)
           \/ Web!IceConnected(i) \/ Web!IceDisconnected(i) \/ Web!IceFailed(i)
           \/ Web!SetupTimeout(i) \/ Web!DisconnectTimeout(i)
    PROVE  IInv'
<1>1. TabOK(Web!Tab)
  BY Parts
<1>2. WebQuietly
  BY <1>1, AcceptQuiet, HangUpQuiet, EscapeQuiet, MountQuiet, MediaOpensQuiet,
     MediaFailsQuiet, DescribeQuiet, SetRemoteQuiet, IceQuiet
<1>3. Faulty /\ UNCHANGED <<dialing, toWeb, lastSeq, dialed>>
  BY DEF Faulty, Web!Calm, Web!MayFault, Web!Accept, Web!HangUp, Web!Escape,
         Web!Mount, Web!MediaOpens, Web!MediaFails, Web!Describe, Web!SetRemote,
         Web!IceConnected, Web!IceDisconnected, Web!IceFailed, Web!SetupTimeout,
         Web!DisconnectTimeout
<1> QED  BY <1>2, <1>3, WebCalmStep

-----------------------------------------------------------------------------
(* The other handlers of the tab *)

\* The user clicks the call button.
LEMMA DialStep ==
    ASSUME IInv, UNCHANGED phoneVars, Web!Dial
    PROVE  IInv'
<1>1. /\ dialed < MaxCalls /\ dialing' = dialing + 1 /\ dialed' = dialed + 1
      /\ overlay' = overlay /\ active' = active /\ toWeb' = toWeb
      /\ toPhone' = toPhone /\ lastSeq' = lastSeq /\ faults' = faults
  BY DEF Web!Dial
<1>2. Web!Tab' = Web!Tab
  BY <1>1 DEF Web!Tab
<1>3. /\ TabOK(Web!Tab)' /\ TabInbox' /\ PhoneInbox' /\ dialing' \in Nat
      /\ dialed' \in 0..MaxCalls /\ faults' \in 0..MaxFaults /\ lastSeq' \in Nat
  BY <1>1, <1>2, Parts, PairAssumption DEF TabInbox, PhoneInbox
<1>4. /\ dialing \in Nat /\ dialed \in Nat /\ lastSeq \in Nat
      /\ \A e : Num(toWeb, e) \in Nat /\ Num(toPhone, e) \in Nat
      /\ Cardinality(Used(overlay)) \in Nat
      /\ Cardinality(WebPending(overlay)) \in Nat
      /\ Cardinality(CanTrickle(overlay)) \in Nat
      /\ \A i \in Web!Overlays : overlay[i].queue \in 0..MaxCalls
  BY Parts, CountsNat
<1>5. Cardinality(Used(overlay')) + dialing' + Num(toWeb', "invite") - dialed'
         <= Cardinality(Used(overlay)) + dialing + Num(toWeb, "invite") - dialed
  BY <1>1, <1>4
<1>6. dialing' + Num(toPhone', "invite") + Cardinality(WebPending(overlay')) - dialed'
         <= dialing + Num(toPhone, "invite") + Cardinality(WebPending(overlay)) - dialed
  BY <1>1, <1>4
<1>7. lastSeq' + dialing' + Cardinality(WebPending(overlay')) - dialed'
         <= lastSeq + dialing + Cardinality(WebPending(overlay)) - dialed
  BY <1>1, <1>4
<1>8. \A i \in Web!Overlays :
         overlay'[i].queue + Num(toWeb', "candidate")
            <= overlay[i].queue + Num(toWeb, "candidate")
  BY <1>1, <1>4
<1>9. Num(toPhone', "candidate") + Cardinality(CanTrickle(overlay'))
         <= Num(toPhone, "candidate") + Cardinality(CanTrickle(overlay))
  BY <1>1, <1>4
<1> QED  BY <1>3, <1>5, <1>6, <1>7, <1>8, <1>9, WebCountedStep

\* While fewer overlays than calls were used, one is free.
LEMMA FreeThere ==
    ASSUME IInv, Cardinality(Used(overlay)) < MaxCalls
    PROVE  Web!FreeOverlay # {}
<1>1. ASSUME Web!FreeOverlay = {} PROVE FALSE
  <2>1. Used(overlay) = Web!Overlays
    BY <1>1 DEF Used, Web!FreeOverlay
  <2>2. Cardinality(Web!Overlays) = MaxCalls
    BY FS_Interval, PairAssumption DEF Web!Overlays
  <2> QED  BY <2>1, <2>2, PairAssumption
<1> QED  BY <1>1

\* A click that has prepared its topic replaces whatever call is active.
LEMMA DialedStep ==
    ASSUME IInv, UNCHANGED phoneVars, Web!Dialed
    PROVE  IInv'
<1>1. /\ dialing > 0 /\ dialing' = dialing - 1 /\ toWeb' = toWeb
      /\ lastSeq' = lastSeq /\ dialed' = dialed
  BY DEF Web!Dialed
<1>2. /\ TabOK(Web!Tab) /\ TabInbox /\ PhoneInbox /\ dialing \in Nat
      /\ dialed \in 0..MaxCalls /\ dialed \in Nat /\ lastSeq \in Nat
      /\ faults \in 0..MaxFaults /\ OverlaysDialed
  BY Parts
<1>3. /\ TabInbox' /\ dialing' \in Nat /\ dialed' \in 0..MaxCalls /\ lastSeq' \in Nat
  BY <1>1, <1>2 DEF TabInbox
<1>4. /\ \A e : Num(toWeb, e) \in Nat /\ Num(toPhone, e) \in Nat
      /\ Cardinality(Used(overlay)) \in Nat
      /\ Cardinality(WebPending(overlay)) \in Nat
      /\ Cardinality(CanTrickle(overlay)) \in Nat
      /\ Cardinality(PhonePending(tasks)) \in Nat
      /\ \A i \in Web!Overlays : overlay[i].queue \in 0..MaxCalls
  BY CountsNat
<1>5. SUFFICES ASSUME
         /\ TabOK(Web!Tab)' /\ PhoneInbox' /\ faults' \in 0..MaxFaults
         /\ Cardinality(Used(overlay')) <= Cardinality(Used(overlay)) + 1
         /\ Cardinality(WebPending(overlay')) <= Cardinality(WebPending(overlay)) + 1
         /\ Cardinality(CanTrickle(overlay')) <= Cardinality(CanTrickle(overlay))
         /\ Num(toPhone', "invite") = Num(toPhone, "invite")
         /\ Num(toPhone', "candidate") = Num(toPhone, "candidate")
         /\ \A i \in Web!Overlays : overlay'[i].queue <= overlay[i].queue
             PROVE IInv'
  <2>1. CASE overlay' = overlay /\ active' = active /\ toPhone' = toPhone
             /\ Web!MayFault /\ faults' = faults + 1
    <3>1. Web!Tab' = Web!Tab
      BY <2>1 DEF Web!Tab
    <3>2. TabOK(Web!Tab)' /\ PhoneInbox'
      BY <2>1, <3>1, <1>2 DEF PhoneInbox
    <3>3. faults' \in 0..MaxFaults
      BY <2>1, <1>2, PairAssumption DEF Web!MayFault
    <3>4. /\ Cardinality(Used(overlay')) <= Cardinality(Used(overlay)) + 1
          /\ Cardinality(WebPending(overlay')) <= Cardinality(WebPending(overlay)) + 1
          /\ Cardinality(CanTrickle(overlay')) <= Cardinality(CanTrickle(overlay))
          /\ Num(toPhone', "invite") = Num(toPhone, "invite")
          /\ Num(toPhone', "candidate") = Num(toPhone, "candidate")
          /\ \A i \in Web!Overlays : overlay'[i].queue <= overlay[i].queue
      BY <2>1, <1>4
    <3> QED  BY <1>5, <3>2, <3>3, <3>4
  <2>2. CASE /\ Web!Becomes(Web!NewOverlay(Web!Cleared(Web!Tab), "outgoing", 0))
             /\ UNCHANGED faults
    <3> DEFINE t == Web!Cleared(Web!Tab)
               u == Web!NewOverlay(t, "outgoing", 0)
    <3>1. Clearable(Web!Tab)
      BY <1>2, TabFields DEF Clearable, Shape
    <3>2. /\ TabOK(t) /\ t.act = 0 /\ Quiet(t, Web!Tab)
          /\ \A j \in Web!Overlays : t.all[j].dir = Web!Tab.all[j].dir
      BY <1>2, <3>1, TabFields, ClearedOK
    <3>3. Web!Tab.all = overlay /\ Web!Tab.out = <<>>
      BY DEF Web!Tab
    <3>4. Web!FreeOverlay # {}
      <4>1. Cardinality(Used(overlay)) < MaxCalls
        BY <1>1, <1>2, <1>4, PairAssumption DEF OverlaysDialed
      <4> QED  BY <4>1, FreeThere
    <3> HIDE DEF t
    <3>5. \A j \in Web!Overlays : t.all[j].dir = overlay[j].dir
      BY <3>2, <3>3
    <3>6. /\ TabOK(u) /\ u.out = t.out
          /\ Cardinality(Used(u.all)) <= Cardinality(Used(t.all)) + 1
          /\ Cardinality(WebPending(u.all)) <= Cardinality(WebPending(t.all)) + 1
          /\ Cardinality(CanTrickle(u.all)) <= Cardinality(CanTrickle(t.all))
          /\ \A j \in Web!Overlays : u.all[j].queue <= t.all[j].queue
      <4>1. "outgoing" \in {"incoming", "outgoing"} /\ 0 \in 0..MaxCalls
            /\ "outgoing" # "incoming"
        BY PairAssumption
      <4> QED  BY <3>2, <3>4, <3>5, <4>1, NewOverlayOK
    <3> HIDE DEF u
    <3>7. /\ Cardinality(Used(t.all)) <= Cardinality(Used(overlay))
          /\ Cardinality(WebPending(t.all)) <= Cardinality(WebPending(overlay))
          /\ Cardinality(CanTrickle(t.all)) <= Cardinality(CanTrickle(overlay))
      BY <3>2, <3>3, QuietCounts
    <3>8. Web!Becomes(u)
      BY <2>2 DEF u, t
    <3>9. /\ TabOK(Web!Tab)' /\ overlay' = u.all /\ PhoneInbox'
          /\ \A e : Num(toPhone', e) = Num(toPhone, e) + Num(u.out, e)
      BY <1>2, <3>6, <3>8, TabBecomes DEF PhoneInbox
    <3>10. Num(u.out, "invite") = 0 /\ Num(u.out, "candidate") = 0
      <4>1. \A e : Num(<<>>, e) = 0
        BY NumSmall
      <4>2. Num(t.out, "invite") = Num(Web!Tab.out, "invite")
            /\ Num(t.out, "candidate") = Num(Web!Tab.out, "candidate")
        BY <3>2 DEF Quiet
      <4> QED  BY <3>3, <3>6, <4>1, <4>2
    <3>11. \A i \in Web!Overlays : overlay'[i].queue <= overlay[i].queue
      <4> TAKE i \in Web!Overlays
      <4>1. t.all[i].queue <= overlay[i].queue
        BY <3>2, <3>3 DEF Quiet
      <4>2. u.all[i].queue <= t.all[i].queue
        BY <3>6
      <4>3. t.all[i].queue \in Int /\ u.all[i].queue \in Int
        BY <3>2, <3>6, PairAssumption DEF TabOK, Tabs, Web!Overlay
      <4> QED  BY <1>4, <3>9, <4>1, <4>2, <4>3
    <3>12. /\ Cardinality(Used(t.all)) \in Nat /\ Cardinality(WebPending(t.all)) \in Nat
           /\ Cardinality(CanTrickle(t.all)) \in Nat
           /\ Cardinality(Used(u.all)) \in Nat /\ Cardinality(WebPending(u.all)) \in Nat
           /\ Cardinality(CanTrickle(u.all)) \in Nat
      BY OverlaySets, CountOverlays
    <3>13. /\ Cardinality(Used(overlay')) <= Cardinality(Used(overlay)) + 1
           /\ Cardinality(WebPending(overlay')) <= Cardinality(WebPending(overlay)) + 1
           /\ Cardinality(CanTrickle(overlay')) <= Cardinality(CanTrickle(overlay))
      BY <1>4, <3>6, <3>7, <3>9, <3>12
    <3>14. Num(toPhone', "invite") = Num(toPhone, "invite")
           /\ Num(toPhone', "candidate") = Num(toPhone, "candidate")
      BY <1>4, <3>9, <3>10
    <3>15. faults' \in 0..MaxFaults
      BY <2>2, <1>2
    <3> QED  BY <1>5, <3>9, <3>11, <3>13, <3>14, <3>15
  <2> QED  BY <2>1, <2>2 DEF Web!Dialed
<1>6. /\ Cardinality(Used(overlay')) \in Nat /\ Cardinality(WebPending(overlay')) \in Nat
      /\ Cardinality(CanTrickle(overlay')) \in Nat
  BY OverlaySets, CountOverlays
<1>7. Cardinality(Used(overlay')) + dialing' + Num(toWeb', "invite") - dialed'
         <= Cardinality(Used(overlay)) + dialing + Num(toWeb, "invite") - dialed
  BY <1>1, <1>2, <1>4, <1>5, <1>6
<1>8. dialing' + Num(toPhone', "invite") + Cardinality(WebPending(overlay')) - dialed'
         <= dialing + Num(toPhone, "invite") + Cardinality(WebPending(overlay)) - dialed
  BY <1>1, <1>2, <1>4, <1>5, <1>6
<1>9. lastSeq' + dialing' + Cardinality(WebPending(overlay')) - dialed'
         <= lastSeq + dialing + Cardinality(WebPending(overlay)) - dialed
  BY <1>1, <1>2, <1>4, <1>5, <1>6
<1>10. \A i \in Web!Overlays :
          overlay'[i].queue + Num(toWeb', "candidate")
             <= overlay[i].queue + Num(toWeb, "candidate")
  <2> TAKE i \in Web!Overlays
  <2>1. overlay'[i].queue \in 0..MaxCalls
    <3>1. Web!Tab' \in Tabs /\ Web!Tab'.all = overlay'
      BY <1>5 DEF TabOK, Web!Tab
    <3> QED  BY <3>1 DEF Tabs, Web!Overlay
  <2> QED  BY <1>1, <1>4, <1>5, <2>1
<1>11. Num(toPhone', "candidate") + Cardinality(CanTrickle(overlay'))
          <= Num(toPhone, "candidate") + Cardinality(CanTrickle(overlay))
  BY <1>4, <1>5, <1>6
<1> QED  BY <1>3, <1>5, <1>7, <1>8, <1>9, <1>10, <1>11, WebCountedStep

-----------------------------------------------------------------------------
\* What a put and a signal do to the tab, whatever the signal.
LEMMA PutSayCounts ==
    ASSUME NEW t, TabOK(t), NEW i \in Web!Overlays, NEW n, Fine(n, t.all[i], i, t.act),
           NEW e \in Web!Events \ {"confirm"}, NEW s \in 1..MaxCalls,
           NEW of \in 0..MaxCalls, NEW u, u = Web!Say(Web!Put(t, i, n), e, s, of)
    PROVE  /\ TabOK(u)
           /\ u.all[i] = n /\ \A j \in Web!Overlays : j # i => u.all[j] = t.all[j]
           /\ e # "invite" => Num(u.out, "invite") = Num(t.out, "invite")
           /\ e # "candidate" => Num(u.out, "candidate") = Num(t.out, "candidate")
           /\ Num(u.out, e) = Num(t.out, e) + 1
<1> DEFINE p == Web!Put(t, i, n)
<1>1. TabOK(p)
  BY PutFine
<1>2. t \in Tabs /\ n \in Web!Overlay /\ p \in Tabs
  BY <1>1 DEF TabOK, Fine, Steady
<1>3. /\ p.act = t.act /\ p.out = t.out /\ p.all[i] = n
      /\ \A j \in Web!Overlays : j # i => p.all[j] = t.all[j]
  BY <1>2, PutFields
<1> HIDE DEF p
<1>4. /\ u \in Tabs /\ u.all = p.all /\ u.act = p.act
      /\ \A k : Num(u.out, k) = Num(p.out, k) + (IF e = k THEN 1 ELSE 0)
  <2> DEFINE w == Web!Say(p, e, s, of)
  <2>1. /\ w \in Tabs /\ w.all = p.all /\ w.act = p.act
        /\ \A k : Num(w.out, k) = Num(p.out, k) + (IF e = k THEN 1 ELSE 0)
    BY <1>2, SayOK, ZenonT(60)
  <2>2. u = w
    BY DEF p
  <2> HIDE DEF w
  <2> QED  BY <2>1, <2>2
<1>5. TabOK(u)
  BY <1>1, <1>4 DEF TabOK
<1>6. /\ e # "invite" => Num(u.out, "invite") = Num(t.out, "invite")
      /\ e # "candidate" => Num(u.out, "candidate") = Num(t.out, "candidate")
      /\ Num(u.out, e) = Num(t.out, e) + 1
  <2>1. \A k : Num(t.out, k) \in Nat
    BY <1>2, NumNat DEF Tabs
  <2> QED  BY <1>3, <1>4, <2>1
<1>7. u.all[i] = n /\ \A j \in Web!Overlays : j # i => u.all[j] = t.all[j]
  BY <1>3, <1>4
<1> QED  BY <1>5, <1>6, <1>7

\* The sets of overlays after a step of one overlay.
LEMMA PutSets ==
    ASSUME NEW a, NEW b, NEW i \in Web!Overlays,
           b[i].dir # "none" => a[i].dir # "none",
           Pends(b[i]) => Pends(a[i]), Opens(b[i]) => Opens(a[i]),
           \A j \in Web!Overlays : j # i => b[j] = a[j]
    PROVE  /\ Cardinality(Used(b)) <= Cardinality(Used(a))
           /\ Cardinality(WebPending(b)) <= Cardinality(WebPending(a))
           /\ Cardinality(CanTrickle(b)) <= Cardinality(CanTrickle(a))
           /\ Pends(a[i]) /\ ~Pends(b[i]) =>
                 Cardinality(WebPending(b)) <= Cardinality(WebPending(a)) - 1
           /\ Opens(a[i]) /\ ~Opens(b[i]) =>
                 Cardinality(CanTrickle(b)) <= Cardinality(CanTrickle(a)) - 1
<1>1. /\ Used(b) \subseteq Used(a) /\ WebPending(b) \subseteq WebPending(a)
      /\ CanTrickle(b) \subseteq CanTrickle(a)
  BY DEF Used, WebPending, CanTrickle
<1>2. ASSUME Pends(a[i]), ~Pends(b[i])
      PROVE  i \in WebPending(a) /\ WebPending(b) \subseteq WebPending(a) \ {i}
  BY <1>2 DEF WebPending
<1>3. ASSUME Opens(a[i]), ~Opens(b[i])
      PROVE  i \in CanTrickle(a) /\ CanTrickle(b) \subseteq CanTrickle(a) \ {i}
  BY <1>3 DEF CanTrickle
<1> QED  BY <1>1, <1>2, <1>3, OverlaySets, CountOverlays

\* An overlay sends the candidates of its connection once.
LEMMA TrickleStep ==
    ASSUME IInv, UNCHANGED phoneVars, NEW i \in Web!Overlays, Web!Trickle(i)
    PROVE  IInv'
<1> DEFINE o == overlay[i]
           n == [o EXCEPT !.trickled = TRUE]
           u == Web!Say(Web!Put(Web!Tab, i, n), "candidate", o.seq, i)
<1>1. /\ o.pc = "open" /\ ~o.trickled /\ o.seq # 0 /\ Web!Becomes(u)
      /\ dialing' = dialing /\ toWeb' = toWeb /\ lastSeq' = lastSeq
      /\ dialed' = dialed /\ faults' = faults
  BY DEF Web!Trickle, Web!Calm
<1>2. /\ TabOK(Web!Tab) /\ TabInbox /\ PhoneInbox /\ dialing \in Nat
      /\ dialed \in 0..MaxCalls /\ dialed \in Nat /\ lastSeq \in Nat /\ faults \in 0..MaxFaults
  BY Parts
<1>3. /\ o \in Web!Overlay /\ o = Web!Tab.all[i] /\ Shape(o, i, Web!Tab.act) /\ Heeded(o)
  BY <1>2, OneOverlay
<1>4. Fine(n, o, i, Web!Tab.act)
  BY <1>3, TrickledFine
<1>5. "candidate" \in Web!Events \ {"confirm"} /\ o.seq \in 1..MaxCalls /\ i \in 0..MaxCalls
  BY <1>1, <1>3, PairAssumption DEF Web!Events, Web!Overlay, Web!Overlays
<1>6. /\ TabOK(u) /\ u.all[i] = n
      /\ \A j \in Web!Overlays : j # i => u.all[j] = Web!Tab.all[j]
      /\ Num(u.out, "invite") = Num(Web!Tab.out, "invite")
      /\ Num(u.out, "candidate") = Num(Web!Tab.out, "candidate") + 1
  <2> HIDE DEF n
  <2>1. Fine(n, Web!Tab.all[i], i, Web!Tab.act)
    BY <1>3, <1>4
  <2>2. TabOK(Web!Tab) /\ u = Web!Say(Web!Put(Web!Tab, i, n), "candidate", o.seq, i)
    BY <1>2
  <2> HIDE DEF u, o
  <2>3. "candidate" \in Web!Events \ {"confirm"}
    BY <1>5
  <2>4. o.seq \in 1..MaxCalls
    BY <1>5
  <2>5. i \in 0..MaxCalls
    BY <1>5
  <2> QED  BY <2>1, <2>2, <2>3, <2>4, <2>5, PutSayCounts
<1>7. Opens(o) /\ ~Opens(n) /\ n.queue = o.queue /\ n.dir = o.dir
  BY <1>1, <1>3 DEF Opens, Web!Overlay
<1>8. Pends(n) => Pends(o)
  BY <1>4 DEF Fine, Steady
<1> HIDE DEF u, n
<1>9. /\ TabOK(Web!Tab)' /\ overlay' = u.all /\ PhoneInbox'
      /\ \A e : Num(toPhone', e) = Num(toPhone, e) + Num(u.out, e)
  BY <1>1, <1>2, <1>6, TabBecomes DEF PhoneInbox
<1>10. Web!Tab.all = overlay /\ Web!Tab.out = <<>> /\ \A e : Num(<<>>, e) = 0
  BY NumSmall DEF Web!Tab
<1>11. /\ overlay'[i] = n /\ \A j \in Web!Overlays : j # i => overlay'[j] = overlay[j]
  BY <1>6, <1>9, <1>10
<1>12. /\ Cardinality(Used(overlay')) <= Cardinality(Used(overlay))
       /\ Cardinality(WebPending(overlay')) <= Cardinality(WebPending(overlay))
       /\ Cardinality(CanTrickle(overlay')) <= Cardinality(CanTrickle(overlay)) - 1
  BY <1>7, <1>8, <1>11, PutSets
<1>13. /\ Num(u.out, "invite") = 0 /\ Num(u.out, "candidate") = 1
  BY <1>6, <1>10
<1>14. /\ \A e : Num(toWeb, e) \in Nat /\ Num(toPhone, e) \in Nat
       /\ Cardinality(Used(overlay)) \in Nat
       /\ Cardinality(WebPending(overlay)) \in Nat
       /\ Cardinality(CanTrickle(overlay)) \in Nat
       /\ \A j \in Web!Overlays : overlay[j].queue \in 0..MaxCalls
  BY CountsNat
<1>15. /\ Num(toPhone', "invite") = Num(toPhone, "invite")
       /\ Num(toPhone', "candidate") = Num(toPhone, "candidate") + 1
  BY <1>9, <1>13, <1>14
<1>16. TabInbox' /\ dialing' \in Nat /\ dialed' \in 0..MaxCalls /\ lastSeq' \in Nat
       /\ faults' \in 0..MaxFaults
  BY <1>1, <1>2 DEF TabInbox
<1>17. /\ Cardinality(Used(overlay')) \in Nat /\ Cardinality(WebPending(overlay')) \in Nat
       /\ Cardinality(CanTrickle(overlay')) \in Nat
  BY OverlaySets, CountOverlays
<1>18. Cardinality(Used(overlay')) + dialing' + Num(toWeb', "invite") - dialed'
          <= Cardinality(Used(overlay)) + dialing + Num(toWeb, "invite") - dialed
  BY <1>1, <1>2, <1>12, <1>14, <1>17
<1>19. dialing' + Num(toPhone', "invite") + Cardinality(WebPending(overlay')) - dialed'
          <= dialing + Num(toPhone, "invite") + Cardinality(WebPending(overlay)) - dialed
  BY <1>1, <1>2, <1>12, <1>14, <1>15, <1>17
<1>20. lastSeq' + dialing' + Cardinality(WebPending(overlay')) - dialed'
          <= lastSeq + dialing + Cardinality(WebPending(overlay)) - dialed
  BY <1>1, <1>2, <1>12, <1>14, <1>17
<1>21. \A j \in Web!Overlays :
          overlay'[j].queue + Num(toWeb', "candidate")
             <= overlay[j].queue + Num(toWeb, "candidate")
  <2> TAKE j \in Web!Overlays
  <2>1. overlay'[j].queue = overlay[j].queue
    BY <1>7, <1>11
  <2> QED  BY <1>1, <1>14, <2>1
<1>22. Num(toPhone', "candidate") + Cardinality(CanTrickle(overlay'))
          <= Num(toPhone, "candidate") + Cardinality(CanTrickle(overlay))
  BY <1>12, <1>14, <1>15, <1>17
<1> QED  BY <1>9, <1>16, <1>18, <1>19, <1>20, <1>21, <1>22, WebCountedStep

\* Tinode stores the invitation, with the next number of the topic.
LEMMA PublishStep ==
    ASSUME IInv, UNCHANGED phoneVars, NEW i \in Web!Overlays, Web!Publish(i)
    PROVE  IInv'
<1> DEFINE o == overlay[i]
           n == Web!Did(o, "publish")
           t == Web!Put(Web!Tab, i, n)
           v == Web!Say(t, "invite", lastSeq + 1, 0)
<1>1. /\ "publish" \in o.doing /\ dialing' = dialing /\ dialed' = dialed
  BY DEF Web!Publish
<1>2. /\ TabOK(Web!Tab) /\ TabInbox /\ PhoneInbox /\ dialing \in Nat
      /\ dialed \in 0..MaxCalls /\ dialed \in Nat /\ lastSeq \in Nat
      /\ faults \in 0..MaxFaults /\ NumbersDialed
  BY Parts
<1>3. /\ o \in Web!Overlay /\ o = Web!Tab.all[i] /\ Shape(o, i, Web!Tab.act) /\ Heeded(o)
  BY <1>2, OneOverlay
<1>4. Steady(n, o, i, Web!Tab.act)
  BY <1>3, DidSteady
<1>5. Fine(n, o, i, Web!Tab.act)
  <2>1. Heeded(n)
    BY <1>3 DEF Heeded, Web!Described, Web!Alive, Web!Did, Web!Overlay
  <2> QED  BY <1>4, <2>1 DEF Fine
<1>6. /\ n \in Web!Overlay /\ n.dir = o.dir /\ n.queue = o.queue /\ Pends(o) /\ ~Pends(n)
      /\ (Opens(n) => Opens(o))
  <2>1. n \in Web!Overlay /\ (Opens(n) => Opens(o))
    BY <1>4 DEF Steady
  <2>2. /\ n.dir = o.dir /\ n.queue = o.queue /\ n.view = o.view
        /\ n.doing = o.doing \ {"publish"}
    BY <1>3 DEF Web!Did, Web!Overlay
  <2>3. Pends(o) /\ o.view # "loading" /\ "startMedia" \notin o.doing
    BY <1>1, <1>3 DEF Pends, Shape, Core, Asking
  <2>4. ~Pends(n)
    BY <2>2, <2>3 DEF Pends, Asking
  <2> QED  BY <2>1, <2>2, <2>3, <2>4
<1>7. /\ \A e : Num(toWeb, e) \in Nat /\ Num(toPhone, e) \in Nat
      /\ Cardinality(Used(overlay)) \in Nat
      /\ Cardinality(WebPending(overlay)) \in Nat
      /\ Cardinality(CanTrickle(overlay)) \in Nat
      /\ Cardinality(PhonePending(tasks)) \in Nat
      /\ \A j \in Web!Overlays : overlay[j].queue \in 0..MaxCalls
  BY CountsNat
<1>8. lastSeq + 1 \in 1..MaxCalls
  <2>1. i \in WebPending(overlay)
    BY <1>6 DEF WebPending
  <2>2. Cardinality(WebPending(overlay)) >= 1
    <3>1. IsFiniteSet(WebPending(overlay))
      BY OverlaySets, CountOverlays
    <3> QED  BY <2>1, <3>1, <1>7, FS_EmptySet
  <2> QED  BY <2>2, <1>2, <1>7, PairAssumption DEF NumbersDialed
<1>9. /\ TabOK(t) /\ TabOK(v)
      /\ t.all[i] = n /\ v.all[i] = n
      /\ \A j \in Web!Overlays : j # i => t.all[j] = overlay[j] /\ v.all[j] = overlay[j]
      /\ Num(t.out, "invite") = 0 /\ Num(t.out, "candidate") = 0
      /\ Num(v.out, "invite") = 1 /\ Num(v.out, "candidate") = 0
  <2>1. Web!Tab.all = overlay /\ Web!Tab.out = <<>> /\ \A e : Num(<<>>, e) = 0
    BY NumSmall DEF Web!Tab
  <2>2. TabOK(t)
    BY <1>2, <1>3, <1>5, PutFine
  <2>3. Web!Tab \in Tabs
    BY <1>2 DEF TabOK
  <2>4. t.out = Web!Tab.out /\ t.all[i] = n
        /\ \A j \in Web!Overlays : j # i => t.all[j] = Web!Tab.all[j]
    BY <1>6, <2>3, PutFields
  <2>5. "invite" \in Web!Events \ {"confirm"} /\ 0 \in 0..MaxCalls
    BY PairAssumption DEF Web!Events
  <2>6. /\ TabOK(v) /\ v.all[i] = n
        /\ \A j \in Web!Overlays : j # i => v.all[j] = Web!Tab.all[j]
        /\ Num(v.out, "candidate") = Num(Web!Tab.out, "candidate")
        /\ Num(v.out, "invite") = Num(Web!Tab.out, "invite") + 1
    <3> HIDE DEF n
    <3>1. Fine(n, Web!Tab.all[i], i, Web!Tab.act) /\ TabOK(Web!Tab)
      BY <1>2, <1>3, <1>5
    <3>2. v = Web!Say(Web!Put(Web!Tab, i, n), "invite", lastSeq + 1, 0)
      OBVIOUS
    <3> HIDE DEF v, t
    <3> QED  BY <1>8, <2>5, <3>1, <3>2, PutSayCounts
  <2> HIDE DEF t, v
  <2>7. Num(v.out, "invite") = 1 /\ Num(v.out, "candidate") = 0
    BY <2>1, <2>6
  <2>8. Num(t.out, "invite") = 0 /\ Num(t.out, "candidate") = 0
    BY <2>1, <2>4
  <2> QED  BY <2>1, <2>2, <2>4, <2>6, <2>7, <2>8
<1> HIDE DEF t, v, n
<1>10. \A w : TabOK(w) => LET c == Web!Closed(w, i, FALSE) IN TabOK(c) /\ Quiet(c, w)
  BY OKAlmost, ClosedOK
<1>11. ASSUME NEW w, NEW b, TabOK(b), b.all[i] = n,
              \A j \in Web!Overlays : j # i => b.all[j] = overlay[j],
              TabOK(w), Quiet(w, b) \/ w = b, Web!Becomes(w)
       PROVE  /\ TabOK(Web!Tab)' /\ PhoneInbox'
              /\ Cardinality(Used(overlay')) <= Cardinality(Used(overlay))
              /\ Cardinality(WebPending(overlay')) <= Cardinality(WebPending(overlay)) - 1
              /\ Cardinality(CanTrickle(overlay')) <= Cardinality(CanTrickle(overlay))
              /\ \A j \in Web!Overlays : overlay'[j].queue <= overlay[j].queue
              /\ Num(toPhone', "invite") = Num(toPhone, "invite") + Num(b.out, "invite")
              /\ Num(toPhone', "candidate") = Num(toPhone, "candidate") + Num(b.out, "candidate")
  <2>1. /\ TabOK(Web!Tab)' /\ overlay' = w.all /\ PhoneInbox'
        /\ \A e : Num(toPhone', e) = Num(toPhone, e) + Num(w.out, e)
    BY <1>2, <1>11, TabBecomes DEF PhoneInbox
  <2>2. b \in Tabs /\ w \in Tabs
    BY <1>11 DEF TabOK
  <2>3. Quiet(w, b)
    BY <1>11, <2>2, QuietSelf
  <2>4. /\ Cardinality(Used(b.all)) <= Cardinality(Used(overlay))
        /\ Cardinality(WebPending(b.all)) <= Cardinality(WebPending(overlay)) - 1
        /\ Cardinality(CanTrickle(b.all)) <= Cardinality(CanTrickle(overlay))
    BY <1>6, <1>11, PutSets
  <2>5. /\ Cardinality(Used(w.all)) <= Cardinality(Used(b.all))
        /\ Cardinality(WebPending(w.all)) <= Cardinality(WebPending(b.all))
        /\ Cardinality(CanTrickle(w.all)) <= Cardinality(CanTrickle(b.all))
    BY <2>3, QuietCounts
  <2>6. /\ Cardinality(Used(b.all)) \in Nat /\ Cardinality(WebPending(b.all)) \in Nat
        /\ Cardinality(CanTrickle(b.all)) \in Nat
        /\ Cardinality(Used(w.all)) \in Nat /\ Cardinality(WebPending(w.all)) \in Nat
        /\ Cardinality(CanTrickle(w.all)) \in Nat
    BY OverlaySets, CountOverlays
  <2>7. /\ Cardinality(Used(overlay')) <= Cardinality(Used(overlay))
        /\ Cardinality(WebPending(overlay')) <= Cardinality(WebPending(overlay)) - 1
        /\ Cardinality(CanTrickle(overlay')) <= Cardinality(CanTrickle(overlay))
    BY <1>7, <2>1, <2>4, <2>5, <2>6
  <2>8. \A j \in Web!Overlays : overlay'[j].queue <= overlay[j].queue
    <3> TAKE j \in Web!Overlays
    <3>1. b.all[j].queue = overlay[j].queue
      BY <1>6, <1>11
    <3>2. w.all[j].queue <= b.all[j].queue
      BY <2>3 DEF Quiet
    <3> QED  BY <2>1, <3>1, <3>2
  <2>9. /\ Num(w.out, "invite") = Num(b.out, "invite")
        /\ Num(w.out, "candidate") = Num(b.out, "candidate")
    BY <2>3 DEF Quiet
  <2> QED  BY <2>1, <2>7, <2>8, <2>9
<1>12. ASSUME TabOK(Web!Tab)', PhoneInbox', TabInbox', faults' \in 0..MaxFaults,
              Cardinality(Used(overlay')) <= Cardinality(Used(overlay)),
              Cardinality(WebPending(overlay')) <= Cardinality(WebPending(overlay)) - 1,
              Cardinality(CanTrickle(overlay')) <= Cardinality(CanTrickle(overlay)),
              \A j \in Web!Overlays : overlay'[j].queue <= overlay[j].queue,
              NEW k \in {0, 1}, Num(toPhone', "invite") = Num(toPhone, "invite") + k,
              lastSeq' \in {lastSeq, lastSeq + 1},
              Num(toPhone', "candidate") = Num(toPhone, "candidate"),
              Num(toWeb', "invite") = Num(toWeb, "invite"),
              Num(toWeb', "candidate") = Num(toWeb, "candidate")
       PROVE  IInv'
  <2>1. /\ Cardinality(Used(overlay')) \in Nat /\ Cardinality(WebPending(overlay')) \in Nat
        /\ Cardinality(CanTrickle(overlay')) \in Nat
    BY OverlaySets, CountOverlays
  <2>2. Cardinality(Used(overlay')) + dialing' + Num(toWeb', "invite") - dialed'
           <= Cardinality(Used(overlay)) + dialing + Num(toWeb, "invite") - dialed
    BY <1>1, <1>2, <1>7, <1>12, <2>1
  <2>3. dialing' + Num(toPhone', "invite") + Cardinality(WebPending(overlay')) - dialed'
           <= dialing + Num(toPhone, "invite") + Cardinality(WebPending(overlay)) - dialed
    BY <1>1, <1>2, <1>7, <1>12, <2>1
  <2>4. lastSeq' + dialing' + Cardinality(WebPending(overlay')) - dialed'
           <= lastSeq + dialing + Cardinality(WebPending(overlay)) - dialed
    BY <1>1, <1>2, <1>7, <1>12, <2>1
  <2>5. \A j \in Web!Overlays :
           overlay'[j].queue + Num(toWeb', "candidate")
              <= overlay[j].queue + Num(toWeb, "candidate")
    <3> TAKE j \in Web!Overlays
    <3>1. overlay'[j].queue \in 0..MaxCalls
      <4>1. Web!Tab' \in Tabs /\ Web!Tab'.all = overlay'
        BY <1>12 DEF TabOK, Web!Tab
      <4> QED  BY <4>1 DEF Tabs, Web!Overlay
    <3> QED  BY <1>7, <1>12, <3>1
  <2>6. Num(toPhone', "candidate") + Cardinality(CanTrickle(overlay'))
           <= Num(toPhone, "candidate") + Cardinality(CanTrickle(overlay))
    BY <1>7, <1>12, <2>1
  <2>7. dialing' \in Nat /\ dialed' \in 0..MaxCalls /\ lastSeq' \in Nat
    BY <1>1, <1>2, <1>12
  <2> QED  BY <1>12, <2>2, <2>3, <2>4, <2>5, <2>6, <2>7, WebCountedStep
<1>13. CASE /\ Web!Becomes(v) /\ lastSeq' = lastSeq + 1 /\ UNCHANGED faults
            /\ toWeb' = Append(toWeb, Web!Signal("confirm", lastSeq + 1, i))
  <2> DEFINE p == Web!Signal("confirm", lastSeq + 1, i)
  <2>1. p \in Arriving /\ p.event = "confirm"
    <3>1. i # 0 /\ i \in 0..MaxCalls
      BY DEF Web!Overlays
    <3> QED  BY <1>8, <3>1 DEF Arriving, Web!Packet, Web!Events, Web!Signal
  <2> HIDE DEF p
  <2>2. TabInbox'
    BY <1>2, <1>13, <2>1 DEF TabInbox, p
  <2>3. /\ Num(toWeb', "invite") = Num(toWeb, "invite")
        /\ Num(toWeb', "candidate") = Num(toWeb, "candidate")
    <3>1. \A e : Num(Append(toWeb, p), e) = Num(toWeb, e) + (IF p.event = e THEN 1 ELSE 0)
      BY <1>2, <2>1, NumAppend DEF TabInbox
    <3> QED  BY <1>7, <1>13, <2>1, <3>1, Z3 DEF p
  <2>4. /\ TabOK(Web!Tab)' /\ PhoneInbox'
        /\ Cardinality(Used(overlay')) <= Cardinality(Used(overlay))
        /\ Cardinality(WebPending(overlay')) <= Cardinality(WebPending(overlay)) - 1
        /\ Cardinality(CanTrickle(overlay')) <= Cardinality(CanTrickle(overlay))
        /\ \A j \in Web!Overlays : overlay'[j].queue <= overlay[j].queue
        /\ Num(toPhone', "invite") = Num(toPhone, "invite") + 1
        /\ Num(toPhone', "candidate") = Num(toPhone, "candidate")
    <3>1. \A j \in Web!Overlays : j # i => v.all[j] = overlay[j]
      BY <1>9
    <3>2. Web!Becomes(v) /\ TabOK(v) /\ v.all[i] = n
      BY <1>9, <1>13
    <3>3. /\ TabOK(Web!Tab)' /\ PhoneInbox'
          /\ Cardinality(Used(overlay')) <= Cardinality(Used(overlay))
          /\ Cardinality(WebPending(overlay')) <= Cardinality(WebPending(overlay)) - 1
          /\ Cardinality(CanTrickle(overlay')) <= Cardinality(CanTrickle(overlay))
          /\ \A j \in Web!Overlays : overlay'[j].queue <= overlay[j].queue
          /\ Num(toPhone', "invite") = Num(toPhone, "invite") + Num(v.out, "invite")
          /\ Num(toPhone', "candidate") = Num(toPhone, "candidate") + Num(v.out, "candidate")
      BY <1>11, <3>1, <3>2
    <3> QED  BY <1>7, <1>9, <3>3
  <2>5. faults' \in 0..MaxFaults /\ lastSeq' \in {lastSeq, lastSeq + 1}
    BY <1>2, <1>13
  <2> QED  BY <1>12, <2>2, <2>3, <2>4, <2>5
<1>14. CASE /\ Web!MayFault /\ faults' = faults + 1 /\ UNCHANGED toWeb
            /\ \/ Web!Becomes(Web!Closed(t, i, FALSE)) /\ UNCHANGED lastSeq
               \/ Web!Becomes(Web!Closed(v, i, FALSE)) /\ lastSeq' = lastSeq + 1
  <2>1. PICK b \in {t, v} : Web!Becomes(Web!Closed(b, i, FALSE))
    BY <1>14
  <2>2. /\ TabOK(b) /\ b.all[i] = n /\ \A j \in Web!Overlays : j # i => b.all[j] = overlay[j]
        /\ Num(b.out, "invite") \in {0, 1} /\ Num(b.out, "candidate") = 0
    BY <1>9, <2>1
  <2>3. TabOK(Web!Closed(b, i, FALSE)) /\ Quiet(Web!Closed(b, i, FALSE), b)
    BY <1>10, <2>2
  <2>4. /\ TabOK(Web!Tab)' /\ PhoneInbox'
        /\ Cardinality(Used(overlay')) <= Cardinality(Used(overlay))
        /\ Cardinality(WebPending(overlay')) <= Cardinality(WebPending(overlay)) - 1
        /\ Cardinality(CanTrickle(overlay')) <= Cardinality(CanTrickle(overlay))
        /\ \A j \in Web!Overlays : overlay'[j].queue <= overlay[j].queue
        /\ Num(toPhone', "invite") = Num(toPhone, "invite") + Num(b.out, "invite")
        /\ Num(toPhone', "candidate") = Num(toPhone, "candidate") + Num(b.out, "candidate")
    BY <1>11, <2>1, <2>2, <2>3
  <2>5. Num(toPhone', "candidate") = Num(toPhone, "candidate")
    BY <1>7, <2>2, <2>4
  <2>6. /\ TabInbox' /\ faults' \in 0..MaxFaults /\ lastSeq' \in {lastSeq, lastSeq + 1}
        /\ Num(toWeb', "invite") = Num(toWeb, "invite")
        /\ Num(toWeb', "candidate") = Num(toWeb, "candidate")
    <3>1. TabInbox'
      BY <1>2, <1>14 DEF TabInbox
    <3>2. faults' \in 0..MaxFaults
      BY <1>2, <1>14, PairAssumption DEF Web!MayFault
    <3> QED  BY <1>14, <3>1, <3>2
  <2> QED  BY <1>12, <2>2, <2>4, <2>5, <2>6
<1> QED  BY <1>13, <1>14 DEF Web!Publish, n, t, v

-----------------------------------------------------------------------------
(* What Tinode brings to the tab *)

\* The first packet of the tab's queue leaves it.
LEMMA TabHead ==
    ASSUME IInv, toWeb # <<>>, toWeb' = Tail(toWeb)
    PROVE  /\ Head(toWeb) \in Arriving /\ TabInbox'
           /\ Num(toWeb', Head(toWeb).event) = Num(toWeb, Head(toWeb).event) - 1
           /\ \A e : e # Head(toWeb).event => Num(toWeb', e) = Num(toWeb, e)
           /\ \A e : Num(toWeb', e) \in Nat
<1>1. toWeb \in Seq(Arriving)
  BY Parts DEF TabInbox
<1>2. Head(toWeb) \in Arriving /\ Tail(toWeb) \in Seq(Arriving)
  BY <1>1, HeadTailProperties
<1>3. TabInbox'
  BY <1>2 DEF TabInbox
<1>4. \A e : Num(Tail(toWeb), e) \in Nat /\ Num(toWeb, e) \in Nat
  BY <1>1, <1>2, NumNat
<1>5. \A e : Num(toWeb, e) = Num(Tail(toWeb), e) + (IF Head(toWeb).event = e THEN 1 ELSE 0)
  BY <1>1, NumTail
<1> DEFINE b == Head(toWeb).event
<1>6. Num(Tail(toWeb), b) = Num(toWeb, b) - 1
  BY <1>4, <1>5
<1>7. \A e : e # b => Num(Tail(toWeb), e) = Num(toWeb, e)
  BY <1>4, <1>5
<1> QED  BY <1>2, <1>3, <1>4, <1>6, <1>7

\* What is fine after what is fine is fine.
LEMMA FineTrans ==
    ASSUME NEW o \in Web!Overlay, NEW i, NEW act, NEW m, NEW n,
           Fine(m, o, i, act), Fine(n, m, i, act)
    PROVE  Fine(n, o, i, act)
<1>1. o.queue \in Int /\ m.queue \in Int /\ n.queue \in Int
  BY PairAssumption DEF Fine, Steady, Web!Overlay
<1>2. n.queue <= o.queue
  BY <1>1 DEF Fine, Steady
<1> QED  BY <1>2 DEF Fine, Steady

\* An overlay that stays as it is.
LEMMA FineSelf ==
    ASSUME NEW o \in Web!Overlay, NEW i, NEW act, Shape(o, i, act), Heeded(o)
    PROVE  Fine(o, o, i, act)
<1>1. o.queue <= o.queue
  BY PairAssumption DEF Web!Overlay
<1> QED  BY <1>1 DEF Fine, Steady

\* The number that a signal tells.
LEMMA SeenFine ==
    ASSUME NEW o \in Web!Overlay, NEW i, NEW act, Shape(o, i, act), Heeded(o),
           NEW p \in Web!Packet
    PROVE  LET s == Web!Seen(o, p) IN
           /\ Fine(s, o, i, act) /\ s \in Web!Overlay
           /\ s.view = o.view /\ s.queue = o.queue /\ s.dir = o.dir
<1> DEFINE s == Web!Seen(o, p)
<1>1. PICK q : q = IF o.seq = 0 THEN p.seq ELSE o.seq
  OBVIOUS
<1>2. q \in 1..MaxCalls
  BY <1>1, PairAssumption DEF Web!Packet, Web!Overlay
<1>3. s = [o EXCEPT !.seq = q]
  BY <1>1 DEF Web!Seen, Web!Overlay
<1>4. Fine(s, o, i, act)
  BY <1>2, <1>3, NumberedFine
<1>5. s \in Web!Overlay
  BY <1>4 DEF Fine, Steady
<1>6. s.view = o.view /\ s.queue = o.queue /\ s.dir = o.dir
  BY <1>3 DEF Web!Overlay
<1> QED  BY <1>4, <1>5, <1>6

\* An overlay replaced twice is replaced by the second one.
LEMMA PutTwice ==
    ASSUME NEW t \in Tabs, NEW i \in Web!Overlays, NEW m \in Web!Overlay, NEW n
    PROVE  Web!Put(Web!Put(t, i, m), i, n) = Web!Put(t, i, n)
<1>1. t.all \in [Web!Overlays -> Web!Overlay]
  BY DEF Tabs
<1>2. [[t.all EXCEPT ![i] = m] EXCEPT ![i] = n] = [t.all EXCEPT ![i] = n]
  BY <1>1
<1>3. [[t EXCEPT !.all[i] = m] EXCEPT !.all[i] = n] = [t EXCEPT !.all[i] = n]
  BY <1>1, <1>2 DEF Tabs
<1> QED  BY <1>3 DEF Web!Put

\* A candidate that has to wait.
LEMMA QueuedOK ==
    ASSUME NEW o \in Web!Overlay, NEW i, NEW act, Shape(o, i, act), Heeded(o),
           ~Web!Described(o), o.queue < MaxCalls
    PROVE  LET n == [o EXCEPT !.queue = @ + 1] IN
           /\ n \in Web!Overlay /\ Shape(n, i, act) /\ Heeded(n)
           /\ n.dir = o.dir /\ (Pends(n) => Pends(o)) /\ (Opens(n) => Opens(o))
           /\ n.queue = o.queue + 1
<1>1. PICK q : q = o.queue + 1
  OBVIOUS
<1>2. q \in 0..MaxCalls
  BY <1>1, PairAssumption DEF Web!Overlay
<1> DEFINE n == [o EXCEPT !.queue = q]
<1>3. n \in Web!Overlay /\ n.queue = q
  BY <1>2 DEF Web!Overlay
<1>4. n.dir = o.dir /\ (Pends(n) => Pends(o)) /\ (Opens(n) => Opens(o))
  BY DEF Web!Overlay, Pends, Opens, Asking
<1>5. CameraOk(n)
  BY DEF Web!Overlay, CameraOk, Shape, Core, Web!MediaStages
<1>6. Shape(n, i, act)
  BY <1>5 DEF Web!Overlay, Shape, Core, Web!Alive, Asking
<1>7. Heeded(n)
  BY DEF Web!Overlay, Heeded, Shape, Web!Described, Web!Alive
<1> QED  BY <1>1, <1>3, <1>4, <1>6, <1>7

-----------------------------------------------------------------------------
\* A signal that is heard, unless it is a candidate.
LEMMA HeardFine ==
    ASSUME NEW o \in Web!Overlay, NEW i, NEW act, Shape(o, i, act), Heeded(o),
           NEW p \in Web!Packet, o.view = "mounted", i = act, o.seq # 0,
           p.event # "candidate"
    PROVE  Fine(Web!Heard(o, p), o, i, act)
<1>1. CASE p.event = "accept"
  BY <1>1, TakeAcceptFine DEF Web!Heard
<1>2. CASE p.event = "offer"
  BY <1>2, TakeOfferFine DEF Web!Heard
<1>3. CASE p.event = "answer"
  BY <1>3, TakeAnswerFine DEF Web!Heard
<1>4. CASE p.event \notin {"accept", "offer", "answer", "candidate"}
  <2>1. Web!Heard(o, p) = o
    BY <1>4 DEF Web!Heard
  <2> QED  BY <2>1, FineSelf
<1> QED  BY <1>1, <1>2, <1>3, <1>4

\* A signal other than a candidate that waits: the tab hears it quietly.
LEMMA ReceiveQuiet ==
    ASSUME TabOK(Web!Tab), NEW p \in Web!Packet, Web!Receive(p),
           p.event # "candidate" \/ active = 0 \/ overlay[active].view # "mounted"
              \/ Web!Seen(overlay[active], p).seq # p.seq
    PROVE  WebQuietly
<1> DEFINE i == active
           o == overlay[i]
           s == Web!Seen(o, p)
           n == Web!Heard(s, p)
           act == Web!Tab.act
<1>1. Web!Tab \in Tabs /\ act = active
  BY TabFields
<1>2. CASE i = 0 \/ o.view # "mounted" \/ s.seq # p.seq
  <2>1. Web!Becomes(Web!Tab)
    BY <1>2 DEF Web!Receive
  <2>2. Quiet(Web!Tab, Web!Tab)
    BY <1>1, QuietSelf
  <2> QED  BY <2>1, <2>2 DEF WebQuietly
<1>3. CASE ~(i = 0 \/ o.view # "mounted" \/ s.seq # p.seq)
  <2>1. i \in Web!Overlays
    BY <1>1, <1>3, PairAssumption DEF Tabs, Web!Overlays
  <2>2. o \in Web!Overlay /\ Shape(o, i, act) /\ Heeded(o)
    BY <2>1, OneOverlay
  <2>3. Fine(s, o, i, act) /\ s \in Web!Overlay /\ s.view = o.view
    BY <2>2, SeenFine
  <2> HIDE DEF s
  <2>4. CASE p.event = "hang-up"
    <3>1. Web!Becomes(Web!Closed(Web!Put(Web!Tab, i, s), i, FALSE))
      BY <1>3, <2>4 DEF Web!Receive, s
    <3>2. Steady(s, overlay[i], i, Web!Tab.act)
      BY <2>3 DEF Fine
    <3> HIDE DEF i
    <3> QED  BY <2>1, <3>1, <3>2, QuietClose
  <2>5. CASE p.event # "hang-up"
    <3>1. Web!Becomes(Web!Put(Web!Put(Web!Tab, i, s), i, n))
      BY <1>3, <2>5 DEF Web!Receive, s
    <3>2. Shape(s, i, act) /\ Heeded(s) /\ s.view = "mounted" /\ s.seq # 0
      <4>1. s.seq = p.seq /\ p.seq # 0
        BY <1>3 DEF Web!Packet
      <4> QED  BY <1>3, <2>3, <4>1 DEF Fine, Steady
    <3>3. Fine(n, s, i, act)
      BY <1>1, <1>3, <2>3, <3>2, HeardFine DEF s
    <3> HIDE DEF n
    <3>4. Fine(n, o, i, act)
      BY <2>2, <2>3, <3>3, FineTrans
    <3>5. Web!Becomes(Web!Put(Web!Tab, i, n))
      BY <1>1, <2>1, <2>3, <3>1, PutTwice
    <3> HIDE DEF i
    <3> QED  BY <2>1, <3>4, <3>5, QuietPut DEF o
  <2> QED  BY <2>4, <2>5
<1> QED  BY <1>2, <1>3
-----------------------------------------------------------------------------
\* A step of the tab that takes a packet and counts no more than before.
LEMMA WebTakesQuietly ==
    ASSUME IInv, WebQuietly, UNCHANGED phoneVars, Faulty,
           UNCHANGED <<dialing, lastSeq, dialed>>,
           toWeb # <<>>, toWeb' = Tail(toWeb)
    PROVE  IInv'
<1>1. TabInbox' /\ faults' \in 0..MaxFaults
  BY TabHead, Parts, FaultyOK
<1>2. \A e : Num(toWeb', e) <= Num(toWeb, e)
  <2>1. \A e : Num(toWeb, e) \in Nat /\ Num(toWeb', e) \in Nat
    BY CountsNat, TabHead
  <2> TAKE e
  <2>2. CASE e = Head(toWeb).event
    BY <2>1, <2>2, TabHead
  <2>3. CASE e # Head(toWeb).event
    BY <2>1, <2>3, TabHead
  <2> QED  BY <2>2, <2>3
<1> QED  BY <1>1, <1>2, WebQuietStep

\* A call of the phone is one that was dialed.
LEMMA MadeBounded ==
    ASSUME IInv
    PROVE  made + Num(toPhone, "invite") <= MaxCalls
<1>1. /\ dialing \in Nat /\ dialed \in 0..MaxCalls /\ made \in Nat /\ CallsDialed
  BY Parts
<1>2. Num(toPhone, "invite") \in Nat /\ Cardinality(WebPending(overlay)) \in Nat
  BY CountsNat
<1> QED  BY <1>1, <1>2, PairAssumption DEF CallsDialed

\* A candidate finds its call: it waits in the queue unless the remote
\* description is there.
LEMMA CandidateStep ==
    ASSUME IInv, UNCHANGED phoneVars, UNCHANGED <<dialing, lastSeq, dialed, faults>>,
           toWeb # <<>>, toWeb' = Tail(toWeb),
           NEW p \in Arriving, p = Head(toWeb), p.event = "candidate", Web!Receive(p),
           active # 0, overlay[active].view = "mounted",
           Web!Seen(overlay[active], p).seq = p.seq
    PROVE  IInv'
<1> DEFINE o == overlay[active]
           s == Web!Seen(o, p)
           n == [s EXCEPT !.queue = @ + 1]
<1>1. /\ TabOK(Web!Tab) /\ TabInbox /\ PhoneInbox /\ dialing \in Nat /\ dialed \in 0..MaxCalls
      /\ dialed \in Nat /\ lastSeq \in Nat /\ faults \in 0..MaxFaults /\ made \in Nat
      /\ CandidatesMade
  BY Parts
<1>2. Web!Tab \in Tabs /\ Web!Tab.act = active /\ Web!Tab.all = overlay /\ Web!Tab.out = <<>>
  BY <1>1, TabFields
<1>3. active \in Web!Overlays
  BY <1>2, PairAssumption DEF Tabs, Web!Overlays
<1>4. PICK i \in Web!Overlays : i = active
  BY <1>3
<1>5. o \in Web!Overlay /\ Shape(o, i, Web!Tab.act) /\ Heeded(o) /\ o = overlay[i]
  BY <1>1, <1>4, OneOverlay
<1>6. p \in Web!Packet
  BY DEF Arriving
<1>7. /\ Fine(s, o, i, Web!Tab.act) /\ s \in Web!Overlay
      /\ s.view = o.view /\ s.queue = o.queue /\ s.dir = o.dir
  BY <1>5, <1>6, SeenFine
<1>8. Web!Becomes(Web!Put(Web!Tab, i, Web!TakeCandidate(s)))
  <2>1. Web!Heard(s, p) = Web!TakeCandidate(s)
    BY DEF Web!Heard
  <2>2. Web!Becomes(Web!Put(Web!Put(Web!Tab, i, s), i, Web!Heard(s, p)))
    BY <1>4 DEF Web!Receive
  <2> HIDE DEF s
  <2> QED  BY <1>2, <1>7, <2>1, <2>2, PutTwice
<1> HIDE DEF s
<1>9. CASE Web!Described(s)
  <2>1. Web!Becomes(Web!Put(Web!Tab, i, s))
    BY <1>8, <1>9 DEF Web!TakeCandidate
  <2>2. WebQuietly
    BY <1>1, <1>5, <1>7, <2>1, QuietPut
  <2> QED  BY <2>2, WebTakesQuietly DEF Faulty
<1>10. CASE ~Web!Described(s)
  <2>1. Web!Becomes(Web!Put(Web!Tab, i, n))
    BY <1>8, <1>10 DEF Web!TakeCandidate
  <2>2. /\ \A e : Num(toWeb, e) \in Nat /\ Num(toPhone, e) \in Nat
        /\ Cardinality(Used(overlay)) \in Nat
        /\ Cardinality(WebPending(overlay)) \in Nat
        /\ Cardinality(CanTrickle(overlay)) \in Nat
        /\ Slack(call, device, conn) \in {0, 1}
        /\ \A j \in Web!Overlays : overlay[j].queue \in 0..MaxCalls
    BY CountsNat
  <2>3. /\ TabInbox' /\ Num(toWeb', "candidate") = Num(toWeb, "candidate") - 1
        /\ Num(toWeb', "invite") = Num(toWeb, "invite")
        /\ \A e : Num(toWeb', e) \in Nat
    BY TabHead
  <2>4. s.queue < MaxCalls
    <3>1. o.queue + Num(toWeb, "candidate") + Slack(call, device, conn) <= made
      BY <1>1, <1>5 DEF CandidatesMade
    <3>2. made <= MaxCalls
      <4>1. Num(toPhone, "invite") >= 0 /\ Num(toPhone, "invite") \in Int
        BY <2>2
      <4>2. made + Num(toPhone, "invite") <= MaxCalls
        BY MadeBounded
      <4>3. made \in Int /\ MaxCalls \in Int
        BY <1>1, PairAssumption
      <4> QED  BY <4>1, <4>2, <4>3
    <3>3. o.queue \in 0..MaxCalls
      BY <1>5, <2>2
    <3>4. o.queue < MaxCalls
      <4>1. Num(toWeb, "candidate") >= 1 /\ Num(toWeb, "candidate") \in Int
        BY <2>2, <2>3
      <4>2. Slack(call, device, conn) >= 0 /\ Slack(call, device, conn) \in Int
        BY <2>2
      <4>3. made \in Int /\ MaxCalls \in Int /\ o.queue \in Int
        BY <1>1, <3>3, PairAssumption
      <4> QED  BY <3>1, <3>2, <4>1, <4>2, <4>3
    <3> QED  BY <1>7, <3>4
  <2>5. Shape(s, i, Web!Tab.act) /\ Heeded(s)
    BY <1>7 DEF Fine, Steady
  <2>6. /\ n \in Web!Overlay /\ Shape(n, i, Web!Tab.act) /\ Heeded(n)
        /\ n.dir = s.dir /\ (Pends(n) => Pends(s)) /\ (Opens(n) => Opens(s))
        /\ n.queue = s.queue + 1
    BY <1>7, <1>10, <2>4, <2>5, QueuedOK
  <2>7. /\ (Pends(s) => Pends(o)) /\ (Opens(s) => Opens(o))
    BY <1>7 DEF Fine, Steady
  <2> HIDE DEF n
  <2> DEFINE u == Web!Put(Web!Tab, i, n)
  <2>8. TabOK(u)
    BY <1>1, <2>6, PutOK
  <2>9. u.out = <<>> /\ u.all[i] = n /\ \A j \in Web!Overlays : j # i => u.all[j] = overlay[j]
    BY <1>2, <2>6, PutFields
  <2>10. Web!Becomes(u)
    BY <2>1
  <2> HIDE DEF u
  <2>11. /\ TabOK(Web!Tab)' /\ overlay' = u.all /\ PhoneInbox'
         /\ \A e : Num(toPhone', e) = Num(toPhone, e) + Num(u.out, e)
    BY <1>1, <2>8, <2>10, TabBecomes DEF PhoneInbox
  <2>12. overlay'[i] = n /\ \A j \in Web!Overlays : j # i => overlay'[j] = overlay[j]
    BY <2>9, <2>11
  <2>13. /\ Cardinality(Used(overlay')) <= Cardinality(Used(overlay))
         /\ Cardinality(WebPending(overlay')) <= Cardinality(WebPending(overlay))
         /\ Cardinality(CanTrickle(overlay')) <= Cardinality(CanTrickle(overlay))
    <3>1. /\ n.dir # "none" => overlay[i].dir # "none"
          /\ (Pends(n) => Pends(overlay[i])) /\ (Opens(n) => Opens(overlay[i]))
      BY <1>5, <1>7, <2>6, <2>7
    <3> QED  BY <2>12, <3>1, PutSets
  <2>14. /\ Num(toPhone', "invite") = Num(toPhone, "invite")
         /\ Num(toPhone', "candidate") = Num(toPhone, "candidate")
    <3>1. \A e : Num(<<>>, e) = 0
      BY NumSmall
    <3> QED  BY <2>2, <2>9, <2>11, <3>1
  <2>15. /\ Cardinality(Used(overlay')) \in Nat /\ Cardinality(WebPending(overlay')) \in Nat
         /\ Cardinality(CanTrickle(overlay')) \in Nat
    BY OverlaySets, CountOverlays
  <2>16. /\ dialing' = dialing /\ dialed' = dialed /\ lastSeq' = lastSeq /\ faults' = faults
    OBVIOUS
  <2>a. /\ dialing \in Int /\ dialed \in Int /\ lastSeq \in Int
        /\ Num(toPhone, "invite") \in Int /\ Cardinality(WebPending(overlay)) \in Int
        /\ Num(toWeb, "invite") \in Int /\ Cardinality(Used(overlay)) \in Int
    BY <1>1, <2>2
  <2>b. Num(toWeb', "invite") = Num(toWeb, "invite")
    BY <2>3
  <2>17. Cardinality(Used(overlay')) + dialing' + Num(toWeb', "invite") - dialed'
          <= Cardinality(Used(overlay)) + dialing + Num(toWeb, "invite") - dialed
    BY <2>a, <2>b, <2>13, <2>15, <2>16
  <2>18. dialing' + Num(toPhone', "invite") + Cardinality(WebPending(overlay')) - dialed'
          <= dialing + Num(toPhone, "invite") + Cardinality(WebPending(overlay)) - dialed
    BY <2>a, <2>13, <2>14, <2>15, <2>16
  <2>19. lastSeq' + dialing' + Cardinality(WebPending(overlay')) - dialed'
          <= lastSeq + dialing + Cardinality(WebPending(overlay)) - dialed
    BY <2>a, <2>13, <2>15, <2>16
  <2>20. \A j \in Web!Overlays :
            overlay'[j].queue + Num(toWeb', "candidate")
               <= overlay[j].queue + Num(toWeb, "candidate")
    <3> TAKE j \in Web!Overlays
    <3>1. overlay'[j].queue = overlay[j].queue \/ overlay'[j].queue = overlay[j].queue + 1
      BY <1>5, <1>7, <2>6, <2>12
    <3>2. /\ overlay[j].queue \in Int /\ Num(toWeb, "candidate") \in Int
          /\ Num(toWeb', "candidate") = Num(toWeb, "candidate") - 1
      BY <2>2, <2>3, PairAssumption
    <3> QED  BY <3>1, <3>2
  <2>21. Num(toPhone', "candidate") + Cardinality(CanTrickle(overlay'))
          <= Num(toPhone, "candidate") + Cardinality(CanTrickle(overlay))
    BY <2>2, <2>13, <2>14, <2>15
  <2>22. dialing' \in Nat /\ dialed' \in 0..MaxCalls /\ faults' \in 0..MaxFaults
         /\ lastSeq' \in Nat
    BY <1>1, <2>16
  <2>23. TabOK(Web!Tab)' /\ TabInbox' /\ PhoneInbox'
    BY <2>3, <2>11
  <2> QED  BY <2>17, <2>18, <2>19, <2>20, <2>21, <2>22, <2>23, WebCountedStep
<1> QED  BY <1>9, <1>10

\* An invitation arrives: it is refused while a call is active, and may be
\* otherwise; or it takes the first free overlay.
LEMMA ReceiveInviteStep ==
    ASSUME IInv, UNCHANGED phoneVars, UNCHANGED <<dialing, lastSeq, dialed>>,
           toWeb # <<>>, toWeb' = Tail(toWeb),
           NEW p \in Arriving, p = Head(toWeb), p.event = "invite", Web!ReceiveInvite(p)
    PROVE  IInv'
<1>1. /\ TabOK(Web!Tab) /\ TabInbox /\ PhoneInbox /\ dialing \in Nat /\ dialed \in 0..MaxCalls
      /\ dialed \in Nat /\ lastSeq \in Nat /\ faults \in 0..MaxFaults /\ OverlaysDialed
  BY Parts
<1>2. Web!Tab \in Tabs /\ Web!Tab.act = active /\ Web!Tab.all = overlay /\ Web!Tab.out = <<>>
  BY <1>1, TabFields
<1>3. p.seq \in 1..MaxCalls /\ 0 \in 0..MaxCalls
      /\ "hang-up" \in Web!Events \ {"confirm", "invite", "candidate"}
  BY PairAssumption DEF Arriving, Web!Packet, Web!Events
<1>4. CASE Web!Becomes(Web!Say(Web!Tab, "hang-up", p.seq, 0)) /\ Faulty
  <2> DEFINE u == Web!Say(Web!Tab, "hang-up", p.seq, 0)
  <2>1. TabOK(u) /\ Quiet(u, Web!Tab)
    BY <1>1, <1>3, SayQuiet
  <2>2. WebQuietly
    BY <1>4, <2>1 DEF WebQuietly
  <2> QED  BY <1>4, <2>2, WebTakesQuietly
<1>5. CASE /\ active = 0 /\ Web!Becomes(Web!NewOverlay(Web!Tab, "incoming", p.seq))
           /\ UNCHANGED faults
  <2>1. /\ \A e : Num(toWeb, e) \in Nat /\ Num(toPhone, e) \in Nat
        /\ Cardinality(Used(overlay)) \in Nat
        /\ Cardinality(WebPending(overlay)) \in Nat
        /\ Cardinality(CanTrickle(overlay)) \in Nat
        /\ Cardinality(PhonePending(tasks)) \in Nat
        /\ \A j \in Web!Overlays : overlay[j].queue \in 0..MaxCalls
    BY CountsNat
  <2>2. /\ TabInbox' /\ Num(toWeb', "invite") = Num(toWeb, "invite") - 1
        /\ Num(toWeb', "candidate") = Num(toWeb, "candidate")
        /\ \A e : Num(toWeb', e) \in Nat
    BY TabHead
  <2>3. Cardinality(Used(overlay)) < MaxCalls
    <3>1. Num(toWeb, "invite") >= 1
      BY <2>1, <2>2
    <3> QED  BY <1>1, <2>1, <3>1, PairAssumption DEF OverlaysDialed
  <2>4. Web!FreeOverlay # {}
    BY <2>3, FreeThere
  <2> DEFINE u == Web!NewOverlay(Web!Tab, "incoming", p.seq)
  <2>5. /\ TabOK(u) /\ u.out = <<>>
        /\ Cardinality(Used(u.all)) <= Cardinality(Used(overlay)) + 1
        /\ Cardinality(WebPending(u.all)) <= Cardinality(WebPending(overlay))
        /\ Cardinality(CanTrickle(u.all)) <= Cardinality(CanTrickle(overlay))
        /\ \A j \in Web!Overlays : u.all[j].queue <= overlay[j].queue
    <3>1. /\ "incoming" \in {"incoming", "outgoing"} /\ p.seq \in 0..MaxCalls /\ p.seq # 0
          /\ Web!Tab.act = 0
          /\ \A j \in Web!Overlays : Web!Tab.all[j].dir = overlay[j].dir
      BY <1>2, <1>3, <1>5
    <3>2. /\ TabOK(u) /\ u.out = Web!Tab.out
          /\ Cardinality(Used(u.all)) <= Cardinality(Used(Web!Tab.all)) + 1
          /\ Cardinality(WebPending(u.all)) <= Cardinality(WebPending(Web!Tab.all)) + 0
          /\ Cardinality(CanTrickle(u.all)) <= Cardinality(CanTrickle(Web!Tab.all))
          /\ \A j \in Web!Overlays : u.all[j].queue <= Web!Tab.all[j].queue
      BY <1>1, <2>4, <3>1, NewOverlayOK
    <3> HIDE DEF u
    <3> QED  BY <1>2, <2>1, <3>2
  <2>6. Web!Becomes(u)
    BY <1>5
  <2> HIDE DEF u
  <2>7. /\ TabOK(Web!Tab)' /\ overlay' = u.all /\ PhoneInbox'
        /\ \A e : Num(toPhone', e) = Num(toPhone, e) + Num(u.out, e)
    BY <1>1, <2>5, <2>6, TabBecomes DEF PhoneInbox
  <2>8. /\ Num(toPhone', "invite") = Num(toPhone, "invite")
        /\ Num(toPhone', "candidate") = Num(toPhone, "candidate")
    <3>1. \A e : Num(<<>>, e) = 0
      BY NumSmall
    <3> QED  BY <2>1, <2>5, <2>7, <3>1
  <2>9. /\ Cardinality(Used(overlay')) \in Nat /\ Cardinality(WebPending(overlay')) \in Nat
        /\ Cardinality(CanTrickle(overlay')) \in Nat
    BY OverlaySets, CountOverlays
  <2>10. /\ dialing' = dialing /\ dialed' = dialed /\ lastSeq' = lastSeq /\ faults' = faults
    BY <1>5
  <2>a. /\ Cardinality(Used(overlay')) <= Cardinality(Used(overlay)) + 1
        /\ Cardinality(WebPending(overlay')) <= Cardinality(WebPending(overlay))
        /\ Cardinality(CanTrickle(overlay')) <= Cardinality(CanTrickle(overlay))
    BY <2>5, <2>7
  <2>b. /\ dialing \in Int /\ dialed \in Int /\ lastSeq \in Int
        /\ Num(toPhone, "invite") \in Int /\ Cardinality(WebPending(overlay)) \in Int
        /\ Num(toWeb, "invite") \in Int /\ Cardinality(Used(overlay)) \in Int
    BY <1>1, <2>1
  <2>c. Num(toWeb', "invite") = Num(toWeb, "invite") - 1
    BY <2>2
  <2>11. Cardinality(Used(overlay')) + dialing' + Num(toWeb', "invite") - dialed'
          <= Cardinality(Used(overlay)) + dialing + Num(toWeb, "invite") - dialed
    BY <2>a, <2>b, <2>c, <2>9, <2>10, SMTT(30)
  <2>12. dialing' + Num(toPhone', "invite") + Cardinality(WebPending(overlay')) - dialed'
          <= dialing + Num(toPhone, "invite") + Cardinality(WebPending(overlay)) - dialed
    BY <2>a, <2>b, <2>8, <2>9, <2>10
  <2>13. lastSeq' + dialing' + Cardinality(WebPending(overlay')) - dialed'
          <= lastSeq + dialing + Cardinality(WebPending(overlay)) - dialed
    BY <2>a, <2>b, <2>9, <2>10
  <2>14. \A j \in Web!Overlays :
            overlay'[j].queue + Num(toWeb', "candidate")
               <= overlay[j].queue + Num(toWeb, "candidate")
    <3> TAKE j \in Web!Overlays
    <3>1. overlay'[j].queue \in 0..MaxCalls
      <4>1. Web!Tab' \in Tabs /\ Web!Tab'.all = overlay'
        BY <2>7 DEF TabOK, Web!Tab
      <4> QED  BY <4>1 DEF Tabs, Web!Overlay
    <3>2. overlay'[j].queue <= overlay[j].queue
      BY <2>5, <2>7
    <3>3. overlay[j].queue \in Int /\ overlay'[j].queue \in Int
      BY <2>1, <3>1, PairAssumption
    <3>4. /\ Num(toWeb, "candidate") \in Int
          /\ Num(toWeb', "candidate") = Num(toWeb, "candidate")
      BY <2>1, <2>2
    <3> QED  BY <3>2, <3>3, <3>4
  <2>15. Num(toPhone', "candidate") + Cardinality(CanTrickle(overlay'))
          <= Num(toPhone, "candidate") + Cardinality(CanTrickle(overlay))
    BY <2>1, <2>5, <2>7, <2>8, <2>9
  <2>16. dialing' \in Nat /\ dialed' \in 0..MaxCalls /\ faults' \in 0..MaxFaults
         /\ lastSeq' \in Nat
    BY <1>1, <2>10
  <2>17. TabOK(Web!Tab)' /\ TabInbox' /\ PhoneInbox'
    BY <2>2, <2>7
  <2> QED  BY <2>11, <2>12, <2>13, <2>14, <2>15, <2>16, <2>17, WebCountedStep
<1>6. \/ Web!Becomes(Web!Say(Web!Tab, "hang-up", p.seq, 0)) /\ Faulty
      \/ /\ active = 0 /\ Web!Becomes(Web!NewOverlay(Web!Tab, "incoming", p.seq))
         /\ UNCHANGED faults
  BY DEF Web!ReceiveInvite, Web!MayFault, Faulty
<1> QED  BY <1>4, <1>5, <1>6

\* Whatever arrives at the tab.
LEMMA WebDeliverStep ==
    ASSUME IInv, UNCHANGED phoneVars, Web!Deliver
    PROVE  IInv'
<1>1. /\ toWeb # <<>> /\ toWeb' = Tail(toWeb) /\ UNCHANGED <<dialing, lastSeq, dialed>>
  BY DEF Web!Deliver
<1>2. PICK p : p = Head(toWeb)
  OBVIOUS
<1>3. p \in Arriving /\ p \in Web!Packet
  BY <1>1, <1>2, TabHead DEF Arriving
<1>4. TabOK(Web!Tab)
  BY Parts
<1>5. CASE p.event = "invite" /\ Web!ReceiveInvite(p)
  BY <1>1, <1>2, <1>3, <1>5, ReceiveInviteStep
<1>6. CASE /\ p.event = "confirm" /\ UNCHANGED faults
           /\ Web!Becomes(Web!Put(Web!Tab, p.of, [overlay[p.of] EXCEPT !.seq = p.seq]))
  <2>1. p.of \in Web!Overlays /\ p.seq \in 1..MaxCalls
    BY <1>3, <1>6, PairAssumption DEF Arriving, Web!Packet, Web!Overlays
  <2>2. PICK i \in Web!Overlays : i = p.of
    BY <2>1
  <2> DEFINE n == [overlay[i] EXCEPT !.seq = p.seq]
  <2>3. /\ overlay[i] \in Web!Overlay
        /\ Shape(overlay[i], i, Web!Tab.act) /\ Heeded(overlay[i])
    BY <1>4, OneOverlay
  <2>4. Fine(n, overlay[i], i, Web!Tab.act)
    BY <2>1, <2>3, NumberedFine
  <2>5. Web!Becomes(Web!Put(Web!Tab, i, n))
    BY <1>6, <2>2
  <2> HIDE DEF n
  <2>6. WebQuietly
    BY <1>4, <2>4, <2>5, QuietPut
  <2> QED  BY <1>1, <1>6, <2>6, WebTakesQuietly DEF Faulty
<1>7. CASE p.event \notin {"invite", "confirm"} /\ Web!Receive(p) /\ UNCHANGED faults
  <2>1. CASE /\ p.event = "candidate" /\ active # 0 /\ overlay[active].view = "mounted"
             /\ Web!Seen(overlay[active], p).seq = p.seq
    BY <1>1, <1>2, <1>3, <1>7, <2>1, CandidateStep
  <2>2. CASE \/ p.event # "candidate" \/ active = 0 \/ overlay[active].view # "mounted"
             \/ Web!Seen(overlay[active], p).seq # p.seq
    <3>1. WebQuietly
      BY <1>3, <1>4, <1>7, <2>2, ReceiveQuiet
    <3> QED  BY <1>1, <1>7, <3>1, WebTakesQuietly DEF Faulty
  <2> QED  BY <2>1, <2>2
<1> QED  BY <1>2, <1>5, <1>6, <1>7 DEF Web!Deliver

=============================================================================
