---------------------------- MODULE PollsProofs -----------------------------
(***************************************************************************)
(* Proofs about Polls for any members, options and number of events.  What *)
(* a client makes of the topic is a replay, a recursive function over the  *)
(* events.  Induct, from the principle of the least number, gives          *)
(* induction over the events of one replay; the lemmas about replays say   *)
(* what every step of one has in common, and the invariants tie the polls  *)
(* that are shown to the replay of what was received.                      *)
(***************************************************************************)
EXTENDS Polls, Integers, FiniteSetTheorems, WellFoundedInduction, TLAPS

\* A poll that keeps the limit.
GoodPoll == {p \in Poll :
    IsFiniteSet(p.options) /\ Cardinality(p.options) <= MaxOptions}

-----------------------------------------------------------------------------
(* Induction over the numbers of the events *)

\* A set of natural numbers that is not empty has a least element.
LEMMA Least ==
  ASSUME NEW T, T \subseteq Nat, T # {}
  PROVE  \E m \in T : \A k \in T : m <= k
<1> DEFINE R == OpToRel(<, Nat)
<1>1. IsWellFoundedOn(R, Nat)
  BY NatLessThanWellFounded
<1>2. \A k, m \in Nat : k < m => <<k, m>> \in R
  BY DEF OpToRel
<1> HIDE DEF R
<1>3. PICK m \in T : \A k \in T : ~ (<<k, m>> \in R)
  BY <1>1, WFMin
<1>4. ASSUME NEW k \in T
      PROVE  m <= k
  <2>1. k \in Nat /\ m \in Nat
    OBVIOUS
  <2>2. ~ (k < m)
    BY <1>2, <1>3, <2>1
  <2> HIDE DEF R
  <2> QED
    BY <2>1, <2>2
<1> QED
  BY <1>3, <1>4

\* What holds of 0 and is handed on from each number to the next one holds of
\* every number up to N.
LEMMA Induct ==
  ASSUME NEW N \in Nat, NEW T, 0 \in T,
         \A n \in 1..N : n - 1 \in T => n \in T
  PROVE  \A n \in 0..N : n \in T
<1> DEFINE Left == {n \in 0..N : n \notin T}
<1>1. SUFFICES ASSUME Left # {}
               PROVE  FALSE
  OBVIOUS
<1>2. Left \subseteq Nat
  OBVIOUS
<1>3. PICK m \in Left : \A k \in Left : m <= k
  BY <1>1, <1>2, Least
<1>4. m \in 1..N /\ m - 1 \in 0..N
  BY <1>3
<1>5. m - 1 \notin Left
  BY <1>3, <1>4
<1> QED
  BY <1>3, <1>4, <1>5

\* step[n] takes every member of S to a member of S.
Steps(step, N, S) == \A n \in 1..N : \A x \in S : step[n][x] \in S

\* f goes from base through the first N steps.
Repeats(f, step, N, S, base) ==
  f \in [0..N -> S] /\ f[0] = base /\ \A n \in 1..N : f[n] = step[n][f[n - 1]]

\* A step that is total on S can be repeated N times.
LEMMA Recursion ==
  ASSUME NEW S, NEW N \in Nat, NEW base \in S, NEW step, Steps(step, N, S)
  PROVE  \E f : Repeats(f, step, N, S, base)
<1> DEFINE Runs(m) == {f \in [0..m -> S] :
                 f[0] = base /\ \A n \in 1..m : f[n] = step[n][f[n - 1]]}
           T == {m \in 0..N : Runs(m) # {}}
<1>1. 0 \in T
  <2>1. [n \in 0..0 |-> base] \in Runs(0)
    OBVIOUS
  <2> QED
    BY <2>1
<1>2. ASSUME NEW m \in 1..N, m - 1 \in T
      PROVE  m \in T
  <2>1. PICK f : f \in Runs(m - 1)
    BY <1>2
  <2> DEFINE g == [n \in 0..m |-> IF n = m THEN step[m][f[m - 1]] ELSE f[n]]
  <2>2. f[m - 1] \in S
    BY <2>1
  <2>3. g \in [0..m -> S]
    BY <2>1, <2>2 DEF Steps
  <2>4. g[0] = base
    BY <2>1
  <2>5. ASSUME NEW n \in 1..m
        PROVE  g[n] = step[n][g[n - 1]]
    <3>1. CASE n = m
      BY <3>1
    <3>2. CASE n # m
      <4>1. n \in 1..(m - 1) /\ n - 1 \in 0..m /\ n - 1 # m
        BY <3>2
      <4> QED
        BY <2>1, <4>1
    <3> QED
      BY <3>1, <3>2
  <2>6. g \in Runs(m)
    BY <2>3, <2>4, <2>5
  <2> QED
    BY <2>6
<1> HIDE DEF T
<1>3. \A n \in 0..N : n \in T
  BY <1>1, <1>2, Induct
<1>4. N \in T
  BY <1>3
<1> QED
  BY <1>4 DEF T, Repeats

-----------------------------------------------------------------------------
(* One step of a replay *)

\* What a step from p by e has in common on the web and on the phone.
Follows(p, e, members, q) ==
  /\ q \in GoodPoll
  /\ q.locked <=> (p.locked \/ (IsLock(e) /\ (e.actor = Creator \/ e.actor \in members)))
  /\ p.options \subseteq q.options
  /\ \A o \in q.options : o \in p.options \/ (e.kind = "option" /\ o = e.option)
  /\ \A v \in Users : q.votes[v] # p.votes[v] =>
        /\ e.kind = "vote" /\ e.actor = v /\ ~p.locked
        /\ q.votes[v] \subseteq e.options

\* The fields of an event.
LEMMA EventFields ==
  ASSUME NEW e \in Event
  PROVE  /\ e.actor \in Users /\ e.kind \in {"vote", "option", "lock"}
         /\ e.kind = "vote" => e.late \in BOOLEAN /\ e.options \in Selections
         /\ e.kind = "option" => e.late \in BOOLEAN /\ e.option \in Extra
BY DEF Event

\* A locked poll differs from the open one in nothing else.
LEMMA LockFollows ==
  ASSUME NEW p \in GoodPoll, NEW e \in Event, NEW members,
         e.kind = "lock", CanLock(p, e.actor, members)
  PROVE  /\ Follows(p, e, members, [p EXCEPT !.locked = TRUE])
         /\ [p EXCEPT !.locked = TRUE].options = p.options
         /\ [p EXCEPT !.locked = TRUE].votes = p.votes
<1> DEFINE q == [p EXCEPT !.locked = TRUE]
<1>1. p \in Poll
  BY DEF GoodPoll
<1>2. q \in Poll /\ q.options = p.options /\ q.votes = p.votes /\ q.locked
  BY <1>1 DEF Poll
<1>3. q \in GoodPoll
  BY <1>2 DEF GoodPoll
<1>4. e.actor = Creator \/ e.actor \in members
  BY DEF CanLock
<1> HIDE DEF q
<1>5. Follows(p, e, members, q)
  BY <1>2, <1>3, <1>4 DEF Follows, IsLock
<1> QED
  BY <1>2, <1>5 DEF q

\* An option is added below the limit only.
LEMMA OptionFollows ==
  ASSUME NEW p \in GoodPoll, NEW e \in Event, NEW members, AddsOption(p, e)
  PROVE  /\ Follows(p, e, members, [p EXCEPT !.options = @ \cup {e.option}])
         /\ [p EXCEPT !.options = @ \cup {e.option}].options = p.options \cup {e.option}
         /\ [p EXCEPT !.options = @ \cup {e.option}].votes = p.votes
<1> DEFINE q == [p EXCEPT !.options = @ \cup {e.option}]
<1>1. p \in Poll /\ IsFiniteSet(p.options)
  BY DEF GoodPoll
<1>2. e.kind = "option" /\ Cardinality(p.options) < MaxOptions
  BY DEF AddsOption
<1>3. e.option \in AllOptions
  BY <1>2, EventFields DEF AllOptions
<1>4. /\ q \in Poll /\ q.options = p.options \cup {e.option}
      /\ q.votes = p.votes /\ q.locked = p.locked
  BY <1>1, <1>3 DEF Poll
<1>5. IsFiniteSet(p.options \cup {e.option}) /\
      Cardinality(p.options \cup {e.option}) <= MaxOptions
  <2>1. IsFiniteSet(p.options \cup {e.option})
    BY <1>1, FS_AddElement
  <2>2. \/ Cardinality(p.options \cup {e.option}) = Cardinality(p.options)
        \/ Cardinality(p.options \cup {e.option}) = Cardinality(p.options) + 1
    BY <1>1, FS_AddElement
  <2>3. Cardinality(p.options) \in Nat
    BY <1>1, FS_CardinalityType
  <2> QED
    BY <1>2, <2>1, <2>2, <2>3, LimitAssumption
<1>6. q \in GoodPoll
  BY <1>4, <1>5 DEF GoodPoll
<1> HIDE DEF q
<1>7. ~IsLock(e)
  BY <1>2 DEF IsLock
<1>8. Follows(p, e, members, q)
  BY <1>2, <1>4, <1>6, <1>7 DEF Follows
<1> QED
  BY <1>4, <1>8 DEF q

\* A vote replaces the earlier vote of the same member.
LEMMA VoteFollows ==
  ASSUME NEW p \in GoodPoll, NEW e \in Event, NEW members,
         e.kind = "vote", ~p.locked
  PROVE  /\ Follows(p, e, members, [p EXCEPT !.votes[e.actor] = e.options \cap p.options])
         /\ [p EXCEPT !.votes[e.actor] = e.options \cap p.options].options = p.options
         /\ [p EXCEPT !.votes[e.actor] = e.options \cap p.options].votes
              = [p.votes EXCEPT ![e.actor] = e.options \cap p.options]
<1> DEFINE q == [p EXCEPT !.votes[e.actor] = e.options \cap p.options]
           counted == e.options \cap p.options
<1>1. p \in Poll
  BY DEF GoodPoll
<1>2. e.actor \in Users
  BY EventFields
<1>3. counted \in SUBSET AllOptions
  BY <1>1 DEF Poll
<1>4. /\ q \in Poll /\ q.options = p.options /\ q.locked = p.locked
      /\ q.votes = [p.votes EXCEPT ![e.actor] = counted]
  BY <1>1, <1>2, <1>3 DEF Poll
<1>5. q \in GoodPoll
  BY <1>4 DEF GoodPoll
<1> HIDE DEF q
<1>6. ~IsLock(e)
  BY DEF IsLock
<1>7. p.votes \in [Users -> SUBSET AllOptions]
  BY <1>1 DEF Poll
<1>8. \A v \in Users : q.votes[v] # p.votes[v] => e.actor = v /\ q.votes[v] \subseteq e.options
  BY <1>2, <1>4, <1>7
<1>9. Follows(p, e, members, q)
  BY <1>4, <1>5, <1>6, <1>8 DEF Follows
<1> QED
  BY <1>4, <1>9 DEF q

\* An event that a client does not count.
LEMMA NothingFollows ==
  ASSUME NEW p \in GoodPoll, NEW e \in Event, NEW members,
         e.kind = "lock" => ~CanLock(p, e.actor, members)
  PROVE  Follows(p, e, members, p)
BY DEF Follows, IsLock, CanLock

\* What the web client's step does: it follows the event, loses no vote, and
\* counts the options and votes that are neither late nor refused.
LEMMA WebFollows ==
  ASSUME NEW p \in GoodPoll, NEW e \in Event, NEW members
  PROVE  /\ Follows(p, e, members, WebApply(p, e, members))
         /\ Voters(p) \subseteq Voters(WebApply(p, e, members))
         /\ IsLock(e) => /\ WebApply(p, e, members).options = p.options
                         /\ WebApply(p, e, members).votes = p.votes
<1> DEFINE q == WebApply(p, e, members)
<1>1. CASE e.kind = "lock" /\ CanLock(p, e.actor, members)
  <2>1. q = [p EXCEPT !.locked = TRUE]
    BY <1>1 DEF WebApply, AddsOption
  <2>2. Follows(p, e, members, q) /\ q.options = p.options /\ q.votes = p.votes
    BY <1>1, <2>1, LockFollows
  <2> HIDE DEF q
  <2>3. Voters(p) \subseteq Voters(q)
    BY <2>2 DEF Voters
  <2> QED
    BY <2>2, <2>3 DEF q
<1>2. CASE AddsOption(p, e) /\ ~e.late
  <2>1. e.kind = "option"
    BY <1>2 DEF AddsOption
  <2>2. q = [p EXCEPT !.options = @ \cup {e.option}]
    BY <1>2, <2>1 DEF WebApply
  <2>3. Follows(p, e, members, q) /\ q.votes = p.votes
    BY <1>2, <2>2, OptionFollows
  <2> HIDE DEF q
  <2>4. Voters(p) \subseteq Voters(q) /\ ~IsLock(e)
    BY <2>1, <2>3 DEF Voters, IsLock
  <2> QED
    BY <2>3, <2>4 DEF q
<1>3. CASE e.kind = "vote" /\ ~p.locked /\ ~e.late /\ e.options \cap p.options # {}
  <2>1. q = [p EXCEPT !.votes[e.actor] = e.options \cap p.options]
    BY <1>3 DEF WebApply, AddsOption
  <2>2. /\ Follows(p, e, members, q)
        /\ q.votes = [p.votes EXCEPT ![e.actor] = e.options \cap p.options]
    BY <1>3, <2>1, VoteFollows
  <2>3. p.votes \in [Users -> SUBSET AllOptions]
    BY DEF GoodPoll, Poll
  <2> HIDE DEF q
  <2>4. Voters(p) \subseteq Voters(q) /\ ~IsLock(e)
    BY <1>3, <2>2, <2>3 DEF Voters, IsLock
  <2> QED
    BY <2>2, <2>4 DEF q
<1>4. CASE /\ ~(e.kind = "lock" /\ CanLock(p, e.actor, members))
           /\ ~(AddsOption(p, e) /\ ~e.late)
           /\ ~(e.kind = "vote" /\ ~p.locked /\ ~e.late /\ e.options \cap p.options # {})
  <2>1. q = p
    BY <1>4 DEF WebApply
  <2>2. Follows(p, e, members, p)
    BY <1>4, NothingFollows
  <2> QED
    BY <2>1, <2>2
<1> QED
  BY <1>1, <1>2, <1>3, <1>4

\* What the phone's step does.
LEMMA PhoneFollows ==
  ASSUME NEW p \in GoodPoll, NEW e \in Event, NEW members, NEW expired
  PROVE  Follows(p, e, members, PhoneApply(p, e, members, expired))
<1> DEFINE q == PhoneApply(p, e, members, expired)
<1>1. CASE e.kind = "lock" /\ CanLock(p, e.actor, members)
  <2>1. q = [p EXCEPT !.locked = TRUE]
    BY <1>1 DEF PhoneApply, AddsOption
  <2> QED
    BY <1>1, <2>1, LockFollows
<1>2. CASE AddsOption(p, e) /\ ~expired
  <2>1. e.kind = "option"
    BY <1>2 DEF AddsOption
  <2>2. q = [p EXCEPT !.options = @ \cup {e.option}]
    BY <1>2, <2>1 DEF PhoneApply
  <2> QED
    BY <1>2, <2>2, OptionFollows
<1>3. CASE e.kind = "vote" /\ ~p.locked /\ ~expired
  <2>1. q = [p EXCEPT !.votes[e.actor] = e.options \cap p.options]
    BY <1>3 DEF PhoneApply, AddsOption
  <2> QED
    BY <1>3, <2>1, VoteFollows
<1>4. CASE /\ ~(e.kind = "lock" /\ CanLock(p, e.actor, members))
           /\ ~(AddsOption(p, e) /\ ~expired)
           /\ ~(e.kind = "vote" /\ ~p.locked /\ ~expired)
  <2>1. q = p
    BY <1>4 DEF PhoneApply
  <2>2. Follows(p, e, members, p)
    BY <1>4, NothingFollows
  <2> QED
    BY <2>1, <2>2
<1> QED
  BY <1>1, <1>2, <1>3, <1>4

\* In an open poll both steps do the same to events of the open poll: no vote
\* that only names options nobody knows, no lock by anybody but the creator.
LEMMA StepsAgree ==
  ASSUME NEW p \in GoodPoll, NEW e \in Event, NEW members, NEW expired, ~expired,
         ~IsLock(e) => ~e.late,
         IsLock(e) => e.actor = Creator,
         e.kind = "vote" => e.options \cap p.options # {}
  PROVE  WebApply(p, e, {}) = PhoneApply(p, e, members, expired)
<1>1. CASE e.kind = "lock"
  <2>1. CanLock(p, e.actor, {}) <=> CanLock(p, e.actor, members)
    BY <1>1 DEF CanLock, IsLock
  <2>2. ~AddsOption(p, e)
    BY <1>1 DEF AddsOption
  <2> QED
    BY <1>1, <2>1, <2>2 DEF WebApply, PhoneApply
<1>2. CASE e.kind # "lock"
  <2>1. ~e.late
    BY <1>2 DEF IsLock
  <2> QED
    BY <1>2, <2>1 DEF WebApply, PhoneApply
<1> QED
  BY <1>1, <1>2

-----------------------------------------------------------------------------
(* Replays *)

WebRun(f, events) ==
  /\ f \in [0..Len(events) -> GoodPoll]
  /\ f[0] = Root
  /\ \A n \in 1..Len(events) : f[n] = WebApply(f[n - 1], events[n], {})

LockRun(g, poll, events, members) ==
  /\ g \in [0..Len(events) -> GoodPoll]
  /\ g[0] = poll
  /\ \A n \in 1..Len(events) :
        g[n] = IF IsLock(events[n]) THEN WebApply(g[n - 1], events[n], members)
                                    ELSE g[n - 1]

PhoneRun(h, events, members, expired) ==
  /\ h \in [0..Len(events) -> GoodPoll]
  /\ h[0] = Root
  /\ \A n \in 1..Len(events) :
        h[n] = PhoneApply(h[n - 1], events[n], members, expired)

\* The poll as it was created.
LEMMA RootIsGood == Root \in GoodPoll
BY LimitAssumption DEF Root, GoodPoll, Poll, AllOptions

\* The web client's replay, before the roles are applied to the locks.
LEMMA WebReplay ==
  ASSUME NEW events \in Seq(Event)
  PROVE  \E f : /\ WebRun(f, events)
                /\ \A members : WebView(events, members)
                                  = Project(f[Len(events)], events, members)
<1> DEFINE N == Len(events)
           Is(f) == f = [n \in 0..N |->
               IF n = 0 THEN Root ELSE WebApply(f[n - 1], events[n], {})]
           step == [n \in 1..N |-> [x \in GoodPoll |-> WebApply(x, events[n], {})]]
<1>1. N \in Nat /\ \A n \in 1..N : events[n] \in Event
  OBVIOUS
<1>2. \A n \in 1..N : \A x \in GoodPoll :
         step[n][x] = WebApply(x, events[n], {}) /\ step[n][x] \in GoodPoll
  BY <1>1, WebFollows DEF Follows
<1> HIDE DEF N, step
<1>3. PICK e : Repeats(e, step, N, GoodPoll, Root)
  <2>1. Steps(step, N, GoodPoll)
    BY <1>2 DEF Steps
  <2> QED
    BY <1>1, <2>1, RootIsGood, Recursion
<1>4. Is(e)
  <2>1. ASSUME NEW n \in 1..N
        PROVE  e[n] = WebApply(e[n - 1], events[n], {})
    <3>1. n - 1 \in 0..N
      BY <1>1
    <3> QED
      BY <1>2, <1>3, <3>1 DEF Repeats
  <2> QED
    BY <1>1, <1>3, <2>1 DEF Repeats
<1> DEFINE f == CHOOSE f : Is(f)
<1>5. Is(f)
  BY <1>4
<1>6. \A members : WebView(events, members) = Project(f[N], events, members)
  BY DEF WebView, N
<1> HIDE DEF f
<1>7. /\ f[0] = Root
      /\ \A n \in 1..N : f[n] = WebApply(f[n - 1], events[n], {})
  BY <1>1, <1>5
<1> DEFINE T == {n \in 0..N : f[n] \in GoodPoll}
<1>8. 0 \in T
  BY <1>1, <1>7, RootIsGood
<1>9. ASSUME NEW n \in 1..N, n - 1 \in T
      PROVE  n \in T
  BY <1>1, <1>7, <1>9, WebFollows DEF Follows
<1> HIDE DEF T
<1>10. \A n \in 0..N : n \in T
  BY <1>1, <1>8, <1>9, Induct
<1>11. f \in [0..N -> GoodPoll]
  BY <1>5, <1>10 DEF T
<1>12. WebRun(f, events)
  BY <1>7, <1>11 DEF WebRun, N
<1> QED
  BY <1>6, <1>12 DEF N

\* The locks of a snapshot of roles, applied to a poll.
LEMMA LockReplay ==
  ASSUME NEW events \in Seq(Event), NEW poll \in GoodPoll, NEW members
  PROVE  \E g : /\ LockRun(g, poll, events, members)
                /\ Project(poll, events, members) = g[Len(events)]
<1> DEFINE N == Len(events)
           Apply(x, n) == IF IsLock(events[n]) THEN WebApply(x, events[n], members)
                                               ELSE x
           Is(f) == f = [n \in 0..N |->
               IF n = 0 THEN poll
               ELSE IF IsLock(events[n])
                      THEN WebApply(f[n - 1], events[n], members)
                      ELSE f[n - 1]]
           step == [n \in 1..N |-> [x \in GoodPoll |-> Apply(x, n)]]
<1>1. N \in Nat /\ \A n \in 1..N : events[n] \in Event
  OBVIOUS
<1>2. \A n \in 1..N : \A x \in GoodPoll : Apply(x, n) \in GoodPoll
  BY <1>1, WebFollows DEF Follows
<1> HIDE DEF Apply
<1>3. \A n \in 1..N : \A x \in GoodPoll :
         step[n][x] = Apply(x, n) /\ step[n][x] \in GoodPoll
  BY <1>2
<1> HIDE DEF N, step
<1>4. PICK e : Repeats(e, step, N, GoodPoll, poll)
  <2>1. Steps(step, N, GoodPoll)
    BY <1>3 DEF Steps
  <2> QED
    BY <1>1, <2>1, Recursion
<1>5. Is(e)
  <2>1. ASSUME NEW n \in 1..N
        PROVE  e[n] = Apply(e[n - 1], n)
    <3>1. n - 1 \in 0..N
      BY <1>1
    <3> QED
      BY <1>3, <1>4, <3>1 DEF Repeats
  <2> QED
    BY <1>1, <1>4, <2>1 DEF Apply, Repeats
<1> DEFINE f == CHOOSE f : Is(f)
<1>6. Is(f)
  BY <1>5
<1>7. Project(poll, events, members) = f[N]
  BY DEF Project, N
<1> HIDE DEF f
<1>8. f[0] = poll /\ \A n \in 1..N : f[n] = Apply(f[n - 1], n)
  BY <1>1, <1>6 DEF Apply
<1> DEFINE T == {n \in 0..N : f[n] \in GoodPoll}
<1>9. 0 \in T
  BY <1>1, <1>8
<1>10. ASSUME NEW n \in 1..N, n - 1 \in T
       PROVE  n \in T
  BY <1>1, <1>2, <1>8, <1>10
<1> HIDE DEF T
<1>11. \A n \in 0..N : n \in T
  BY <1>1, <1>9, <1>10, Induct
<1>12. f \in [0..N -> GoodPoll]
  BY <1>6, <1>11 DEF T
<1>13. LockRun(f, poll, events, members)
  BY <1>8, <1>12 DEF LockRun, N, Apply
<1> QED
  BY <1>7, <1>13 DEF N

\* The phone's replay.
LEMMA PhoneReplay ==
  ASSUME NEW events \in Seq(Event), NEW members, NEW expired
  PROVE  \E h : /\ PhoneRun(h, events, members, expired)
                /\ PhoneView(events, members, expired) = h[Len(events)]
<1> DEFINE N == Len(events)
           Apply(x, n) == PhoneApply(x, events[n], members, expired)
           Is(f) == f = [n \in 0..N |->
               IF n = 0 THEN Root
               ELSE PhoneApply(f[n - 1], events[n], members, expired)]
           step == [n \in 1..N |-> [x \in GoodPoll |-> Apply(x, n)]]
<1>1. N \in Nat /\ \A n \in 1..N : events[n] \in Event
  OBVIOUS
<1>2. \A n \in 1..N : \A x \in GoodPoll : Apply(x, n) \in GoodPoll
  BY <1>1, PhoneFollows DEF Follows
<1> HIDE DEF Apply
<1>3. \A n \in 1..N : \A x \in GoodPoll :
         step[n][x] = Apply(x, n) /\ step[n][x] \in GoodPoll
  BY <1>2
<1> HIDE DEF N, step
<1>4. PICK e : Repeats(e, step, N, GoodPoll, Root)
  <2>1. Steps(step, N, GoodPoll)
    BY <1>3 DEF Steps
  <2> QED
    BY <1>1, <2>1, RootIsGood, Recursion
<1>5. Is(e)
  <2>1. ASSUME NEW n \in 1..N
        PROVE  e[n] = Apply(e[n - 1], n)
    <3>1. n - 1 \in 0..N
      BY <1>1
    <3> QED
      BY <1>3, <1>4, <3>1 DEF Repeats
  <2> QED
    BY <1>1, <1>4, <2>1 DEF Apply, Repeats
<1> DEFINE f == CHOOSE f : Is(f)
<1>6. Is(f)
  BY <1>5
<1>7. PhoneView(events, members, expired) = f[N]
  BY DEF PhoneView, N
<1> HIDE DEF f
<1>8. f[0] = Root /\ \A n \in 1..N : f[n] = Apply(f[n - 1], n)
  BY <1>1, <1>6 DEF Apply
<1> DEFINE T == {n \in 0..N : f[n] \in GoodPoll}
<1>9. 0 \in T
  BY <1>1, <1>8, RootIsGood
<1>10. ASSUME NEW n \in 1..N, n - 1 \in T
       PROVE  n \in T
  BY <1>1, <1>2, <1>8, <1>10
<1> HIDE DEF T
<1>11. \A n \in 0..N : n \in T
  BY <1>1, <1>9, <1>10, Induct
<1>12. f \in [0..N -> GoodPoll]
  BY <1>6, <1>11 DEF T
<1>13. PhoneRun(f, events, members, expired)
  BY <1>8, <1>12 DEF PhoneRun, N, Apply
<1> QED
  BY <1>7, <1>13 DEF N

-----------------------------------------------------------------------------
(* What all replays have in common *)

\* A replay of the events from a poll, with the locks of some members.
Replay(f, poll, events, members) ==
  /\ f \in [0..Len(events) -> GoodPoll]
  /\ f[0] = poll
  /\ \A n \in 1..Len(events) : Follows(f[n - 1], events[n], members, f[n])

LockedBy(e, members) == IsLock(e) /\ (e.actor = Creator \/ e.actor \in members)

\* One of the first n events is a vote by v for at least the options s, and the
\* creator has locked the poll neither before nor with it.
Vouched(events, n, v, s) ==
  \E i \in 1..n :
      /\ events[i].kind = "vote" /\ events[i].actor = v
      /\ s \subseteq events[i].options
      /\ \A k \in 1..i : ~(IsLock(events[k]) /\ events[k].actor = Creator)

\* The options of the poll and those the first n events add.
Known(events, n) ==
  Options \cup {o \in Extra : \E i \in 1..n :
                    events[i].kind = "option" /\ events[i].option = o}

\* The web client's messages are a replay that nobody's role has a part in.
LEMMA WebRunIsReplay ==
  ASSUME NEW events \in Seq(Event), NEW f, WebRun(f, events)
  PROVE  Replay(f, Root, events, {})
<1>1. f \in [0..Len(events) -> GoodPoll] /\ f[0] = Root
  BY DEF WebRun
<1>2. ASSUME NEW n \in 1..Len(events)
      PROVE  Follows(f[n - 1], events[n], {}, f[n])
  <2>1. n - 1 \in 0..Len(events) /\ events[n] \in Event
    OBVIOUS
  <2>2. f[n - 1] \in GoodPoll /\ f[n] = WebApply(f[n - 1], events[n], {})
    BY <1>1, <2>1 DEF WebRun
  <2> QED
    BY <2>1, <2>2, WebFollows
<1> QED
  BY <1>1, <1>2 DEF Replay

\* The phone's messages are a replay with the roles it knows.
LEMMA PhoneRunIsReplay ==
  ASSUME NEW events \in Seq(Event), NEW members, NEW expired, NEW h,
         PhoneRun(h, events, members, expired)
  PROVE  Replay(h, Root, events, members)
<1>1. h \in [0..Len(events) -> GoodPoll] /\ h[0] = Root
  BY DEF PhoneRun
<1>2. ASSUME NEW n \in 1..Len(events)
      PROVE  Follows(h[n - 1], events[n], members, h[n])
  <2>1. n - 1 \in 0..Len(events) /\ events[n] \in Event
    OBVIOUS
  <2>2. /\ h[n - 1] \in GoodPoll
        /\ h[n] = PhoneApply(h[n - 1], events[n], members, expired)
    BY <1>1, <2>1 DEF PhoneRun
  <2> QED
    BY <2>1, <2>2, PhoneFollows
<1> QED
  BY <1>1, <1>2 DEF Replay

\* The locks alone are a replay that counts no vote and adds no option.
LEMMA LockRunIsReplay ==
  ASSUME NEW events \in Seq(Event), NEW poll, NEW members, NEW g,
         LockRun(g, poll, events, members)
  PROVE  /\ Replay(g, poll, events, members)
         /\ \A n \in 0..Len(events) : g[n].options = poll.options /\ g[n].votes = poll.votes
<1>1. g \in [0..Len(events) -> GoodPoll] /\ g[0] = poll
  BY DEF LockRun
<1>2. ASSUME NEW n \in 1..Len(events)
      PROVE  /\ Follows(g[n - 1], events[n], members, g[n])
             /\ g[n].options = g[n - 1].options /\ g[n].votes = g[n - 1].votes
  <2>1. n - 1 \in 0..Len(events) /\ events[n] \in Event
    OBVIOUS
  <2>2. g[n - 1] \in GoodPoll
    BY <1>1, <2>1
  <2>3. CASE IsLock(events[n])
    <3>1. g[n] = WebApply(g[n - 1], events[n], members)
      BY <2>3 DEF LockRun
    <3> QED
      BY <2>1, <2>2, <2>3, <3>1, WebFollows
  <2>4. CASE ~IsLock(events[n])
    <3>1. g[n] = g[n - 1]
      BY <2>4 DEF LockRun
    <3> QED
      BY <2>1, <2>2, <2>4, <3>1, NothingFollows DEF IsLock
  <2> QED
    BY <2>3, <2>4
<1>3. Replay(g, poll, events, members)
  BY <1>1, <1>2 DEF Replay
<1> DEFINE N == Len(events)
           T == {n \in 0..N : g[n].options = poll.options /\ g[n].votes = poll.votes}
<1>4. N \in Nat /\ 0 \in T
  BY <1>1
<1>5. ASSUME NEW n \in 1..N, n - 1 \in T
      PROVE  n \in T
  BY <1>2, <1>4, <1>5
<1> HIDE DEF T
<1>6. \A n \in 0..N : n \in T
  BY <1>4, <1>5, Induct
<1> QED
  BY <1>3, <1>6 DEF T

\* A replay ends locked when it began so or met the lock of an entitled member.
LEMMA ReplayLocked ==
  ASSUME NEW events \in Seq(Event), NEW poll, NEW members, NEW f,
         Replay(f, poll, events, members)
  PROVE  \A n \in 0..Len(events) : f[n].locked <=>
            (poll.locked \/ \E i \in 1..n : LockedBy(events[i], members))
<1> DEFINE N == Len(events)
           Met(n) == \E i \in 1..n : LockedBy(events[i], members)
           T == {n \in 0..N : f[n].locked <=> (poll.locked \/ Met(n))}
<1>1. N \in Nat /\ f[0] = poll
  BY DEF Replay
<1>2. ~Met(0)
  OBVIOUS
<1>3. 0 \in T
  <2> HIDE DEF Met
  <2> QED
    BY <1>1, <1>2
<1>4. ASSUME NEW n \in 1..N, n - 1 \in T
      PROVE  n \in T
  <2>1. f[n].locked <=> (f[n - 1].locked \/ LockedBy(events[n], members))
    BY DEF Replay, Follows, LockedBy
  <2>2. Met(n) <=> (Met(n - 1) \/ LockedBy(events[n], members))
    <3>1. 1..n = 1..(n - 1) \cup {n}
      BY <1>1
    <3> QED
      BY <3>1
  <2> HIDE DEF Met
  <2>3. f[n - 1].locked <=> (poll.locked \/ Met(n - 1))
    BY <1>4
  <2>4. f[n].locked <=> (poll.locked \/ Met(n))
    BY <2>1, <2>2, <2>3
  <2>5. n \in 0..N
    BY <1>1
  <2> QED
    BY <2>4, <2>5
<1> HIDE DEF T
<1>5. \A n \in 0..N : n \in T
  BY <1>1, <1>3, <1>4, Induct
<1> QED
  BY <1>5 DEF T

\* A vote that a replay of the whole topic counts was published while the
\* creator had not locked the poll.
LEMMA ReplayVotes ==
  ASSUME NEW events \in Seq(Event), NEW members, NEW f,
         Replay(f, Root, events, members)
  PROVE  \A n \in 0..Len(events) : \A v \in Voters(f[n]) :
            Vouched(events, n, v, f[n].votes[v])
<1> DEFINE N == Len(events)
           T == {n \in 0..N : \A v \in Voters(f[n]) :
                                 Vouched(events, n, v, f[n].votes[v])}
<1>1. N \in Nat /\ f[0] = Root
  BY DEF Replay
<1>2. 0 \in T
  BY <1>1 DEF Voters, Root
<1>3. ASSUME NEW n \in 1..N, n - 1 \in T
      PROVE  n \in T
  <2>1. n - 1 \in 0..N /\ n \in 0..N /\ n \in Nat
    BY <1>1
  <2>2. Follows(f[n - 1], events[n], members, f[n])
    BY DEF Replay
  <2>3. ASSUME NEW v \in Voters(f[n])
        PROVE  Vouched(events, n, v, f[n].votes[v])
    <3>1. v \in Users /\ f[n].votes[v] # {}
      BY DEF Voters
    <3>2. CASE f[n].votes[v] = f[n - 1].votes[v]
      <4>1. v \in Voters(f[n - 1])
        BY <3>1, <3>2 DEF Voters
      <4>2. Vouched(events, n - 1, v, f[n].votes[v])
        BY <1>3, <3>2, <4>1
      <4>3. 1..(n - 1) \subseteq 1..n
        BY <2>1
      <4> QED
        BY <4>2, <4>3 DEF Vouched
    <3>3. CASE f[n].votes[v] # f[n - 1].votes[v]
      <4>1. /\ events[n].kind = "vote" /\ events[n].actor = v
            /\ f[n].votes[v] \subseteq events[n].options /\ ~f[n - 1].locked
        BY <2>2, <3>1, <3>3 DEF Follows
      <4>2. \A k \in 1..(n - 1) : ~LockedBy(events[k], members)
        BY <2>1, <4>1, ReplayLocked
      <4>3. ~IsLock(events[n])
        BY <4>1 DEF IsLock
      <4>4. \A k \in 1..n : ~(IsLock(events[k]) /\ events[k].actor = Creator)
        <5>1. \A k \in 1..n : k \in 1..(n - 1) \/ k = n
          BY <2>1
        <5> QED
          BY <4>2, <4>3, <5>1 DEF LockedBy
      <4> QED
        BY <2>1, <4>1, <4>4 DEF Vouched
    <3> QED
      BY <3>2, <3>3
  <2> QED
    BY <2>1, <2>3
<1> HIDE DEF T
<1>4. \A n \in 0..N : n \in T
  BY <1>1, <1>2, <1>3, Induct
<1> QED
  BY <1>4 DEF T

\* A replay shows only options of the poll and options that were added to it.
LEMMA ReplayOptions ==
  ASSUME NEW events \in Seq(Event), NEW members, NEW f,
         Replay(f, Root, events, members)
  PROVE  \A n \in 0..Len(events) : f[n].options \subseteq Known(events, n)
<1> DEFINE N == Len(events)
           T == {n \in 0..N : f[n].options \subseteq Known(events, n)}
<1>1. N \in Nat /\ f[0] = Root
  BY DEF Replay
<1>2. 0 \in T
  BY <1>1 DEF Known, Root
<1>3. ASSUME NEW n \in 1..N, n - 1 \in T
      PROVE  n \in T
  <2>1. n \in 0..N /\ events[n] \in Event /\ n \in 1..n /\ 1..(n - 1) \subseteq 1..n
    BY <1>1
  <2>2. \A o \in f[n].options : \/ o \in f[n - 1].options
                                \/ events[n].kind = "option" /\ o = events[n].option
    BY DEF Replay, Follows
  <2>3. f[n - 1].options \subseteq Known(events, n)
    BY <1>3, <2>1 DEF Known
  <2>4. events[n].kind = "option" => events[n].option \in Known(events, n)
    BY <2>1, EventFields DEF Known
  <2> QED
    BY <2>1, <2>2, <2>3, <2>4
<1> HIDE DEF T
<1>4. \A n \in 0..N : n \in T
  BY <1>1, <1>2, <1>3, Induct
<1> QED
  BY <1>4 DEF T

\* What the projection of a snapshot of roles changes: the lock only.
LEMMA ProjectIs ==
  ASSUME NEW events \in Seq(Event), NEW poll \in GoodPoll, NEW members
  PROVE  /\ Project(poll, events, members) \in GoodPoll
         /\ Project(poll, events, members).options = poll.options
         /\ Project(poll, events, members).votes = poll.votes
         /\ Project(poll, events, members).locked <=>
              (poll.locked \/ \E i \in 1..Len(events) : LockedBy(events[i], members))
<1>1. PICK g : /\ LockRun(g, poll, events, members)
               /\ Project(poll, events, members) = g[Len(events)]
  BY LockReplay
<1>2. Replay(g, poll, events, members)
  BY <1>1, LockRunIsReplay
<1>3. Len(events) \in 0..Len(events)
  OBVIOUS
<1>4. g[Len(events)].options = poll.options /\ g[Len(events)].votes = poll.votes
  BY <1>1, <1>3, LockRunIsReplay
<1>5. g[Len(events)].locked <=>
        (poll.locked \/ \E i \in 1..Len(events) : LockedBy(events[i], members))
  BY <1>2, <1>3, ReplayLocked
<1>6. g[Len(events)] \in GoodPoll
  BY <1>2, <1>3 DEF Replay
<1> QED
  BY <1>1, <1>4, <1>5, <1>6

\* The first events of the topic are replayed as in the replay of all of it.
LEMMA WebViewOf ==
  ASSUME NEW events \in Seq(Event), NEW f, WebRun(f, events),
         NEW n \in 0..Len(events), NEW members
  PROVE  /\ WebView(SubSeq(events, 1, n), members) \in GoodPoll
         /\ WebView(SubSeq(events, 1, n), members).options = f[n].options
         /\ WebView(SubSeq(events, 1, n), members).votes = f[n].votes
         /\ WebView(SubSeq(events, 1, n), members).locked <=>
              \E i \in 1..n : LockedBy(events[i], members)
<1> DEFINE part == SubSeq(events, 1, n)
<1>1. /\ part \in Seq(Event) /\ Len(part) = n /\ n \in Nat
      /\ \A i \in 1..n : part[i] = events[i]
  OBVIOUS
<1> HIDE DEF part
<1>2. PICK g : WebRun(g, part) /\ WebView(part, members) = Project(g[n], part, members)
  BY <1>1, WebReplay
<1> DEFINE T == {k \in 0..n : g[k] = f[k]}
<1>3. 0 \in T
  BY <1>1, <1>2 DEF WebRun
<1>4. ASSUME NEW k \in 1..n, k - 1 \in T
      PROVE  k \in T
  <2>1. g[k] = WebApply(g[k - 1], events[k], {})
    BY <1>1, <1>2 DEF WebRun
  <2>2. k \in 1..Len(events)
    BY <1>1
  <2>3. f[k] = WebApply(f[k - 1], events[k], {})
    BY <2>2 DEF WebRun
  <2> QED
    BY <1>1, <1>4, <2>1, <2>3
<1> HIDE DEF T
<1>5. \A k \in 0..n : k \in T
  BY <1>1, <1>3, <1>4, Induct
<1>6. g[n] = f[n]
  BY <1>1, <1>5 DEF T
<1>7. f[n] \in GoodPoll
  BY DEF WebRun
<1>8. f[n].locked => \E i \in 1..n : LockedBy(events[i], members)
  <2>1. Replay(f, Root, events, {})
    BY WebRunIsReplay
  <2>2. ~Root.locked
    BY DEF Root
  <2>3. f[n].locked => \E i \in 1..n : LockedBy(events[i], {})
    BY <2>1, <2>2, ReplayLocked
  <2> QED
    BY <2>3 DEF LockedBy
<1>9. (\E i \in 1..Len(part) : LockedBy(part[i], members)) <=>
        \E i \in 1..n : LockedBy(events[i], members)
  BY <1>1
<1>10. WebView(part, members) = Project(f[n], part, members)
  BY <1>2, <1>6
<1>11. /\ Project(f[n], part, members) \in GoodPoll
       /\ Project(f[n], part, members).options = f[n].options
       /\ Project(f[n], part, members).votes = f[n].votes
       /\ Project(f[n], part, members).locked <=>
            (f[n].locked \/ \E i \in 1..Len(part) : LockedBy(part[i], members))
  BY <1>1, <1>7, ProjectIs
<1> QED
  BY <1>8, <1>9, <1>10, <1>11 DEF part

-----------------------------------------------------------------------------
(* The invariants *)

\* TypeOK with the limit that a replay needs, and who publishes what.
Typed ==
  /\ over \in BOOLEAN
  /\ log \in Seq(Event) /\ Len(log) <= MaxEvents
  /\ out \in [Users -> Event \cup {None}]
  /\ got \in [Users -> 0..Len(log)]
  /\ knows \in [Users -> SUBSET Deputies]
  /\ shown \in [Users -> GoodPoll]
  /\ \A u \in Users : out[u] # None => out[u].actor = u

\* What the guards of the clients leave an event to be, after n events of
\* which some are known to add an option.
Sensible(e, events, n) ==
  /\ ~IsLock(e) /\ e.late => over
  /\ e.kind = "option" => AllowAddOptions
  /\ e.kind = "vote" => e.options \subseteq Known(events, n)

SensibleLog == \A n \in 1..Len(log) : Sensible(log[n], log, n - 1)

SensibleOut == \A u \in Users : out[u] # None => Sensible(out[u], log, Len(log))

\* Every option that a client shows is known from the topic.
OptionsKnown == \A u \in Users : shown[u].options \subseteq Known(log, Len(log))

\* Every vote of another member that a client shows was received by it and
\* published before any lock of the creator.
VotesVouched == \A u \in Users : \A v \in Voters(shown[u]) \ {u} :
  Vouched(log, got[u], v, shown[u].votes[v])

\* The web client's replay of what it received counts every voter it shows.
VotersReplayed == \A u \in Web : Voters(shown[u]) \ {u}
  \subseteq Voters(WebView(SubSeq(log, 1, got[u]), {}))

\* What the phone makes of the first events of the topic.
LEMMA PhoneViewOf ==
  ASSUME NEW events \in Seq(Event), NEW n \in 0..Len(events), NEW members, NEW expired
  PROVE  LET p == PhoneView(SubSeq(events, 1, n), members, expired)
         IN  /\ p \in GoodPoll /\ p.options \subseteq Known(events, n)
             /\ \A v \in Voters(p) : Vouched(events, n, v, p.votes[v])
             /\ p.locked <=> \E i \in 1..n : LockedBy(events[i], members)
<1> DEFINE part == SubSeq(events, 1, n)
<1>1. /\ part \in Seq(Event) /\ Len(part) = n /\ n \in Nat
      /\ \A i \in 1..n : part[i] = events[i]
  OBVIOUS
<1> HIDE DEF part
<1>2. PICK h : /\ PhoneRun(h, part, members, expired)
               /\ PhoneView(part, members, expired) = h[n]
  BY <1>1, PhoneReplay
<1>3. Replay(h, Root, part, members)
  BY <1>1, <1>2, PhoneRunIsReplay
<1>4. n \in 0..Len(part)
  BY <1>1
<1>5. h[n] \in GoodPoll
  BY <1>3, <1>4 DEF Replay
<1>6. h[n].options \subseteq Known(part, n)
  BY <1>1, <1>3, <1>4, ReplayOptions
<1>7. Known(part, n) = Known(events, n)
  BY <1>1 DEF Known
<1>8. \A v \in Voters(h[n]) : Vouched(part, n, v, h[n].votes[v])
  BY <1>1, <1>3, <1>4, ReplayVotes
<1>9. \A v, s : Vouched(part, n, v, s) => Vouched(events, n, v, s)
  <2>1. \A i \in 1..n : i \in 1..Len(part) /\ \A k \in 1..i : k \in 1..n
    BY <1>1
  <2> QED
    BY <1>1, <2>1 DEF Vouched
<1>10. h[n].locked <=> \E i \in 1..n : LockedBy(part[i], members)
  <2>1. ~Root.locked
    BY DEF Root
  <2> QED
    BY <1>1, <1>3, <1>4, <2>1, ReplayLocked
<1>11. h[n].locked <=> \E i \in 1..n : LockedBy(events[i], members)
  BY <1>1, <1>10
<1> QED
  BY <1>2, <1>5, <1>6, <1>7, <1>8, <1>9, <1>11 DEF part

\* What either client makes of the first events of the topic.
LEMMA ViewOf ==
  ASSUME NEW events \in Seq(Event), NEW n \in 0..Len(events), NEW members, NEW u
  PROVE  LET p == View(u, SubSeq(events, 1, n), members)
         IN  /\ p \in GoodPoll /\ p.options \subseteq Known(events, n)
             /\ \A v \in Voters(p) : Vouched(events, n, v, p.votes[v])
<1>1. CASE u \in Web
  <2>1. PICK f : WebRun(f, events)
    BY WebReplay
  <2>2. Replay(f, Root, events, {})
    BY <2>1, WebRunIsReplay
  <2> DEFINE p == WebView(SubSeq(events, 1, n), members)
  <2>3. p \in GoodPoll /\ p.options = f[n].options /\ p.votes = f[n].votes
    BY <2>1, WebViewOf
  <2>4. f[n].options \subseteq Known(events, n)
    BY <2>2, ReplayOptions
  <2>5. \A v \in Voters(f[n]) : Vouched(events, n, v, f[n].votes[v])
    BY <2>2, ReplayVotes
  <2> HIDE DEF p
  <2>6. Voters(p) = Voters(f[n])
    BY <2>3 DEF Voters
  <2>7. View(u, SubSeq(events, 1, n), members) = p
    BY <1>1 DEF View, p
  <2> QED
    BY <2>3, <2>4, <2>5, <2>6, <2>7
<1>2. CASE u \notin Web
  BY <1>2, PhoneViewOf DEF View
<1> QED
  BY <1>1, <1>2

\* A restarted client replays the whole topic.
LEMMA WholeTopic ==
  ASSUME NEW events \in Seq(Event)
  PROVE  SubSeq(events, 1, Len(events)) = events /\ Len(events) \in 0..Len(events)
OBVIOUS

-----------------------------------------------------------------------------
(* Type correctness *)

\* An event stamped again is the same event but for its lateness.
LEMMA StampedFields ==
  ASSUME Typed, NEW u \in Users, out[u] # None, NEW e \in Stamped(u)
  PROVE  /\ e \in Event /\ e.kind = out[u].kind /\ e.actor = out[u].actor
         /\ e.kind = "vote" => e.options = out[u].options
         /\ e.kind = "option" => e.option = out[u].option
         /\ ~IsLock(e) => e.late \in {out[u].late, over}
<1>1. out[u] \in Event /\ over \in BOOLEAN
  BY DEF Typed
<1>2. CASE e = out[u]
  BY <1>1, <1>2
<1>3. CASE e # out[u]
  <2>1. ~IsLock(out[u]) /\ e = [out[u] EXCEPT !.late = over]
    BY <1>3 DEF Stamped
  <2>2. CASE out[u].kind = "vote"
    BY <1>1, <2>1, <2>2 DEF Event
  <2>3. CASE out[u].kind = "option"
    BY <1>1, <2>1, <2>3 DEF Event
  <2> QED
    BY <1>1, <2>1, <2>2, <2>3, EventFields DEF IsLock
<1> QED
  BY <1>2, <1>3

\* The invariant holds at first.
LEMMA TypedInit == Init => Typed
<1> SUFFICES ASSUME Init
             PROVE  Typed
  OBVIOUS
<1>1. log \in Seq(Event) /\ Len(log) = 0 /\ Len(log) <= MaxEvents
  BY BoundAssumption DEF Init
<1>2. shown \in [Users -> GoodPoll]
  BY RootIsGood DEF Init
<1>3. over \in BOOLEAN /\ knows \in [Users -> SUBSET Deputies]
  BY DEF Init
<1>4. got \in [Users -> 0..Len(log)]
  BY <1>1 DEF Init
<1>5. /\ out \in [Users -> Event \cup {None}]
      /\ \A u \in Users : out[u] = None
  BY DEF Init
<1> QED
  BY <1>1, <1>2, <1>3, <1>4, <1>5 DEF Typed

\* It is preserved: by what a member does with its client ...
LEMMA TypedAct ==
  ASSUME Typed, NEW u \in Users, Vote(u) \/ AddOption(u) \/ Lock(u) \/ PublishFails(u)
  PROVE  Typed'
<1>1. ASSUME NEW e \in Event, e.actor = u, Act(u, e)
      PROVE  Typed'
  BY <1>1 DEF Typed, Act
<1>2. over \in BOOLEAN
  BY DEF Typed
<1>3. CASE Vote(u)
  <2>1. PICK s \in Selections :
           Act(u, [kind |-> "vote", actor |-> u, options |-> s, late |-> over])
    BY <1>3 DEF Vote
  <2>2. [kind |-> "vote", actor |-> u, options |-> s, late |-> over] \in Event
    BY <1>2 DEF Event
  <2> QED
    BY <1>1, <2>1, <2>2
<1>4. CASE AddOption(u)
  <2>1. PICK o \in Extra :
           Act(u, [kind |-> "option", actor |-> u, option |-> o, late |-> over])
    BY <1>4 DEF AddOption
  <2>2. [kind |-> "option", actor |-> u, option |-> o, late |-> over] \in Event
    BY <1>2 DEF Event
  <2> QED
    BY <1>1, <2>1, <2>2
<1>5. CASE Lock(u)
  <2>1. [kind |-> "lock", actor |-> u] \in Event
    BY DEF Event
  <2> QED
    BY <1>1, <1>5, <2>1 DEF Lock
<1>6. CASE PublishFails(u)
  BY <1>6 DEF Typed, PublishFails
<1> QED
  BY <1>3, <1>4, <1>5, <1>6

\* ... by a message that Tinode accepts ...
LEMMA TypedPublish ==
  ASSUME Typed, NEW u \in Users, Publish(u)
  PROVE  Typed'
<1>1. PICK e \in Stamped(u) :
         /\ log' = Append(log, e)
         /\ shown' = IF u \in Web
                       THEN [shown EXCEPT ![u] = WebApply(@, e, knows[u])]
                       ELSE shown
  BY DEF Publish
<1>2. out[u] # None /\ Len(log) < MaxEvents
  BY DEF Publish
<1>3. e \in Event
  BY <1>1, <1>2, StampedFields
<1>4. log' \in Seq(Event) /\ Len(log') = Len(log) + 1 /\ Len(log') <= MaxEvents
  BY <1>1, <1>2, <1>3, BoundAssumption DEF Typed
<1>5. shown' \in [Users -> GoodPoll]
  <2>1. WebApply(shown[u], e, knows[u]) \in GoodPoll
    BY <1>3, WebFollows DEF Typed, Follows
  <2> QED
    BY <1>1, <2>1 DEF Typed
<1>6. got' \in [Users -> 0..Len(log')]
  <2>1. got' = [got EXCEPT ![u] = Len(log) + 1]
    BY DEF Publish
  <2>2. Len(log) \in Nat /\ got \in [Users -> 0..Len(log)]
    BY DEF Typed
  <2>3. 0..Len(log) \subseteq 0..(Len(log) + 1) /\ Len(log) + 1 \in 0..(Len(log) + 1)
    BY <2>2
  <2> QED
    BY <1>4, <2>1, <2>2, <2>3
<1>7. /\ out' \in [Users -> Event \cup {None}]
      /\ \A w \in Users : out'[w] # None => out'[w].actor = w
  BY DEF Typed, Publish
<1>8. over' \in BOOLEAN /\ knows' \in [Users -> SUBSET Deputies]
  BY DEF Typed, Publish
<1> QED
  BY <1>4, <1>5, <1>6, <1>7, <1>8 DEF Typed

\* ... and by what a client is told.
LEMMA TypedView ==
  ASSUME Typed, NEW u \in Users, Receive(u) \/ ReceiveMembers(u) \/ Reload(u)
  PROVE  Typed'
<1>1. log \in Seq(Event) /\ got[u] \in 0..Len(log)
  BY DEF Typed
<1>2. CASE Receive(u)
  <2>1. PICK n \in got[u]..Len(log) :
           /\ got' = [got EXCEPT ![u] = n]
           /\ shown' = [shown EXCEPT ![u] = View(u, SubSeq(log, 1, n), knows[u])]
           /\ UNCHANGED <<over, log, out, knows>>
    BY <1>2 DEF Receive
  <2>2. n \in 0..Len(log)
    BY <1>1
  <2>3. View(u, SubSeq(log, 1, n), knows[u]) \in GoodPoll
    BY <1>1, <2>2, ViewOf
  <2> QED
    BY <2>1, <2>2, <2>3 DEF Typed
<1>3. CASE ReceiveMembers(u)
  <2>1. PICK members \in SUBSET Deputies :
           /\ knows' = [knows EXCEPT ![u] = members]
           /\ shown' = IF u \in Web
                         THEN [shown EXCEPT
                                 ![u] = Project(@, SubSeq(log, 1, got[u]), members)]
                         ELSE shown
           /\ UNCHANGED <<over, log, out, got>>
    BY <1>3 DEF ReceiveMembers
  <2>2. SubSeq(log, 1, got[u]) \in Seq(Event) /\ shown[u] \in GoodPoll
    BY <1>1 DEF Typed
  <2>3. Project(shown[u], SubSeq(log, 1, got[u]), members) \in GoodPoll
    BY <2>2, ProjectIs
  <2> QED
    BY <2>1, <2>3 DEF Typed
<1>4. CASE Reload(u)
  <2>1. View(u, log, {}) \in GoodPoll
    BY <1>1, WholeTopic, ViewOf
  <2>2. Len(log) \in 0..Len(log)
    BY <1>1
  <2> QED
    BY <1>4, <2>1, <2>2 DEF Typed, Reload
<1> QED
  BY <1>2, <1>3, <1>4

\* Every step preserves it.
LEMMA TypedStep == Typed /\ [Next]_vars => Typed'
<1>1. CASE Typed /\ UNCHANGED vars
  BY <1>1 DEF Typed, vars
<1>2. CASE Typed /\ Expire
  BY <1>2 DEF Typed, Expire
<1> QED
  BY <1>1, <1>2, TypedAct, TypedPublish, TypedView DEF Next

\* The invariant.
LEMMA TypedAlways == Spec => []Typed
BY TypedInit, TypedStep, PTL DEF Spec

\* No client ever shows more options than a poll may have, whoever adds the
\* last one first; and all variables keep their types.
THEOREM PollsTyped == Spec => []TypeOK
<1>1. Typed => TypeOK
  BY DEF Typed, TypeOK, GoodPoll
<1> QED
  BY <1>1, TypedAlways, PTL

-----------------------------------------------------------------------------
(* Locks *)

\* Both clients show a poll locked exactly when its creator, or somebody their
\* snapshot names owner or deputy, has locked it, whatever came in between.
THEOREM LocksShown == Spec => []LocksAreShown
<1>1. ASSUME Typed
      PROVE  LocksAreShown
  <2>1. log \in Seq(Event)
    BY <1>1 DEF Typed
  <2>2. SubSeq(log, 1, Len(log)) = log /\ Len(log) \in 0..Len(log)
    BY <2>1, WholeTopic
  <2>3. ASSUME NEW members \in SUBSET Deputies
        PROVE  LET Entitled == \E i \in 1..Len(log) :
                       IsLock(log[i]) /\ log[i].actor \in members \cup {Creator}
               IN  /\ WebView(log, members).locked = Entitled
                   /\ PhoneView(log, members, over).locked = Entitled
    <3> DEFINE Entitled == \E i \in 1..Len(log) :
                       IsLock(log[i]) /\ log[i].actor \in members \cup {Creator}
    <3>1. Entitled <=> \E i \in 1..Len(log) : LockedBy(log[i], members)
      BY DEF LockedBy
    <3>2. PICK f : WebRun(f, log)
      BY <2>1, WebReplay
    <3>3. /\ WebView(log, members) \in GoodPoll
          /\ WebView(log, members).locked <=> Entitled
      BY <2>1, <2>2, <3>1, <3>2, WebViewOf
    <3>4. /\ PhoneView(log, members, over) \in GoodPoll
          /\ PhoneView(log, members, over).locked <=> Entitled
      BY <2>1, <2>2, <3>1, PhoneViewOf
    <3> HIDE DEF Entitled
    <3>5. /\ WebView(log, members).locked \in BOOLEAN
          /\ PhoneView(log, members, over).locked \in BOOLEAN
      BY <3>3, <3>4 DEF GoodPoll, Poll
    <3>6. Entitled \in BOOLEAN
      BY DEF Entitled
    <3>7. /\ WebView(log, members).locked = Entitled
          /\ PhoneView(log, members, over).locked = Entitled
      BY <3>3, <3>4, <3>5, <3>6
    <3> QED
      BY <3>7 DEF Entitled
  <2> QED
    BY <2>3 DEF LocksAreShown
<1> QED
  BY <1>1, TypedAlways, PTL

-----------------------------------------------------------------------------
(* Votes *)

\* more begins with events.
Extended(events, more) ==
  Len(events) <= Len(more) /\ \A i \in 1..Len(events) : more[i] = events[i]

\* A vote that was received is still received when the topic grows.
LEMMA VouchedStays ==
  ASSUME NEW events \in Seq(Event), NEW more \in Seq(Event),
         Extended(events, more),
         NEW m \in 0..Len(events), NEW n \in m..Len(more), NEW v, NEW s,
         Vouched(events, m, v, s)
  PROVE  Vouched(more, n, v, s)
<1>1. PICK i \in 1..m :
         /\ events[i].kind = "vote" /\ events[i].actor = v
         /\ s \subseteq events[i].options
         /\ \A k \in 1..i : ~(IsLock(events[k]) /\ events[k].actor = Creator)
  BY DEF Vouched
<1>2. i \in 1..n /\ i \in 1..Len(events) /\ \A k \in 1..i : k \in 1..Len(events)
  BY DEF Extended
<1>3. \A k \in 1..i : more[k] = events[k]
  BY <1>2 DEF Extended
<1>4. i \in 1..i
  OBVIOUS
<1>5. /\ more[i].kind = "vote" /\ more[i].actor = v
      /\ s \subseteq more[i].options
      /\ \A k \in 1..i : ~(IsLock(more[k]) /\ more[k].actor = Creator)
  BY <1>1, <1>3, <1>4
<1> QED
  BY <1>2, <1>5 DEF Vouched

\* The steps that leave the topic and what is shown alone.
LEMMA ActLeaves ==
  ASSUME NEW u \in Users, Vote(u) \/ AddOption(u) \/ Lock(u) \/ PublishFails(u)
  PROVE  UNCHANGED <<over, log, got, shown>>
BY DEF Vote, AddOption, Lock, PublishFails, Act

\* Publishing changes on the sender's own screen only the sender's vote.
LEMMA PublishShows ==
  ASSUME Typed, NEW u \in Users, Publish(u)
  PROVE  \E e \in Stamped(u) :
            /\ e \in Event /\ e.actor = u
            /\ log' = Append(log, e) /\ log' \in Seq(Event)
            /\ Len(log') = Len(log) + 1 /\ log'[Len(log) + 1] = e
            /\ \A i \in 1..Len(log) : log'[i] = log[i]
            /\ got' = [got EXCEPT ![u] = Len(log) + 1]
            /\ \A w \in Users : w # u => shown'[w] = shown[w]
            /\ shown'[u] = shown[u] \/
                 /\ Follows(shown[u], e, knows[u], shown'[u])
                 /\ Voters(shown[u]) \subseteq Voters(shown'[u])
<1>1. PICK e \in Stamped(u) :
         /\ log' = Append(log, e)
         /\ shown' = IF u \in Web
                       THEN [shown EXCEPT ![u] = WebApply(@, e, knows[u])]
                       ELSE shown
  BY DEF Publish
<1>2. e \in Event /\ e.actor = u
  BY StampedFields DEF Publish, Typed
<1>3. log \in Seq(Event) /\ shown \in [Users -> GoodPoll]
  BY DEF Typed
<1>4. /\ log' \in Seq(Event) /\ Len(log') = Len(log) + 1 /\ log'[Len(log) + 1] = e
      /\ \A i \in 1..Len(log) : log'[i] = log[i]
  BY <1>1, <1>2, <1>3
<1>5. /\ Follows(shown[u], e, knows[u], WebApply(shown[u], e, knows[u]))
      /\ Voters(shown[u]) \subseteq Voters(WebApply(shown[u], e, knows[u]))
  BY <1>2, <1>3, WebFollows
<1>6. /\ \A w \in Users : w # u => shown'[w] = shown[w]
      /\ shown'[u] = shown[u] \/ shown'[u] = WebApply(shown[u], e, knows[u])
  BY <1>1, <1>3
<1>7. got' = [got EXCEPT ![u] = Len(log) + 1]
  BY DEF Publish
<1> QED
  BY <1>1, <1>2, <1>4, <1>5, <1>6, <1>7

\* What a client shows after it was told something: the replay of what it has
\* received by now, or the votes and options it showed before.
LEMMA ToldShows ==
  ASSUME Typed, NEW u \in Users, Receive(u) \/ ReceiveMembers(u) \/ Reload(u)
  PROVE  /\ UNCHANGED <<over, log>>
         /\ \A w \in Users : w # u => shown'[w] = shown[w] /\ got'[w] = got[w]
         /\ \/ /\ got'[u] \in got[u]..Len(log)
               /\ \E members : shown'[u] = View(u, SubSeq(log, 1, got'[u]), members)
            \/ /\ got'[u] = got[u]
               /\ shown'[u].options = shown[u].options
               /\ shown'[u].votes = shown[u].votes
<1>1. /\ log \in Seq(Event) /\ got \in [Users -> 0..Len(log)]
      /\ shown \in [Users -> GoodPoll] /\ Len(log) \in Nat
  BY DEF Typed
<1>2. CASE Receive(u)
  <2>1. PICK n \in got[u]..Len(log) :
           /\ got' = [got EXCEPT ![u] = n]
           /\ shown' = [shown EXCEPT ![u] = View(u, SubSeq(log, 1, n), knows[u])]
           /\ UNCHANGED <<over, log, out, knows>>
    BY <1>2 DEF Receive
  <2> QED
    BY <1>1, <2>1
<1>3. CASE ReceiveMembers(u)
  <2>1. PICK members \in SUBSET Deputies :
           /\ knows' = [knows EXCEPT ![u] = members]
           /\ shown' = IF u \in Web
                         THEN [shown EXCEPT
                                 ![u] = Project(@, SubSeq(log, 1, got[u]), members)]
                         ELSE shown
           /\ UNCHANGED <<over, log, out, got>>
    BY <1>3 DEF ReceiveMembers
  <2>2. SubSeq(log, 1, got[u]) \in Seq(Event) /\ shown[u] \in GoodPoll
    BY <1>1
  <2> DEFINE p == Project(shown[u], SubSeq(log, 1, got[u]), members)
  <2>3. p.options = shown[u].options /\ p.votes = shown[u].votes
    <3> DEFINE part == SubSeq(log, 1, got[u])
    <3> HIDE DEF part
    <3>1. part \in Seq(Event)
      BY <2>2 DEF part
    <3>2. /\ Project(shown[u], part, members).options = shown[u].options
          /\ Project(shown[u], part, members).votes = shown[u].votes
      BY <2>2, <3>1, ProjectIs
    <3> QED
      BY <3>2 DEF part
  <2> HIDE DEF p
  <2>4. /\ shown'[u] = p \/ shown'[u] = shown[u]
        /\ \A w \in Users : w # u => shown'[w] = shown[w]
    BY <1>1, <2>1 DEF p
  <2> QED
    BY <2>1, <2>3, <2>4
<1>4. CASE Reload(u)
  <2>1. got' = [got EXCEPT ![u] = Len(log)]
    BY <1>4 DEF Reload
  <2>2. shown' = [shown EXCEPT ![u] = View(u, log, {})]
    BY <1>4 DEF Reload
  <2>3. log = SubSeq(log, 1, Len(log))
    BY <1>1, WholeTopic
  <2>4. got'[u] = Len(log) /\ Len(log) \in got[u]..Len(log)
    BY <1>1, <2>1
  <2>5. shown'[u] = View(u, SubSeq(log, 1, got'[u]), {})
    BY <1>1, <2>2, <2>3, <2>4
  <2> QED
    BY <1>1, <1>4, <2>1, <2>2, <2>4, <2>5 DEF Reload
<1> QED
  BY <1>2, <1>3, <1>4

\* The invariant of the votes is preserved when a member publishes ...
LEMMA VouchedPublish ==
  ASSUME Typed, VotesVouched, NEW u \in Users, Publish(u)
  PROVE  VotesVouched'
<1>1. PICK e \in Stamped(u) :
        /\ e \in Event /\ e.actor = u
        /\ log' = Append(log, e) /\ log' \in Seq(Event)
        /\ Len(log') = Len(log) + 1 /\ log'[Len(log) + 1] = e
        /\ \A i \in 1..Len(log) : log'[i] = log[i]
        /\ got' = [got EXCEPT ![u] = Len(log) + 1]
        /\ \A w \in Users : w # u => shown'[w] = shown[w]
        /\ shown'[u] = shown[u] \/
             /\ Follows(shown[u], e, knows[u], shown'[u])
             /\ Voters(shown[u]) \subseteq Voters(shown'[u])
  BY PublishShows
<1>2. /\ log \in Seq(Event) /\ got \in [Users -> 0..Len(log)] /\ Len(log) \in Nat
  BY DEF Typed
<1>3. SUFFICES ASSUME NEW w \in Users, NEW v \in Voters(shown'[w]) \ {w}
               PROVE  Vouched(log', got'[w], v, shown'[w].votes[v])
  BY DEF VotesVouched
<1>4. v \in Users /\ v # w /\ shown'[w].votes[v] # {}
  BY DEF Voters
<1>5. shown'[w].votes[v] = shown[w].votes[v]
  <2>1. CASE w = u
    BY <1>1, <1>4, <2>1 DEF Follows
  <2>2. CASE w # u
    BY <1>1, <2>2
  <2> QED
    BY <2>1, <2>2
<1>6. v \in Voters(shown[w]) \ {w}
  BY <1>4, <1>5 DEF Voters
<1>7. Vouched(log, got[w], v, shown'[w].votes[v])
  BY <1>5, <1>6 DEF VotesVouched
<1>8. got[w] \in 0..Len(log) /\ got'[w] \in got[w]..Len(log')
  <2>1. CASE w = u
    BY <1>1, <1>2, <2>1
  <2>2. CASE w # u
    BY <1>1, <1>2, <2>2
  <2> QED
    BY <2>1, <2>2
<1>9. Extended(log, log')
  BY <1>1, <1>2 DEF Extended
<1>10. log' \in Seq(Event)
  BY <1>1
<1> QED
  BY <1>2, <1>7, <1>8, <1>9, <1>10, VouchedStays

\* ... and when a client is told something.
LEMMA VouchedTold ==
  ASSUME Typed, VotesVouched, NEW u \in Users,
         Receive(u) \/ ReceiveMembers(u) \/ Reload(u)
  PROVE  VotesVouched'
<1>1. /\ log \in Seq(Event) /\ got \in [Users -> 0..Len(log)] /\ Len(log) \in Nat
  BY DEF Typed
<1>2. /\ log' = log
      /\ \A w \in Users : w # u => shown'[w] = shown[w] /\ got'[w] = got[w]
      /\ \/ /\ got'[u] \in got[u]..Len(log)
            /\ \E members : shown'[u] = View(u, SubSeq(log, 1, got'[u]), members)
         \/ /\ got'[u] = got[u]
            /\ shown'[u].votes = shown[u].votes
  BY ToldShows
<1>3. SUFFICES ASSUME NEW w \in Users, NEW v \in Voters(shown'[w]) \ {w}
               PROVE  Vouched(log, got'[w], v, shown'[w].votes[v])
  BY <1>2 DEF VotesVouched
<1>4. CASE shown'[w].votes = shown[w].votes /\ got'[w] = got[w]
  <2>1. v \in Voters(shown[w]) \ {w}
    BY <1>4 DEF Voters
  <2> QED
    BY <1>4, <2>1 DEF VotesVouched
<1>5. CASE w = u /\ got'[u] \in got[u]..Len(log)
           /\ \E members : shown'[u] = View(u, SubSeq(log, 1, got'[u]), members)
  <2>1. PICK members : shown'[u] = View(u, SubSeq(log, 1, got'[u]), members)
    BY <1>5
  <2>2. got'[u] \in 0..Len(log)
    BY <1>1, <1>5
  <2>3. \A x \in Voters(shown'[u]) : Vouched(log, got'[u], x, shown'[u].votes[x])
    BY <1>1, <2>1, <2>2, ViewOf
  <2> QED
    BY <1>5, <2>3
<1> QED
  BY <1>2, <1>4, <1>5

\* A client that has received the creator's lock shows of the other members
\* only votes that were published before that lock.
THEOREM VotesStopAtLock == Spec => []LockStopsVotes
<1>1. Init => VotesVouched
  BY DEF Init, VotesVouched, Voters, Root
<1>2. Typed /\ VotesVouched /\ [Next]_vars => VotesVouched'
  <2>1. ASSUME UNCHANGED <<log, got, shown>>, VotesVouched
        PROVE  VotesVouched'
    BY <2>1 DEF VotesVouched
  <2>2. UNCHANGED vars \/ Expire => UNCHANGED <<log, got, shown>>
    BY DEF vars, Expire
  <2> QED
    BY <2>1, <2>2, ActLeaves, VouchedPublish, VouchedTold DEF Next
<1>3. Typed /\ VotesVouched => LockStopsVotes
  <2> SUFFICES ASSUME Typed, VotesVouched, NEW u \in Users, NEW k \in 1..got[u],
                      log[k].kind = "lock", log[k].actor = Creator,
                      NEW v \in Voters(shown[u]) \ {u}
               PROVE  \E i \in 1..(k - 1) :
                          /\ log[i].kind = "vote" /\ log[i].actor = v
                          /\ shown[u].votes[v] \subseteq log[i].options
    BY DEF LockStopsVotes
  <2>1. Vouched(log, got[u], v, shown[u].votes[v])
    BY DEF VotesVouched
  <2>2. PICK i \in 1..got[u] :
           /\ log[i].kind = "vote" /\ log[i].actor = v
           /\ shown[u].votes[v] \subseteq log[i].options
           /\ \A j \in 1..i : ~(IsLock(log[j]) /\ log[j].actor = Creator)
    BY <2>1 DEF Vouched
  <2>3. k \notin 1..i
    BY <2>2 DEF IsLock
  <2>4. got[u] \in Nat
    BY DEF Typed
  <2>5. i \in 1..(k - 1)
    BY <2>3, <2>4
  <2> QED
    BY <2>2, <2>5
<1> QED
  BY <1>1, <1>2, <1>3, TypedAlways, PTL DEF Spec

\* On the web a voter is counted by every later replay, with whatever roles.
LEMMA VotersGrow ==
  ASSUME NEW events \in Seq(Event), NEW m \in 0..Len(events), NEW n \in m..Len(events),
         NEW before, NEW after
  PROVE  Voters(WebView(SubSeq(events, 1, m), before))
           \subseteq Voters(WebView(SubSeq(events, 1, n), after))
<1>1. PICK f : WebRun(f, events)
  BY WebReplay
<1>2. Len(events) \in Nat /\ n \in 0..Len(events)
  OBVIOUS
<1> DEFINE N == Len(events)
           T == {k \in 0..N : k >= m => Voters(f[m]) \subseteq Voters(f[k])}
<1>3. 0 \in T
  BY <1>2
<1>4. ASSUME NEW k \in 1..N, k - 1 \in T
      PROVE  k \in T
  <2>1. k - 1 \in 0..N /\ k \in 0..N /\ events[k] \in Event
    BY <1>2
  <2>2. f[k - 1] \in GoodPoll /\ f[k] = WebApply(f[k - 1], events[k], {})
    BY <1>1, <2>1 DEF WebRun
  <2>3. Voters(f[k - 1]) \subseteq Voters(f[k])
    BY <2>1, <2>2, WebFollows
  <2>4. k >= m => k - 1 >= m \/ k = m
    BY <1>2
  <2>5. k - 1 >= m => Voters(f[m]) \subseteq Voters(f[k - 1])
    BY <1>4
  <2>6. k >= m => Voters(f[m]) \subseteq Voters(f[k])
    BY <2>3, <2>4, <2>5
  <2> QED
    BY <2>1, <2>6
<1> HIDE DEF T
<1>5. \A k \in 0..N : k \in T
  BY <1>2, <1>3, <1>4, Induct
<1>6. Voters(f[m]) \subseteq Voters(f[n])
  BY <1>2, <1>5 DEF T
<1>7. Voters(WebView(SubSeq(events, 1, m), before)) = Voters(f[m])
  <2>1. WebView(SubSeq(events, 1, m), before).votes = f[m].votes
    BY <1>1, WebViewOf
  <2> QED
    BY <2>1 DEF Voters
<1>8. Voters(WebView(SubSeq(events, 1, n), after)) = Voters(f[n])
  <2>1. WebView(SubSeq(events, 1, n), after).votes = f[n].votes
    BY <1>1, <1>2, WebViewOf
  <2> QED
    BY <2>1 DEF Voters
<1> QED
  BY <1>6, <1>7, <1>8

\* The invariant of the voters is preserved when a member publishes ...
LEMMA ReplayedPublish ==
  ASSUME Typed, VotersReplayed, NEW u \in Users, Publish(u)
  PROVE  VotersReplayed'
<1>1. PICK e \in Stamped(u) :
        /\ e \in Event /\ e.actor = u
        /\ log' = Append(log, e) /\ log' \in Seq(Event)
        /\ Len(log') = Len(log) + 1 /\ log'[Len(log) + 1] = e
        /\ \A i \in 1..Len(log) : log'[i] = log[i]
        /\ got' = [got EXCEPT ![u] = Len(log) + 1]
        /\ \A w \in Users : w # u => shown'[w] = shown[w]
        /\ shown'[u] = shown[u] \/
             /\ Follows(shown[u], e, knows[u], shown'[u])
             /\ Voters(shown[u]) \subseteq Voters(shown'[u])
  BY PublishShows
<1>2. /\ log \in Seq(Event) /\ got \in [Users -> 0..Len(log)] /\ Len(log) \in Nat
  BY DEF Typed
<1>3. SUFFICES ASSUME NEW w \in Web, NEW v \in Voters(shown'[w]) \ {w}
               PROVE  v \in Voters(WebView(SubSeq(log', 1, got'[w]), {}))
  BY DEF VotersReplayed
<1>4. v \in Users /\ v # w /\ w \in Users /\ shown'[w].votes[v] # {}
  BY DEF Voters, Users
<1>5. shown'[w].votes[v] = shown[w].votes[v]
  <2>1. CASE w = u
    BY <1>1, <1>4, <2>1 DEF Follows
  <2>2. CASE w # u
    BY <1>1, <1>4, <2>2
  <2> QED
    BY <2>1, <2>2
<1>6. v \in Voters(shown[w]) \ {w}
  BY <1>4, <1>5 DEF Voters
<1>7. v \in Voters(WebView(SubSeq(log, 1, got[w]), {}))
  BY <1>6 DEF VotersReplayed
<1>8. got[w] \in 0..Len(log) /\ got'[w] \in got[w]..Len(log') /\ got[w] \in 0..Len(log')
  <2>1. CASE w = u
    BY <1>1, <1>2, <1>4, <2>1
  <2>2. CASE w # u
    BY <1>1, <1>2, <1>4, <2>2
  <2> QED
    BY <2>1, <2>2
<1>9. SubSeq(log', 1, got[w]) = SubSeq(log, 1, got[w])
  BY <1>1, <1>2, <1>8
<1>10. Voters(WebView(SubSeq(log', 1, got[w]), {}))
         \subseteq Voters(WebView(SubSeq(log', 1, got'[w]), {}))
  BY <1>1, <1>8, VotersGrow
<1> QED
  BY <1>7, <1>9, <1>10

\* ... and when a client is told something.
LEMMA ReplayedTold ==
  ASSUME Typed, VotersReplayed, NEW u \in Users,
         Receive(u) \/ ReceiveMembers(u) \/ Reload(u)
  PROVE  /\ VotersReplayed'
         /\ \A w \in Web : Voters(shown[w]) \ {w} \subseteq Voters(shown'[w])
<1>1. /\ log \in Seq(Event) /\ got \in [Users -> 0..Len(log)] /\ Len(log) \in Nat
  BY DEF Typed
<1>2. /\ log' = log
      /\ \A w \in Users : w # u => shown'[w] = shown[w] /\ got'[w] = got[w]
      /\ \/ /\ got'[u] \in got[u]..Len(log)
            /\ \E members : shown'[u] = View(u, SubSeq(log, 1, got'[u]), members)
         \/ /\ got'[u] = got[u]
            /\ shown'[u].votes = shown[u].votes
  BY ToldShows
<1>3. SUFFICES ASSUME NEW w \in Web
               PROVE  /\ Voters(shown'[w]) \ {w}
                           \subseteq Voters(WebView(SubSeq(log, 1, got'[w]), {}))
                      /\ Voters(shown[w]) \ {w} \subseteq Voters(shown'[w])
  BY <1>2 DEF VotersReplayed
<1>4. w \in Users
  BY DEF Users
<1>5. CASE shown'[w].votes = shown[w].votes /\ got'[w] = got[w]
  <2>1. Voters(shown'[w]) = Voters(shown[w])
    BY <1>5 DEF Voters
  <2> QED
    BY <1>5, <2>1 DEF VotersReplayed
<1>6. CASE w = u /\ got'[u] \in got[u]..Len(log)
           /\ \E members : shown'[u] = View(u, SubSeq(log, 1, got'[u]), members)
  <2>1. PICK members : shown'[u] = View(u, SubSeq(log, 1, got'[u]), members)
    BY <1>6
  <2>2. got'[w] \in 0..Len(log) /\ got[w] \in 0..Len(log) /\ got'[w] \in got[w]..Len(log)
    BY <1>1, <1>4, <1>6
  <2>3. shown'[w] = WebView(SubSeq(log, 1, got'[w]), members)
    BY <1>6, <2>1 DEF View
  <2>4. got'[w] \in got'[w]..Len(log)
    BY <2>2
  <2>5. Voters(shown'[w]) \subseteq Voters(WebView(SubSeq(log, 1, got'[w]), {}))
    BY <1>1, <2>2, <2>3, <2>4, VotersGrow
  <2>6. Voters(WebView(SubSeq(log, 1, got[w]), {})) \subseteq Voters(shown'[w])
    BY <1>1, <2>2, <2>3, VotersGrow
  <2> QED
    BY <2>5, <2>6 DEF VotersReplayed
<1> QED
  BY <1>2, <1>4, <1>5, <1>6

\* On the web the vote of another member, once it is shown, stays counted.
THEOREM VotesStayOnWeb == Spec => WebVotesStay
<1>1. Init => VotersReplayed
  BY DEF Init, VotersReplayed, Voters, Root, Users
<1>2. ASSUME UNCHANGED <<log, got, shown>>, VotersReplayed
      PROVE  VotersReplayed' /\ \A w \in Web : Voters(shown[w]) \ {w} \subseteq Voters(shown'[w])
  BY <1>2 DEF VotersReplayed
<1>3. UNCHANGED vars \/ Expire => UNCHANGED <<log, got, shown>>
  BY DEF vars, Expire
<1>4. Typed /\ VotersReplayed /\ [Next]_vars => VotersReplayed'
  BY <1>2, <1>3, ActLeaves, ReplayedPublish, ReplayedTold DEF Next
<1>5. Typed /\ VotersReplayed /\ [Next]_vars
        => [\A u \in Web : Voters(shown[u]) \ {u} \subseteq Voters(shown'[u])]_vars
  <2>1. ASSUME Typed, NEW u \in Users, Publish(u), NEW w \in Web
        PROVE  Voters(shown[w]) \ {w} \subseteq Voters(shown'[w])
    BY <2>1, PublishShows DEF Users
  <2> QED
    BY <1>2, <1>3, <2>1, ActLeaves, ReplayedTold DEF Next
<1> QED
  BY <1>1, <1>4, <1>5, TypedAlways, PTL DEF Spec, WebVotesStay

-----------------------------------------------------------------------------
(* The two replays *)

\* What is known from the topic is known when the topic has grown.
LEMMA SensibleStays ==
  ASSUME NEW events \in Seq(Event), NEW more \in Seq(Event), Extended(events, more),
         NEW m \in 0..Len(events), NEW n \in m..Len(more)
  PROVE  /\ Known(events, m) \subseteq Known(more, n)
         /\ \A e : Sensible(e, events, m) => Sensible(e, more, n)
<1>1. \A i \in 1..m : i \in 1..n /\ more[i] = events[i]
  BY DEF Extended
<1>2. Known(events, m) \subseteq Known(more, n)
  BY <1>1 DEF Known
<1> QED
  BY <1>2 DEF Sensible

\* The parts of the invariant that make the two replays agree.
SensibleAll == SensibleLog /\ SensibleOut /\ OptionsKnown

\* They hold of what a member is about to publish ...
LEMMA SensibleAct ==
  ASSUME Typed, SensibleAll, NEW u \in Users,
         Vote(u) \/ AddOption(u) \/ Lock(u) \/ PublishFails(u)
  PROVE  SensibleAll'
<1>1. over' = over /\ log' = log /\ shown' = shown
  BY ActLeaves
<1>2. SensibleLog' /\ OptionsKnown'
  BY <1>1 DEF SensibleAll, SensibleLog, OptionsKnown, Sensible, Known
<1> SUFFICES SensibleOut'
  BY <1>2 DEF SensibleAll
<1>3. out \in [Users -> Event \cup {None}]
  BY DEF Typed
<1>4. ASSUME NEW e, Act(u, e), Sensible(e, log, Len(log))
      PROVE  SensibleOut'
  <2>1. out' = [out EXCEPT ![u] = e]
    BY <1>4 DEF Act
  <2>2. \A w \in Users : out'[w] # None => Sensible(out'[w], log, Len(log))
    BY <1>3, <1>4, <2>1 DEF SensibleAll, SensibleOut
  <2> QED
    BY <1>1, <2>2 DEF SensibleOut, Sensible
<1>5. CASE Vote(u)
  <2>1. PICK s \in Selections :
           /\ s \subseteq shown[u].options
           /\ Act(u, [kind |-> "vote", actor |-> u, options |-> s, late |-> over])
    BY <1>5 DEF Vote
  <2>2. s \subseteq Known(log, Len(log))
    BY <2>1 DEF SensibleAll, OptionsKnown
  <2>3. Sensible([kind |-> "vote", actor |-> u, options |-> s, late |-> over],
                 log, Len(log))
    BY <2>2 DEF Sensible
  <2> QED
    BY <1>4, <2>1, <2>3
<1>6. CASE AddOption(u)
  <2>1. PICK o \in Extra :
           Act(u, [kind |-> "option", actor |-> u, option |-> o, late |-> over])
    BY <1>6 DEF AddOption
  <2>2. AllowAddOptions
    BY <1>6 DEF AddOption
  <2>3. Sensible([kind |-> "option", actor |-> u, option |-> o, late |-> over],
                 log, Len(log))
    BY <2>2 DEF Sensible
  <2> QED
    BY <1>4, <2>1, <2>3
<1>7. CASE Lock(u)
  <2>1. Sensible([kind |-> "lock", actor |-> u], log, Len(log))
    BY DEF Sensible, IsLock
  <2> QED
    BY <1>4, <1>7, <2>1 DEF Lock
<1>8. CASE PublishFails(u)
  <2>1. \A w \in Users : out'[w] # None => out'[w] = out[w]
    BY <1>3, <1>8 DEF PublishFails
  <2>2. \A w \in Users : out'[w] # None => Sensible(out'[w], log, Len(log))
    BY <2>1 DEF SensibleAll, SensibleOut
  <2> QED
    BY <1>1, <2>2 DEF SensibleOut, Sensible
<1> QED
  BY <1>5, <1>6, <1>7, <1>8

\* ... of the topic when it is published ...
LEMMA SensiblePublish ==
  ASSUME Typed, SensibleAll, NEW u \in Users, Publish(u)
  PROVE  SensibleAll'
<1>1. PICK e \in Stamped(u) :
        /\ e \in Event /\ e.actor = u
        /\ log' = Append(log, e) /\ log' \in Seq(Event)
        /\ Len(log') = Len(log) + 1 /\ log'[Len(log) + 1] = e
        /\ \A i \in 1..Len(log) : log'[i] = log[i]
        /\ got' = [got EXCEPT ![u] = Len(log) + 1]
        /\ \A w \in Users : w # u => shown'[w] = shown[w]
        /\ shown'[u] = shown[u] \/
             /\ Follows(shown[u], e, knows[u], shown'[u])
             /\ Voters(shown[u]) \subseteq Voters(shown'[u])
  BY PublishShows
<1>2. /\ log \in Seq(Event) /\ Len(log) \in Nat /\ over' = over
      /\ out[u] # None /\ out' = [out EXCEPT ![u] = None]
      /\ out \in [Users -> Event \cup {None}]
  BY DEF Typed, Publish
<1>3. Extended(log, log')
  BY <1>1, <1>2 DEF Extended
<1> DEFINE grown == log'
           N == Len(log)
<1>4. grown \in Seq(Event) /\ Extended(log, grown) /\ Len(grown) = N + 1
  BY <1>1, <1>3
<1>5. Sensible(e, log, N)
  <2>1. Sensible(out[u], log, N)
    BY <1>2 DEF SensibleAll, SensibleOut
  <2>2. /\ e.kind = out[u].kind
        /\ e.kind = "vote" => e.options = out[u].options
        /\ ~IsLock(e) => e.late \in {out[u].late, over}
    BY <1>2, StampedFields
  <2> QED
    BY <2>1, <2>2 DEF Sensible, IsLock
<1> HIDE DEF grown, N
<1>6. N \in 0..Len(log) /\ N \in N..Len(grown) /\ N + 1 \in N..Len(grown) /\ N \in Nat
  BY <1>2, <1>4 DEF N
<1>7. \A n \in 1..(N + 1) : Sensible(grown[n], grown, n - 1)
  <2>1. ASSUME NEW n \in 1..N
        PROVE  Sensible(grown[n], grown, n - 1)
    <3>1. Sensible(log[n], log, n - 1)
      BY <2>1 DEF SensibleAll, SensibleLog, N
    <3>2. n - 1 \in 0..Len(log) /\ n - 1 \in (n - 1)..Len(grown)
      BY <1>4, <1>6 DEF N
    <3>3. Sensible(log[n], grown, n - 1)
      BY <1>2, <1>4, <3>1, <3>2, SensibleStays
    <3>4. grown[n] = log[n]
      BY <1>1 DEF grown, N
    <3> QED
      BY <3>3, <3>4
  <2>2. Sensible(e, grown, N)
    BY <1>2, <1>4, <1>5, <1>6, SensibleStays
  <2>3. grown[N + 1] = e /\ (N + 1) - 1 = N
    BY <1>1, <1>6 DEF grown, N
  <2>4. \A n \in 1..(N + 1) : n \in 1..N \/ n = N + 1
    BY <1>6
  <2> QED
    BY <2>1, <2>2, <2>3, <2>4
<1>8. SensibleLog'
  BY <1>1, <1>2, <1>7 DEF SensibleLog, Sensible, grown, N
<1>9. SensibleOut'
  <2>1. ASSUME NEW w \in Users, out'[w] # None
        PROVE  Sensible(out'[w], grown, N + 1)
    <3>1. out'[w] = out[w] /\ out[w] # None
      BY <1>2, <2>1
    <3>2. Sensible(out[w], log, N)
      BY <3>1 DEF SensibleAll, SensibleOut, N
    <3> QED
      BY <1>2, <1>4, <1>6, <3>1, <3>2, SensibleStays
  <2> QED
    BY <1>1, <1>2, <2>1 DEF SensibleOut, Sensible, grown, N
<1>10. OptionsKnown'
  <2>1. Known(log, N) \subseteq Known(grown, N + 1)
    BY <1>2, <1>4, <1>6, SensibleStays
  <2>2. \A w \in Users : shown[w].options \subseteq Known(grown, N + 1)
    BY <2>1 DEF SensibleAll, OptionsKnown, N
  <2>3. e.kind = "option" => e.option \in Known(grown, N + 1)
    <3>1. grown[N + 1] = e /\ N + 1 \in 1..(N + 1)
      BY <1>1, <1>6 DEF grown, N
    <3> QED
      BY <1>1, <3>1, EventFields DEF Known
  <2>4. shown'[u].options \subseteq Known(grown, N + 1)
    BY <1>1, <2>2, <2>3 DEF Follows
  <2>5. \A w \in Users : shown'[w].options \subseteq Known(grown, N + 1)
    BY <1>1, <2>2, <2>4
  <2> QED
    BY <1>1, <2>5 DEF OptionsKnown, grown, N
<1> QED
  BY <1>8, <1>9, <1>10 DEF SensibleAll

\* ... and of what a client shows after it was told something.
LEMMA SensibleTold ==
  ASSUME Typed, SensibleAll, NEW u \in Users,
         Receive(u) \/ ReceiveMembers(u) \/ Reload(u)
  PROVE  SensibleAll'
<1>1. /\ log \in Seq(Event) /\ got \in [Users -> 0..Len(log)] /\ Len(log) \in Nat
      /\ out \in [Users -> Event \cup {None}]
  BY DEF Typed
<1>2. /\ log' = log /\ over' = over
      /\ \A w \in Users : w # u => shown'[w] = shown[w] /\ got'[w] = got[w]
      /\ \/ /\ got'[u] \in got[u]..Len(log)
            /\ \E members : shown'[u] = View(u, SubSeq(log, 1, got'[u]), members)
         \/ /\ got'[u] = got[u]
            /\ shown'[u].options = shown[u].options
  BY ToldShows
<1>3. \A w \in Users : out'[w] # None => out'[w] = out[w]
  BY <1>1 DEF Receive, ReceiveMembers, Reload
<1>4. SensibleLog' /\ SensibleOut'
  BY <1>2, <1>3 DEF SensibleAll, SensibleLog, SensibleOut, Sensible
<1>5. ASSUME NEW w \in Users
      PROVE  shown'[w].options \subseteq Known(log, Len(log))
  <2>1. CASE shown'[w].options = shown[w].options
    BY <2>1 DEF SensibleAll, OptionsKnown
  <2>2. CASE w = u /\ got'[u] \in got[u]..Len(log)
             /\ \E members : shown'[u] = View(u, SubSeq(log, 1, got'[u]), members)
    <3>1. PICK members : shown'[u] = View(u, SubSeq(log, 1, got'[u]), members)
      BY <2>2
    <3>2. got'[u] \in 0..Len(log)
      BY <1>1, <2>2
    <3>3. shown'[u].options \subseteq Known(log, got'[u])
      BY <1>1, <3>1, <3>2, ViewOf
    <3>4. Known(log, got'[u]) \subseteq Known(log, Len(log))
      <4>1. \A i \in 1..got'[u] : i \in 1..Len(log)
        BY <1>1, <3>2
      <4> QED
        BY <4>1 DEF Known
    <3> QED
      BY <2>2, <3>3, <3>4
  <2> QED
    BY <1>2, <2>1, <2>2
<1> QED
  BY <1>2, <1>4, <1>5 DEF SensibleAll, OptionsKnown

\* The invariant of the two replays.
LEMMA SensibleAlways == Spec => []SensibleAll
<1>1. Init => SensibleAll
  BY DEF Init, SensibleAll, SensibleLog, SensibleOut, OptionsKnown, Known, Root
<1>2. ASSUME SensibleAll, UNCHANGED <<log, out, shown>>, over' = over \/ over'
      PROVE  SensibleAll'
  BY <1>2 DEF SensibleAll, SensibleLog, SensibleOut, OptionsKnown, Sensible
<1>3. UNCHANGED vars \/ Expire => UNCHANGED <<log, out, shown>> /\ (over' = over \/ over')
  BY DEF vars, Expire
<1>4. Typed /\ SensibleAll /\ [Next]_vars => SensibleAll'
  BY <1>2, <1>3, SensibleAct, SensiblePublish, SensibleTold DEF Next
<1> QED
  BY <1>1, <1>4, TypedAlways, PTL DEF Spec

\* A replay never takes an option away.
LEMMA OptionsGrow ==
  ASSUME NEW events \in Seq(Event), NEW members, NEW f,
         Replay(f, Root, events, members), NEW m \in 0..Len(events)
  PROVE  f[m].options \subseteq f[Len(events)].options
<1> DEFINE N == Len(events)
           T == {k \in 0..N : k >= m => f[m].options \subseteq f[k].options}
<1>1. N \in Nat
  OBVIOUS
<1>2. 0 \in T
  BY <1>1
<1>3. ASSUME NEW k \in 1..N, k - 1 \in T
      PROVE  k \in T
  <2>1. f[k - 1].options \subseteq f[k].options
    BY DEF Replay, Follows
  <2>2. k >= m => k - 1 >= m \/ k = m
    BY <1>1
  <2>3. k - 1 >= m => f[m].options \subseteq f[k - 1].options
    BY <1>3
  <2>4. k >= m => f[m].options \subseteq f[k].options
    BY <2>1, <2>2, <2>3
  <2>5. k \in 0..N
    BY <1>1
  <2> QED
    BY <2>4, <2>5
<1> HIDE DEF T
<1>4. \A k \in 0..N : k \in T
  BY <1>1, <1>2, <1>3, Induct
<1> QED
  BY <1>1, <1>4 DEF T

\* When nobody but the creator locked the poll, the roles change nothing.
LEMMA CreatorLocks ==
  ASSUME NEW events \in Seq(Event), NEW members, NEW p \in GoodPoll,
         \A i \in 1..Len(events) : IsLock(events[i]) => events[i].actor = Creator /\ p.locked
  PROVE  Project(p, events, members) = p
<1>1. PICK g : /\ LockRun(g, p, events, members)
               /\ Project(p, events, members) = g[Len(events)]
  BY LockReplay
<1> DEFINE N == Len(events)
           T == {k \in 0..N : g[k] = p}
<1>2. N \in Nat /\ 0 \in T
  BY <1>1 DEF LockRun
<1>3. ASSUME NEW k \in 1..N, k - 1 \in T
      PROVE  k \in T
  <2>1. g[k - 1] = p /\ k \in 0..N
    BY <1>2, <1>3
  <2>2. CASE IsLock(events[k])
    <3>1. g[k] = WebApply(p, events[k], members)
      BY <1>1, <2>1, <2>2 DEF LockRun
    <3>2. p.locked /\ events[k].kind = "lock"
      BY <2>2 DEF IsLock
    <3>3. WebApply(p, events[k], members) = p
      BY <3>2 DEF WebApply, CanLock, AddsOption
    <3> QED
      BY <2>1, <3>1, <3>3
  <2>3. CASE ~IsLock(events[k])
    BY <1>1, <2>1, <2>3 DEF LockRun
  <2> QED
    BY <2>2, <2>3
<1> HIDE DEF T
<1>4. \A k \in 0..N : k \in T
  BY <1>2, <1>3, Induct
<1> QED
  BY <1>1, <1>2, <1>4 DEF T

\* One step of both replays in an open poll that refused no option.
LEMMA AgreeStep ==
  ASSUME Typed, SensibleLog, NEW n \in 1..Len(log), NEW p \in GoodPoll,
         NEW members, NEW expired, ~expired, ~over,
         IsLock(log[n]) => log[n].actor = Creator,
         Cardinality(p.options) < MaxOptions, p.options = Known(log, n - 1)
  PROVE  /\ WebApply(p, log[n], {}) = PhoneApply(p, log[n], members, expired)
         /\ WebApply(p, log[n], {}).options = Known(log, n)
<1> DEFINE e == log[n]
           q == WebApply(p, e, {})
<1>1. e \in Event /\ n \in Nat
  BY DEF Typed
<1>2. Sensible(e, log, n - 1)
  BY DEF SensibleLog
<1> HIDE DEF e
<1>3. ~IsLock(e) => ~e.late
  BY <1>2 DEF Sensible
<1>4. e.kind = "vote" => e.options \cap p.options # {}
  <2>1. e.kind = "vote" => e.options \subseteq p.options /\ e.options # {}
    BY <1>1, <1>2, EventFields DEF Sensible, Selections
  <2> QED
    BY <2>1
<1>5. q = PhoneApply(p, e, members, expired)
  BY <1>1, <1>3, <1>4, StepsAgree DEF e
<1>6. Known(log, n) = IF e.kind = "option" THEN p.options \cup {e.option} ELSE p.options
  <2>1. \A i \in 1..n : i \in 1..(n - 1) \/ i = n
    BY <1>1
  <2>2. \A i \in 1..(n - 1) : i \in 1..n
    BY <1>1
  <2>3. e.kind = "option" => e.option \in Extra
    BY <1>1, EventFields
  <2>4. n \in 1..n
    BY <1>1
  <2>5. CASE e.kind = "option"
    BY <2>1, <2>2, <2>3, <2>4, <2>5 DEF Known, e
  <2>6. CASE e.kind # "option"
    BY <2>1, <2>2, <2>6 DEF Known, e
  <2> QED
    BY <2>5, <2>6
<1>7. q.options = Known(log, n)
  <2>1. CASE e.kind = "option"
    <3>1. AddsOption(p, e) /\ ~e.late
      BY <1>2, <1>3, <2>1 DEF Sensible, AddsOption, IsLock
    <3>2. q = [p EXCEPT !.options = @ \cup {e.option}]
      BY <2>1, <3>1 DEF WebApply
    <3>3. q.options = p.options \cup {e.option}
      BY <1>1, <3>1, <3>2, OptionFollows
    <3> QED
      BY <1>6, <2>1, <3>3
  <2>2. CASE e.kind # "option"
    <3>1. Follows(p, e, {}, q)
      BY <1>1, WebFollows
    <3>2. q.options = p.options
      BY <2>2, <3>1 DEF Follows
    <3> QED
      BY <1>6, <2>2, <3>2
  <2> QED
    BY <2>1, <2>2
<1> QED
  BY <1>5, <1>7 DEF e

\* Both replays of the topic make the same poll of it, whatever the order in
\* which votes and options of members with lagging screens got into it, as long
\* as the poll is open, only its creator locked it and no option was refused.
LEMMA AgreeOnLog ==
  ASSUME Typed, SensibleLog, ~over,
         \A i \in 1..Len(log) : IsLock(log[i]) => log[i].actor = Creator,
         Cardinality(WebView(log, {}).options) < MaxOptions,
         NEW members, NEW expired, ~expired
  PROVE  WebView(log, members) = PhoneView(log, members, expired)
<1>1. log \in Seq(Event) /\ Len(log) \in Nat
  BY DEF Typed
<1>2. PICK f : /\ WebRun(f, log)
               /\ \A m : WebView(log, m) = Project(f[Len(log)], log, m)
  BY <1>1, WebReplay
<1>3. PICK h : /\ PhoneRun(h, log, members, expired)
               /\ PhoneView(log, members, expired) = h[Len(log)]
  BY <1>1, PhoneReplay
<1>4. Replay(f, Root, log, {})
  BY <1>1, <1>2, WebRunIsReplay
<1> DEFINE N == Len(log)
<1>5. N \in Nat /\ f \in [0..N -> GoodPoll] /\ f[0] = Root
  BY <1>1, <1>4 DEF Replay
<1>6. Cardinality(f[N].options) < MaxOptions
  <2>1. f[N] \in GoodPoll
    BY <1>5
  <2>2. Project(f[N], log, {}).options = f[N].options
    BY <1>1, <2>1, ProjectIs
  <2> QED
    BY <1>2, <2>2
<1>7. ASSUME NEW k \in 0..N
      PROVE  Cardinality(f[k].options) < MaxOptions
  <2>1. f[k].options \subseteq f[N].options
    BY <1>1, <1>4, OptionsGrow
  <2>2. IsFiniteSet(f[N].options)
    BY <1>5 DEF GoodPoll
  <2>3. /\ IsFiniteSet(f[k].options)
        /\ Cardinality(f[k].options) <= Cardinality(f[N].options)
    BY <2>1, <2>2, FS_Subset
  <2>4. Cardinality(f[k].options) \in Nat /\ Cardinality(f[N].options) \in Nat
    BY <2>2, <2>3, FS_CardinalityType
  <2> QED
    BY <1>6, <2>3, <2>4, LimitAssumption
<1> DEFINE T == {k \in 0..N : f[k] = h[k] /\ f[k].options = Known(log, k)}
<1>8. 0 \in T
  <2>1. h[0] = Root
    BY <1>3 DEF PhoneRun
  <2>2. Known(log, 0) = Options
    BY DEF Known
  <2> QED
    BY <1>5, <2>1, <2>2 DEF Root
<1>9. ASSUME NEW k \in 1..N, k - 1 \in T
      PROVE  k \in T
  <2>1. k - 1 \in 0..N /\ k \in 0..N
    BY <1>5
  <2>2. f[k - 1] = h[k - 1] /\ f[k - 1].options = Known(log, k - 1)
    BY <1>9
  <2>3. f[k - 1] \in GoodPoll /\ Cardinality(f[k - 1].options) < MaxOptions
    BY <1>5, <1>7, <2>1
  <2>4. /\ f[k] = WebApply(f[k - 1], log[k], {})
        /\ h[k] = PhoneApply(h[k - 1], log[k], members, expired)
    BY <1>2, <1>3 DEF WebRun, PhoneRun
  <2> DEFINE p == f[k - 1]
  <2> HIDE DEF p
  <2>5. /\ p \in GoodPoll /\ Cardinality(p.options) < MaxOptions
        /\ p.options = Known(log, k - 1)
    BY <2>2, <2>3 DEF p
  <2>6. /\ WebApply(p, log[k], {}) = PhoneApply(p, log[k], members, expired)
        /\ WebApply(p, log[k], {}).options = Known(log, k)
    <3>1. k \in 1..Len(log)
      OBVIOUS
    <3>2. IsLock(log[k]) => log[k].actor = Creator
      BY <3>1
    <3> HIDE DEF N, T
    <3> QED
      BY <2>5, <3>1, <3>2, AgreeStep, Z3
  <2> QED
    BY <2>1, <2>2, <2>4, <2>6 DEF p
<1> HIDE DEF T
<1>10. \A k \in 0..N : k \in T
  BY <1>5, <1>8, <1>9, Induct
<1>11. f[N] = h[N] /\ f[N] \in GoodPoll
  BY <1>5, <1>10 DEF T
<1>12. \A i \in 1..N : IsLock(log[i]) => log[i].actor = Creator /\ f[N].locked
  <2>1. N \in 0..N
    BY <1>5
  <2>2. (\E i \in 1..N : LockedBy(log[i], {})) => f[N].locked
    BY <1>1, <1>4, <2>1, ReplayLocked
  <2> QED
    BY <2>2 DEF LockedBy
<1>13. Project(f[N], log, members) = f[N]
  BY <1>1, <1>11, <1>12, CreatorLocks
<1> QED
  BY <1>2, <1>3, <1>11, <1>13

\* The web client's and the phone's own code make the same poll of the same
\* topic, as long as the poll is open, nobody but its creator locked it and no
\* option was refused.
THEOREM ReplaysAgree == Spec => []ClientsAgree
<1>1. ASSUME Typed, SensibleAll
      PROVE  ClientsAgree
  <2> SUFFICES ASSUME ~over,
                      \A i \in 1..Len(log) : IsLock(log[i]) => log[i].actor = Creator,
                      Cardinality(WebView(log, {}).options) < MaxOptions,
                      NEW members \in SUBSET Deputies
               PROVE  WebView(log, members) = PhoneView(log, members, FALSE)
    BY DEF ClientsAgree
  <2>1. PICK expired \in BOOLEAN : expired = FALSE
    OBVIOUS
  <2>2. WebView(log, members) = PhoneView(log, members, expired)
    BY <1>1, <2>1, AgreeOnLog DEF SensibleAll
  <2> QED
    BY <2>1, <2>2
<1> QED
  BY <1>1, TypedAlways, SensibleAlways, PTL

=============================================================================
