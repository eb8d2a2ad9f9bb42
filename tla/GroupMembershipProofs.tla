------------------------ MODULE GroupMembershipProofs ------------------------
(***************************************************************************)
(* Theorems about GroupMembership, for any number of accounts and requests *)
(* and any number of Tinode calls that fail.                               *)
(*                                                                         *)
(* No theorem restricts which requests overlap.  Typed is the type         *)
(* invariant with the steps of each kind of request.  Solid rests on it:   *)
(* requests are about accounts (Named) and keep what they read when they   *)
(* began (Kept), the rows have one owner (RowsOk), a handler holds the row *)
(* lock from its first write to its end (Holding), and what it is about to *)
(* commit the topic already grants (Arranged).  RowsOk and Kept end with a *)
(* commit that did not look again at what its request had read (spoiled),  *)
(* Arranged with a call of another request on the same accounts            *)
(* (disturbed).  RemoveRows, RoleRows and AddRows say what a commit makes  *)
(* of the rows, SolidFrame carries the invariant over a step of one        *)
(* request; then there is a lemma per action.                              *)
(***************************************************************************)
EXTENDS GroupMembership, FiniteSetTheorems, TLAPS

\* The steps of each handler.
StepsOf(kind) ==
    CASE kind \in Adding   -> {"prepare", "write", "add", "reconcile", "commit",
                               "undoAdd"}
      [] kind = "role"     -> {"prepare", "write", "reconcile", "commit",
                               "undoRole"}
      [] kind = "remove"   -> {"prepare", "write", "offer", "accept",
                               "removeSub", "reconcile", "commit", "undoGrant",
                               "undoAccept", "undoMode", "undoRemove",
                               "cleanup"}
      [] kind = "dissolve" -> {"prepare", "dissolve", "commit"}
      [] OTHER             -> {}

\* Only an addition waits for approval.
Sensible(r) ==
    /\ r.pc = "idle" \/ r.pc \in StepsOf(r.kind)
    /\ r.pending => r.kind = "add"

StepsOk == \A s \in Slots : Sensible(req[s])

-----------------------------------------------------------------------------
(* Type correctness *)

\* A column-wise update of a row is a row.
LEMMA UpdateIsRow ==
    ASSUME NEW now \in Row, NEW old \in Row, NEW new \in Row
    PROVE  Update(now, old, new) \in Row
BY DEF Update, Row

\* The rows the model writes are rows.
LEMMA SomeRows ==
    /\ NoRow \in Row
    /\ [NoRow EXCEPT !.approval = "PENDING"] \in Row
    /\ \A role \in Roles : Joined(role) \in Row
BY DEF NoRow, Row, Joined, Roles

\* What a handler writes are rows.
LEMMA WrittenRows ==
    ASSUME row \in [Users -> Row], NEW r \in Request,
           r.pc \in StepsOf(r.kind)
    PROVE  Written(r) \in [Users -> Row]
<1>1. r.kind \in {"add", "approve", "reject", "role", "remove", "dissolve"}
  BY DEF StepsOf, Adding
<1>2. r.seen \in Row /\ r.wants \in Roles
  BY DEF Request
<1>3. CASE r.kind \in {"add", "approve"}
  <2> DEFINE new == IF r.pending THEN [NoRow EXCEPT !.approval = "PENDING"]
                    ELSE Joined("MEMBER")
  <2>1. new \in Row BY SomeRows DEF Roles
  <2>2. Written(r) = [row EXCEPT ![r.target] = Update(@, r.seen, new)]
    BY <1>3 DEF Written
  <2> HIDE DEF new
  <2>3. \A now \in Row : Update(now, r.seen, new) \in Row
    BY <2>1, <1>2, UpdateIsRow
  <2> QED BY <2>2, <2>3, ZenonT(60)
<1>4. CASE r.kind = "role"
  <2>1. Written(r) = [row EXCEPT ![r.target].role = r.wants]
    BY <1>4 DEF Written
  <2> QED BY <2>1, <1>2 DEF Row
<1>5. CASE r.kind = "remove"
  <2> DEFINE left == [row EXCEPT ![r.target].active = FALSE]
  <2>1. Written(r) = Promoted(left, r) BY <1>5 DEF Written
  <2>2. left \in [Users -> Row] BY DEF Row
  <2> HIDE DEF left
  <2> QED BY <2>1, <2>2 DEF Promoted, Row, Roles
<1>6. CASE r.kind = "dissolve"
  <2>1. Written(r) = [u \in Users |-> IF u \in r.expected THEN NoRow ELSE row[u]]
    BY <1>6 DEF Written
  <2> QED BY <2>1, SomeRows
<1>7. CASE r.kind = "reject"
  <2> DEFINE new == [r.seen EXCEPT !.active = FALSE, !.approval = "none"]
  <2>1. new \in Row BY <1>2 DEF Row
  <2>2. Written(r) = [row EXCEPT ![r.target] = Update(@, r.seen, new)]
    BY <1>7 DEF Written
  <2> HIDE DEF new
  <2>3. \A now \in Row : Update(now, r.seen, new) \in Row
    BY <2>1, <1>2, UpdateIsRow
  <2> QED BY <2>2, <2>3, ZenonT(60)
<1> QED BY <1>1, <1>3, <1>4, <1>5, <1>6, <1>7

Typed == TypeOK /\ StepsOk

\* At the start everything is of its type.
LEMMA InitTyped == Init => Typed
<1> SUFFICES ASSUME Init PROVE Typed OBVIOUS
<1>1. row \in [Users -> Row] BY SomeRows DEF Init, Roles
<1>2. sub \in [Users -> Access]
  BY DEF Init, Access, ModeOf
<1>3. NoRequest \in Request
  BY SomeRows DEF NoRequest, Request, Kinds, Steps, Someone, Roles
<1>4. req \in [Slots -> Request] /\ StepsOk
  BY <1>3 DEF Init, StepsOk, Sensible, NoRequest
<1>5. faults \in 0..MaxFaults /\ sent \in 0..MaxRequests
  BY MembershipAssumption DEF Init
<1> QED BY <1>1, <1>2, <1>4, <1>5 DEF Init, Typed, TypeOK

\* What the Tinode calls make of the topic.
LEMMA Accesses ==
    ASSUME sub \in [Users -> Access]
    PROVE  /\ \A u, mode : Offered(u, mode) \in [Users -> Access]
           /\ \A u : Taken(u) \in [Users -> Access]
           /\ \A rows, expected, scope, exact, extras :
                 Reconciled(rows, expected, scope, exact, extras)
                    \in [Users -> Access]
           /\ \A goal \in [Users -> Access] : SomeOf(goal) \subseteq [Users -> Access]
           /\ \A r, goal : goal \in [Users -> Access] =>
                 Hindered(r, goal) \in [Users -> Access]
           /\ \A r : ReconcileGoal(r) \in [Users -> Access]
<1>1. \A u, mode : Offered(u, mode) \in [Users -> Access]
  BY DEF Offered, Access
<1>2. \A u : Taken(u) \in [Users -> Access]
  BY DEF Taken, Access
<1>3. \A role : ModeOf(role) \in Access
  BY DEF ModeOf, Access
<1>4. \A rows, expected, scope, exact, extras :
         Reconciled(rows, expected, scope, exact, extras) \in [Users -> Access]
  BY <1>3 DEF Reconciled, Access
<1>5. \A goal \in [Users -> Access] : SomeOf(goal) \subseteq [Users -> Access]
  BY DEF SomeOf
<1>6. \A r, goal : goal \in [Users -> Access] =>
         Hindered(r, goal) \in [Users -> Access]
  BY DEF Hindered
<1>7. \A r : ReconcileGoal(r) \in [Users -> Access]
  BY <1>4 DEF ReconcileGoal
<1> QED BY <1>1, <1>2, <1>4, <1>5, <1>6, <1>7

\* Every request record that a step writes is one.
LEMMA Records ==
    ASSUME NEW r \in Request
    PROVE  /\ NoRequest \in Request
           /\ \A pc \in Steps : [r EXCEPT !.pc = pc] \in Request
           /\ FirstUndo(r) \in Steps
           /\ r.pc \in StepsOf(r.kind) =>
                 FirstUndo(r) \in StepsOf(r.kind) \cup {"idle"}
<1>1. NoRequest \in Request
  BY SomeRows DEF NoRequest, Request, Kinds, Steps, Someone, Roles
<1>2. \A pc \in Steps : [r EXCEPT !.pc = pc] \in Request
  BY DEF Request
<1>3. FirstUndo(r) \in Steps
  BY DEF FirstUndo, Steps
<1>4. r.pc \in StepsOf(r.kind) => FirstUndo(r) \in StepsOf(r.kind) \cup {"idle"}
  BY DEF FirstUndo, StepsOf, Adding
<1> QED BY <1>1, <1>2, <1>3, <1>4

\* The history variables keep their types, whatever a step does to them.
HistoryTyped == crossed \in BOOLEAN /\ spoiled \in BOOLEAN /\ disturbed \in BOOLEAN

LEMMA HistoryKept ==
    ASSUME Typed,
           \/ UNCHANGED history \/ \E z : Touching(z)
           \/ \E z, x : Open(z, x)
           \/ \E z : Commit(z)
    PROVE  HistoryTyped'
BY DEF history, Touching, Open, Commit, Typed, TypeOK, HistoryTyped

\* One slot changes and the other variables keep their types.
LEMMA SlotTyped ==
    ASSUME Typed, NEW s \in Slots, NEW x \in Request,
           Sensible(x), req' = [req EXCEPT ![s] = x],
           row' \in [Users -> Row], open' \in BOOLEAN,
           sub' \in [Users -> Access], lock' \in Slots \cup {None},
           astray' \in BOOLEAN, faults' \in 0..MaxFaults,
           sent' \in 0..MaxRequests, HistoryTyped'
    PROVE  Typed'
BY DEF Typed, TypeOK, StepsOk, HistoryTyped

\* A request that goes on with another step, or ends.
LEMMA GoesOn ==
    ASSUME NEW r \in Request, Sensible(r), NEW pc \in Steps,
           pc = "idle" \/ pc \in StepsOf(r.kind)
    PROVE  /\ [r EXCEPT !.pc = pc] \in Request
           /\ Sensible([r EXCEPT !.pc = pc])
           /\ NoRequest \in Request /\ Sensible(NoRequest)
<1>1. [r EXCEPT !.pc = pc] \in Request /\ NoRequest \in Request
  BY Records
<1>2. Sensible(NoRequest) BY DEF Sensible, NoRequest
<1> DEFINE x == [r EXCEPT !.pc = pc]
<1>3. x.pc = pc /\ x.kind = r.kind /\ x.pending = r.pending
  BY DEF Request
<1> HIDE DEF x
<1>4. Sensible(x) BY <1>3 DEF Sensible
<1> QED BY <1>1, <1>2, <1>4 DEF x

\* A failure ends the request or begins to undo it.
LEMMA FailTyped ==
    ASSUME Typed, NEW s \in Slots, req[s].pc \in StepsOf(req[s].kind), Fail(s)
    PROVE  /\ \E x \in Request : Sensible(x) /\ req' = [req EXCEPT ![s] = x]
           /\ lock' \in Slots \cup {None}
<1> DEFINE r == req[s]
           u == FirstUndo(r)
           x == IF u = "idle" THEN NoRequest ELSE [r EXCEPT !.pc = u]
<1>1. r \in Request /\ lock \in Slots \cup {None} /\ Sensible(r)
  BY DEF Typed, TypeOK, StepsOk
<1>2. u \in Steps /\ u \in StepsOf(r.kind) \cup {"idle"}
  BY <1>1, Records
<1>3. req' = [req EXCEPT ![s] = x] BY <1>1 DEF Fail, Typed, TypeOK
<1> HIDE DEF u
<1>4. x \in Request /\ Sensible(x)
  BY <1>1, <1>2, GoesOn
<1>5. lock' \in Slots \cup {None} BY <1>1 DEF Fail, Unlocked
<1> HIDE DEF x
<1> QED BY <1>3, <1>4, <1>5

\* One Tinode call, whatever becomes of it.
LEMMA CallTyped ==
    ASSUME Typed, NEW s \in Slots, req[s].pc \in StepsOf(req[s].kind),
           NEW sub2 \in [Users -> Access], NEW possible,
           NEW partial \in SUBSET [Users -> Access],
           NEW next \in Request, Sensible(next),
           Call(s, sub2, possible, partial, next)
    PROVE  Typed'
<1>1. /\ row' \in [Users -> Row] /\ open' \in BOOLEAN
      /\ sent' \in 0..MaxRequests
  BY DEF Call, Typed, TypeOK
<1>2. sub' \in [Users -> Access]
  BY DEF Call, Typed, TypeOK
<1>3. astray' \in BOOLEAN /\ faults' \in 0..MaxFaults
  <2>1. astray' \in BOOLEAN BY DEF Call, Typed, TypeOK
  <2>2. faults' = faults \/ (faults < MaxFaults /\ faults' = faults + 1)
    BY DEF Call
  <2>3. faults' \in 0..MaxFaults
    BY <2>2, MembershipAssumption DEF Typed, TypeOK
  <2> QED BY <2>1, <2>3
<1>7. HistoryTyped' BY HistoryKept DEF Call
<1>4. CASE req' = [req EXCEPT ![s] = next] /\ UNCHANGED lock
  BY <1>1, <1>2, <1>3, <1>4, <1>7, SlotTyped DEF Typed, TypeOK
<1>5. CASE Fail(s)
  <2>1. PICK x \in Request : Sensible(x) /\ req' = [req EXCEPT ![s] = x]
    BY <1>5, FailTyped
  <2>2. lock' \in Slots \cup {None} BY <1>5, FailTyped
  <2> QED BY <2>1, <2>2, <1>1, <1>2, <1>3, <1>7, SlotTyped
<1> QED BY <1>4, <1>5 DEF Call

\* One call of the undoing.
LEMMA UndoTyped ==
    ASSUME Typed, NEW s \in Slots, NEW pc, req[s].pc = pc,
           NEW sub2 \in [Users -> Access], NEW possible,
           NEW next \in Steps,
           next = "idle" \/ next \in StepsOf(req[s].kind),
           Undo(s, pc, sub2, possible, next)
    PROVE  Typed'
<1> DEFINE x == IF next = "idle" THEN NoRequest ELSE [req[s] EXCEPT !.pc = next]
<1>1. req[s] \in Request BY DEF Typed, TypeOK
<1>2. /\ row' \in [Users -> Row] /\ open' \in BOOLEAN
      /\ sent' \in 0..MaxRequests /\ lock' \in Slots \cup {None}
  BY DEF Undo, Typed, TypeOK
<1>3. sub' \in [Users -> Access]
  BY DEF Undo, Typed, TypeOK
<1>4. astray' \in BOOLEAN /\ faults' \in 0..MaxFaults
  <2>1. astray' \in BOOLEAN BY DEF Undo, Typed, TypeOK
  <2>2. faults' = faults \/ (faults < MaxFaults /\ faults' = faults + 1)
    BY DEF Undo
  <2>3. faults' \in 0..MaxFaults
    BY <2>2, MembershipAssumption DEF Typed, TypeOK
  <2> QED BY <2>1, <2>3
<1>5. NoRequest \in Request /\ Sensible(NoRequest)
  BY <1>1, Records DEF NoRequest, Sensible
<1>6. x \in Request /\ Sensible(x)
  BY <1>1, <1>5, GoesOn DEF Typed, StepsOk
<1>8. req' = [req EXCEPT ![s] = x] \/ req' = [req EXCEPT ![s] = NoRequest]
  BY DEF Undo, Typed, TypeOK
<1>9. HistoryTyped' BY HistoryKept DEF Undo
<1> HIDE DEF x
<1> QED BY <1>2, <1>3, <1>4, <1>5, <1>6, <1>8, <1>9, SlotTyped

\* A request that begins.
LEMMA StartTyped ==
    ASSUME Typed, NEW s \in Slots, NEW x \in Request,
           Sensible(x), Start(s, x)
    PROVE  Typed'
<1>1. sent' \in 0..MaxRequests
  BY MembershipAssumption DEF Start, Open, Typed, TypeOK
<1>2. HistoryTyped' BY HistoryKept DEF Start
<1> QED BY <1>1, <1>2, SlotTyped DEF Start, Open, Typed, TypeOK

\* The record of a request as it begins.
LEMMA AskedIsRequest ==
    ASSUME Typed, NEW kind \in Kinds, NEW a \in Users, NEW t \in Users
    PROVE  /\ Asked(kind, a, t) \in Request
           /\ Asked(kind, a, t).pc = "prepare"
           /\ Asked(kind, a, t).kind = kind
           /\ ~Asked(kind, a, t).pending
BY SomeRows DEF Asked, NoRequest, Request, Kinds, Steps, Someone, Roles, Typed,
                TypeOK

\* The beginnings of requests.
LEMMA BeginTyped == ASSUME Typed, NEW s \in Slots, Begin(s) PROVE Typed'
<1>1. ASSUME NEW a \in Users, NEW t \in Users, BeginAdd(s, a, t) PROVE Typed'
  <2> DEFINE b == ApproveMembers /\ ~IsManager(a) /\ ~row[t].active
             x == [Asked("add", a, t) EXCEPT !.pending = b]
  <2>1. /\ Asked("add", a, t) \in Request /\ Asked("add", a, t).pc = "prepare"
        /\ Asked("add", a, t).kind = "add"
    BY AskedIsRequest DEF Kinds
  <2>2. b \in BOOLEAN OBVIOUS
  <2>3. Start(s, x) BY <1>1 DEF BeginAdd
  <2> HIDE DEF b
  <2>4. x \in Request /\ x.pc = "prepare" /\ x.kind = "add"
    BY <2>1, <2>2 DEF Request
  <2> HIDE DEF x
  <2>5. Sensible(x) BY <2>4 DEF Sensible, StepsOf, Adding
  <2> QED BY <2>3, <2>4, <2>5, StartTyped
<1>2. ASSUME NEW a \in Users, NEW t \in Users, BeginApprove(s, a, t)
      PROVE  Typed'
  <2> DEFINE x == Asked("approve", a, t)
  <2>1. x \in Request /\ x.pc = "prepare" /\ x.kind = "approve" /\ ~x.pending
    BY AskedIsRequest DEF Kinds
  <2>2. Start(s, x) BY <1>2 DEF BeginApprove
  <2> HIDE DEF x
  <2>3. Sensible(x) BY <2>1 DEF Sensible, StepsOf, Adding
  <2> QED BY <2>1, <2>2, <2>3, StartTyped
<1>3. ASSUME NEW a \in Users, NEW t \in Users, NEW role \in {"ADMIN", "MEMBER"},
             BeginRole(s, a, t, role)
      PROVE  Typed'
  <2> DEFINE x == [Asked("role", a, t) EXCEPT !.wants = role]
  <2>1. /\ Asked("role", a, t) \in Request /\ Asked("role", a, t).pc = "prepare"
        /\ Asked("role", a, t).kind = "role" /\ ~Asked("role", a, t).pending
    BY AskedIsRequest DEF Kinds
  <2>2. Start(s, x) BY <1>3 DEF BeginRole
  <2>3. x \in Request /\ x.pc = "prepare" /\ x.kind = "role" /\ ~x.pending
    BY <2>1 DEF Request, Roles
  <2> HIDE DEF x
  <2>4. Sensible(x) BY <2>3 DEF Sensible, StepsOf, Adding
  <2> QED BY <2>2, <2>3, <2>4, StartTyped
<1>4. ASSUME NEW a \in Users, NEW t \in Users, BeginRemove(s, a, t)
      PROVE  Typed'
  <2> DEFINE h(w) == IF row[t].role = "OWNER" THEN w ELSE None
             g(w) == IF a = t THEN w ELSE None
             x(w) == [Asked("remove", a, t) EXCEPT !.heir = h(w), !.witness = g(w)]
  <2>1. /\ Asked("remove", a, t) \in Request
        /\ Asked("remove", a, t).pc = "prepare"
        /\ Asked("remove", a, t).kind = "remove" /\ ~Asked("remove", a, t).pending
    BY AskedIsRequest DEF Kinds
  <2>2. PICK w \in Users : Start(s, x(w)) BY <1>4 DEF BeginRemove, Members
  <2>3. h(w) \in Someone /\ g(w) \in Someone BY DEF Someone
  <2> HIDE DEF h, g
  <2>4. x(w) \in Request /\ x(w).pc = "prepare" /\ x(w).kind = "remove" /\ ~x(w).pending
    BY <2>1, <2>3 DEF Request
  <2> HIDE DEF x
  <2>5. Sensible(x(w)) BY <2>4 DEF Sensible, StepsOf, Adding
  <2> QED BY <2>2, <2>4, <2>5, StartTyped
<1>5. ASSUME NEW a \in Users, BeginDissolve(s, a) PROVE Typed'
  <2> DEFINE x == Asked("dissolve", a, a)
  <2>1. x \in Request /\ x.pc = "prepare" /\ x.kind = "dissolve" /\ ~x.pending
    BY AskedIsRequest DEF Kinds
  <2>2. Start(s, x) BY <1>5 DEF BeginDissolve
  <2> HIDE DEF x
  <2>3. Sensible(x) BY <2>1 DEF Sensible, StepsOf, Adding
  <2> QED BY <2>1, <2>2, <2>3, StartTyped
<1>6. ASSUME NEW a \in Users, CloseLast(s, a) PROVE Typed'
  <2> DEFINE x == [Asked("remove", a, a) EXCEPT !.pc = "cleanup"]
  <2>1. /\ Asked("remove", a, a) \in Request /\ ~Asked("remove", a, a).pending
        /\ Asked("remove", a, a).kind = "remove"
    BY AskedIsRequest DEF Kinds
  <2>2. req' = [req EXCEPT ![s] = x] BY <1>6 DEF CloseLast, Open
  <2>3. x \in Request /\ x.pc = "cleanup" /\ x.kind = "remove" /\ ~x.pending
    BY <2>1 DEF Request, Steps
  <2>4. row' \in [Users -> Row] BY <1>6, SomeRows DEF CloseLast
  <2>5. sent' \in 0..MaxRequests
    BY <1>6, MembershipAssumption DEF CloseLast, Open, Typed, TypeOK
  <2>7. HistoryTyped' BY <1>6, HistoryKept DEF CloseLast
  <2> HIDE DEF x
  <2>6. Sensible(x) BY <2>3 DEF Sensible, StepsOf, Adding
  <2> QED BY <1>6, <2>2, <2>3, <2>4, <2>5, <2>6, <2>7, SlotTyped
          DEF CloseLast, Open, Typed, TypeOK
<1>7. ASSUME NEW a \in Users, NEW t \in Users, BeginReject(s, a, t)
      PROVE  Typed'
  <2> DEFINE y == Asked("reject", a, t)
             x == [y EXCEPT !.pc = "commit"]
  <2>1. y \in Request /\ y.kind = "reject" /\ ~y.pending
    BY AskedIsRequest DEF Kinds
  <2>2. Start(s, x) BY <1>7 DEF BeginReject
  <2> HIDE DEF y
  <2>3. x \in Request /\ x.pc = "commit" /\ x.kind = "reject" /\ ~x.pending
    BY <2>1 DEF Request, Steps
  <2> HIDE DEF x
  <2>4. Sensible(x) BY <2>3 DEF Sensible, StepsOf, Adding
  <2> QED BY <2>2, <2>3, <2>4, StartTyped
<1> QED BY <1>1, <1>2, <1>3, <1>4, <1>5, <1>6, <1>7 DEF Begin

\* A request is prepared: it knows the topic and the owner, or it is refused.
LEMMA PrepareTyped == ASSUME Typed, NEW s \in Slots, Prepare(s) PROVE Typed'
<1> DEFINE r == req[s]
<1>1. r \in Request /\ Sensible(r) /\ r.pc = "prepare"
  BY DEF Typed, TypeOK, StepsOk, Prepare
<1>2. r.pc \in StepsOf(r.kind) BY <1>1 DEF Sensible
<1>8. HistoryTyped' BY HistoryKept DEF Prepare
<1>3. ASSUME NEW o \in Owners(row),
             req' = [req EXCEPT
                     ![s].op = o, ![s].known = Subscribers,
                     ![s].expected = Members(row),
                     ![s].pc = IF r.kind = "dissolve" THEN "dissolve"
                               ELSE "write"],
             UNCHANGED <<row, open, sub, lock, astray, history, faults, sent>>
      PROVE  Typed'
  <2> DEFINE pc == IF r.kind = "dissolve" THEN "dissolve" ELSE "write"
             x  == [r EXCEPT !.op = o, !.known = Subscribers,
                             !.expected = Members(row), !.pc = pc]
  <2>2. o \in Users /\ Subscribers \in SUBSET Users /\ Members(row) \in SUBSET Users
    BY DEF Owners, Members, Subscribers
  <2>3. pc \in Steps /\ pc \in StepsOf(r.kind)
    BY <1>2 DEF StepsOf, Adding, Steps
  <2>4. req' = [req EXCEPT ![s] = x] BY <1>3 DEF Typed, TypeOK
  <2> HIDE DEF pc
  <2>5. x \in Request /\ x.pc = pc /\ x.kind = r.kind /\ x.pending = r.pending
    BY <1>1, <2>2, <2>3 DEF Request, Someone
  <2> HIDE DEF x
  <2>6. Sensible(x) BY <2>3, <2>5, <1>1 DEF Sensible
  <2> QED BY <1>3, <2>4, <2>5, <2>6, <1>8, SlotTyped DEF Typed, TypeOK
<1>4. CASE /\ Goto(s, "write") /\ Unbridged(r)
           /\ UNCHANGED <<row, open, sub, lock, astray, history, faults, sent>>
  <2> DEFINE x == [r EXCEPT !.pc = "write"]
  <2>1. r.kind \in Adding BY <1>1, <1>4 DEF Unbridged, Sensible, Adding
  <2>2. "write" \in Steps /\ "write" \in StepsOf(r.kind)
    BY <2>1 DEF StepsOf, Adding, Steps
  <2>3. x \in Request /\ Sensible(x) BY <1>1, <2>2, GoesOn
  <2>4. req' = [req EXCEPT ![s] = x] BY <1>4 DEF Goto, Typed, TypeOK
  <2> HIDE DEF x
  <2> QED BY <1>4, <2>3, <2>4, <1>8, SlotTyped DEF Typed, TypeOK
<1>5. CASE End(s) /\ UNCHANGED <<row, open, sub, astray, history, sent>>
  <2>1. faults' = faults \/ (faults < MaxFaults /\ faults' = faults + 1)
    BY DEF Prepare
  <2>2. faults' \in 0..MaxFaults
    BY <2>1, MembershipAssumption DEF Typed, TypeOK
  <2>3. NoRequest \in Request /\ Sensible(NoRequest)
    BY <1>1, Records DEF NoRequest, Sensible
  <2> QED BY <1>5, <2>2, <2>3, <1>8, SlotTyped DEF End, Unlocked, Typed, TypeOK
<1>6. UNCHANGED <<row, open, sub, astray, history, sent>> BY DEF Prepare
<1> QED BY <1>3, <1>4, <1>5, <1>6 DEF Prepare

\* The Tinode calls of the handlers and of their undoing.
LEMMA TopicTyped ==
    ASSUME Typed, NEW s \in Slots,
           \/ AddSubscriber(s) \/ Reconcile(s) \/ OfferTopic(s)
           \/ AcceptTopic(s) \/ RemoveSubscriber(s) \/ DissolveTopic(s)
    PROVE  Typed'
<1> DEFINE r == req[s]
<1>1. r \in Request /\ Sensible(r) /\ sub \in [Users -> Access]
  BY DEF Typed, TypeOK, StepsOk
<1>2. r.pc # "idle" => r.pc \in StepsOf(r.kind)
  BY <1>1 DEF Sensible
<1>3. {sub} \in SUBSET [Users -> Access] BY <1>1
<1>4. \A u : [sub EXCEPT ![u] = {}] \in [Users -> Access]
  BY <1>1 DEF Access
<1>6. CASE AddSubscriber(s)
  <2> DEFINE x == [r EXCEPT !.pc = "reconcile", !.created = r.target \notin r.known]
  <2>1. r.pc = "add" BY <1>6 DEF AddSubscriber
  <2>2. x \in Request /\ x.pc = "reconcile" /\ x.kind = r.kind /\ x.pending = r.pending
    BY <1>1 DEF Request, Steps
  <2>3. Sensible(x)
    <3> HIDE DEF x
    <3> QED BY <1>1, <1>2, <2>1, <2>2 DEF Sensible, StepsOf, Adding
  <2>4. Call(s, Offered(r.target, {"S"}), sub[r.op] # {}, {sub}, x)
    BY <1>6 DEF AddSubscriber
  <2> HIDE DEF x
  <2>5. Offered(r.target, {"S"}) \in [Users -> Access] BY <1>1, Accesses
  <2> QED BY <1>2, <1>3, <2>1, <2>2, <2>3, <2>4, <2>5, CallTyped
<1>7. CASE Reconcile(s)
  <2> DEFINE goal == ReconcileGoal(r)
             x    == [r EXCEPT !.pc = "commit"]
  <2>1. r.pc = "reconcile" BY <1>7 DEF Reconcile
  <2>2. goal \in [Users -> Access] /\ Hindered(r, goal) \in [Users -> Access]
        /\ SomeOf(goal) \in SUBSET [Users -> Access]
    BY <1>1, Accesses
  <2>3. x \in Request /\ Sensible(x)
    <3>1. "commit" \in Steps /\ "commit" \in StepsOf(r.kind)
      BY <2>1, <1>2 DEF Steps, StepsOf, Adding
    <3> QED BY <3>1, <1>1, GoesOn
  <2>4. \/ Call(s, goal, TRUE, SomeOf(goal), x)
        \/ /\ sub' = Hindered(r, goal) /\ Fail(s) /\ Touching(s)
           /\ UNCHANGED <<row, open, astray, faults, sent>>
    BY <1>7 DEF Reconcile
  <2> HIDE DEF goal, x
  <2>5. CASE Call(s, goal, TRUE, SomeOf(goal), x)
    BY <2>5, <2>1, <2>2, <2>3, <1>2, CallTyped
  <2>6. CASE /\ sub' = Hindered(r, goal) /\ Fail(s) /\ Touching(s)
             /\ UNCHANGED <<row, open, astray, faults, sent>>
    <3>1. PICK y \in Request : Sensible(y) /\ req' = [req EXCEPT ![s] = y]
      BY <2>6, <2>1, <1>2, FailTyped
    <3>2. lock' \in Slots \cup {None} BY <2>6, <2>1, <1>2, FailTyped
    <3>3. HistoryTyped' BY <2>6, HistoryKept
    <3> QED BY <2>2, <2>6, <3>1, <3>2, <3>3, SlotTyped DEF Typed, TypeOK
  <2> QED BY <2>4, <2>5, <2>6
<1>8. CASE OfferTopic(s)
  <2> DEFINE x == [r EXCEPT !.pc = "accept"]
  <2>1. r.pc = "offer" BY <1>8 DEF OfferTopic
  <2>2. "accept" \in Steps /\ "accept" \in StepsOf(r.kind)
    BY <2>1, <1>2 DEF Steps, StepsOf, Adding
  <2>3. x \in Request /\ Sensible(x) BY <2>2, <1>1, GoesOn
  <2>4. Call(s, sub, "O" \in sub[r.op], {sub}, x)
    BY <1>8 DEF OfferTopic
  <2> HIDE DEF x
  <2> QED BY <1>1, <1>2, <1>3, <2>1, <2>3, <2>4, CallTyped
<1>9. CASE AcceptTopic(s)
  <2> DEFINE x == [r EXCEPT !.pc = "removeSub", !.accepted = TRUE]
  <2>1. r.pc = "accept" BY <1>9 DEF AcceptTopic
  <2>2. x \in Request /\ x.pc = "removeSub" /\ x.kind = r.kind /\ x.pending = r.pending
    BY <1>1 DEF Request, Steps
  <2>3. Sensible(x)
    <3> HIDE DEF x
    <3> QED BY <1>1, <1>2, <2>1, <2>2 DEF Sensible, StepsOf, Adding
  <2>4. Call(s, Taken(r.heir), sub[r.heir] # {}, {sub}, x)
    BY <1>9 DEF AcceptTopic
  <2>5. Taken(r.heir) \in [Users -> Access] BY <1>1, Accesses
  <2> HIDE DEF x
  <2> QED BY <1>2, <1>3, <2>1, <2>2, <2>3, <2>4, <2>5, CallTyped
<1>10. CASE RemoveSubscriber(s)
  <2> DEFINE x == [r EXCEPT !.pc = "reconcile", !.removed = TRUE]
  <2>1. r.pc = "removeSub" BY <1>10 DEF RemoveSubscriber
  <2>2. x \in Request /\ x.pc = "reconcile" /\ x.kind = r.kind /\ x.pending = r.pending
    BY <1>1 DEF Request, Steps
  <2>3. Sensible(x)
    <3> HIDE DEF x
    <3> QED BY <1>1, <1>2, <2>1, <2>2 DEF Sensible, StepsOf, Adding
  <2>4. Call(s, [sub EXCEPT ![r.target] = {}], sub[r.op] # {}, {sub}, x)
    BY <1>10 DEF RemoveSubscriber
  <2> HIDE DEF x
  <2> QED BY <1>2, <1>3, <1>4, <2>1, <2>2, <2>3, <2>4, CallTyped
<1>11. CASE DissolveTopic(s)
  <2> DEFINE x == [r EXCEPT !.pc = "commit"]
             partial == {Invited(gone, {}) : gone \in SUBSET (Subscribers \ {r.op})}
  <2>1. r.pc = "dissolve" BY <1>11 DEF DissolveTopic
  <2>2. "commit" \in Steps /\ "commit" \in StepsOf(r.kind)
    BY <2>1, <1>2 DEF Steps, StepsOf, Adding
  <2>3. x \in Request /\ Sensible(x) BY <2>2, <1>1, GoesOn
  <2>7. \A gone, left : Invited(gone, left) \in [Users -> Access]
    BY <1>1 DEF Access, Invited
  <2>4. partial \in SUBSET [Users -> Access] BY <2>7
  <2>5. [u \in Users |-> {}] \in [Users -> Access] BY DEF Access
  <2>6. \/ Call(s, [u \in Users |-> {}], sub[r.op] # {}, partial, x)
        \/ /\ \E gone, left : sub' = Invited(gone, left)
           /\ faults < MaxFaults /\ faults' = faults + 1 /\ astray' = TRUE
           /\ Fail(s) /\ Touching(s) /\ UNCHANGED <<row, open, sent>>
    BY <1>11 DEF DissolveTopic
  <2> HIDE DEF x, partial
  <2>8. CASE Call(s, [u \in Users |-> {}], sub[r.op] # {}, partial, x)
    BY <1>2, <2>1, <2>3, <2>4, <2>5, <2>8, CallTyped
  <2>9. CASE /\ \E gone, left : sub' = Invited(gone, left)
             /\ faults < MaxFaults /\ faults' = faults + 1 /\ astray' = TRUE
             /\ Fail(s) /\ Touching(s) /\ UNCHANGED <<row, open, sent>>
    <3>1. PICK y \in Request : Sensible(y) /\ req' = [req EXCEPT ![s] = y]
      BY <2>9, <2>1, <1>2, FailTyped
    <3>2. lock' \in Slots \cup {None} BY <2>9, <2>1, <1>2, FailTyped
    <3>3. HistoryTyped' BY <2>9, HistoryKept
    <3>4. faults' \in 0..MaxFaults
      BY <2>9, MembershipAssumption DEF Typed, TypeOK
    <3> QED BY <2>7, <2>9, <3>1, <3>2, <3>3, <3>4, SlotTyped, ZenonT(60) DEF Typed, TypeOK
  <2> QED BY <2>6, <2>8, <2>9
<1> QED BY <1>6, <1>7, <1>8, <1>9, <1>10, <1>11

\* The Tinode calls of the undoing.
LEMMA UndoingTyped ==
    ASSUME Typed, NEW s \in Slots,
           \/ UndoAdd(s) \/ UndoRole(s) \/ UndoGrant(s) \/ UndoAccept(s)
           \/ UndoMode(s) \/ UndoRemove(s)
    PROVE  Typed'
<1> DEFINE r == req[s]
<1>1. r \in Request /\ Sensible(r) /\ sub \in [Users -> Access]
  BY DEF Typed, TypeOK, StepsOk
<1>2. r.pc # "idle" => r.pc \in StepsOf(r.kind)
  BY <1>1 DEF Sensible
<1>3. "idle" \in Steps /\ "undoAccept" \in Steps /\ "undoMode" \in Steps
  BY DEF Steps
<1>4. \A pc, sub2, possible, next :
         /\ Undo(s, pc, sub2, possible, next)
         /\ sub2 \in [Users -> Access]
         /\ next = "idle" \/ (next \in Steps /\ next \in StepsOf(r.kind))
         => Typed'
  <2> TAKE pc, sub2, possible, next
  <2> HAVE /\ Undo(s, pc, sub2, possible, next)
           /\ sub2 \in [Users -> Access]
           /\ next = "idle" \/ (next \in Steps /\ next \in StepsOf(r.kind))
  <2>1. r.pc = pc BY DEF Undo
  <2> QED BY <2>1, <1>3, UndoTyped
<1>5. CASE UndoAdd(s)
  <2>1. [sub EXCEPT ![r.target] = {}] \in [Users -> Access]
    BY <1>1 DEF Access
  <2>2. Undo(s, "undoAdd", [sub EXCEPT ![r.target] = {}], sub[r.op] # {}, "idle")
    BY <1>5 DEF UndoAdd
  <2> QED BY <2>1, <2>2, <1>4
<1>6. CASE UndoRole(s)
  <2> DEFINE before == Reconciled([row EXCEPT ![r.target].role = r.seen.role],
                             r.expected, r.expected, {r.target}, TRUE)
             h == Hindered(r, before)
  <2>1. h \in [Users -> Access] BY <1>1, Accesses
  <2>2. Undo(s, "undoRole", h, h = before, "idle") BY <1>6 DEF UndoRole
  <2> HIDE DEF h, before
  <2> QED BY <2>1, <2>2, <1>4
<1>7. CASE UndoGrant(s)
  <2>1. Undo(s, "undoGrant", Offered(r.op, {"S", "O"}), "O" \in sub[r.heir],
             "undoAccept")
    BY <1>7 DEF UndoGrant
  <2>2. r.pc = "undoGrant" BY <2>1 DEF Undo
  <2>3. "undoAccept" \in StepsOf(r.kind)
    BY <2>2, <1>2 DEF StepsOf, Adding
  <2>4. Offered(r.op, {"S", "O"}) \in [Users -> Access] BY <1>1, Accesses
  <2> QED BY <2>1, <2>2, <2>3, <2>4, <1>3, UndoTyped
<1>8. CASE UndoAccept(s)
  <2>1. Undo(s, "undoAccept", Taken(r.op), sub[r.op] # {}, "undoMode")
    BY <1>8 DEF UndoAccept
  <2>2. r.pc = "undoAccept" BY <2>1 DEF Undo
  <2>3. "undoMode" \in StepsOf(r.kind)
    BY <2>2, <1>2 DEF StepsOf, Adding
  <2>4. Taken(r.op) \in [Users -> Access] BY <1>1, Accesses
  <2> QED BY <2>1, <2>2, <2>3, <2>4, <1>3, UndoTyped
<1>9. CASE UndoMode(s)
  <2>1. Undo(s, "undoMode", Offered(r.heir, {"S"}), "O" \in sub[r.op], "idle")
    BY <1>9 DEF UndoMode
  <2>2. Offered(r.heir, {"S"}) \in [Users -> Access] BY <1>1, Accesses
  <2> QED BY <2>1, <2>2, <1>4
<1>10. CASE UndoRemove(s)
  <2> DEFINE w == IF r.witness # None THEN r.witness ELSE r.op
  <2>1. Undo(s, "undoRemove", Offered(r.target, {"S"}), sub[w] # {}, "idle")
    BY <1>10 DEF UndoRemove
  <2>2. Offered(r.target, {"S"}) \in [Users -> Access] BY <1>1, Accesses
  <2> QED BY <2>1, <2>2, <1>4
<1> QED BY <1>5, <1>6, <1>7, <1>8, <1>9, <1>10

\* What a handler does without Tinode.
LEMMA RowsTyped ==
    ASSUME Typed, NEW s \in Slots, Write(s) \/ Commit(s) \/ CleanUp(s)
    PROVE  Typed'
<1> DEFINE r == req[s]
<1>1. r \in Request /\ Sensible(r) /\ sub \in [Users -> Access]
      /\ row \in [Users -> Row]
  BY DEF Typed, TypeOK, StepsOk
<1>2. r.pc # "idle" => r.pc \in StepsOf(r.kind)
  BY <1>1 DEF Sensible
<1>3. NoRequest \in Request /\ Sensible(NoRequest)
  BY <1>1, Records DEF NoRequest, Sensible
<1>4. CASE Write(s)
  <2> DEFINE pc == CASE Unbridged(r) -> "commit"
                 [] ~Unbridged(r) /\ r.kind \in {"add", "approve"} -> "add"
                 [] r.kind = "role" -> "reconcile"
                 [] r.kind = "remove" ->
                       IF r.heir # None THEN "offer" ELSE "removeSub"
             x == [r EXCEPT !.pc = pc]
  <2>1. r.pc = "write" /\ r.pc \in StepsOf(r.kind) BY <1>4, <1>2 DEF Write
  <2>2. r.kind \in Adding \cup {"role", "remove"}
    BY <2>1 DEF StepsOf, Adding
  <2>3. Unbridged(r) => r.kind \in Adding
    BY <1>1 DEF Unbridged, Sensible, Adding
  <2>7. r.kind = "reject" => Unbridged(r) BY DEF Unbridged
  <2>4. pc \in Steps /\ pc \in StepsOf(r.kind)
    BY <2>2, <2>3, <2>7 DEF StepsOf, Adding, Steps
  <2>5. req' = [req EXCEPT ![s] = x] BY <1>4 DEF Write, Goto, Typed, TypeOK
  <2> HIDE DEF pc
  <2>6. x \in Request /\ Sensible(x) BY <1>1, <2>4, GoesOn
  <2> HIDE DEF x
  <2>8. HistoryTyped' BY <1>4, HistoryKept DEF Write
  <2> QED BY <1>4, <2>5, <2>6, <2>8, SlotTyped DEF Write, Typed, TypeOK
<1>5. CASE Commit(s)
  <2>1. r.pc \in StepsOf(r.kind) BY <1>5, <1>2 DEF Commit
  <2>2. Written(r) \in [Users -> Row] BY <1>1, <2>1, WrittenRows
  <2>3. HistoryTyped' BY <1>5, HistoryKept
  <2>4. CASE row' = Written(r) /\ End(s) /\ UNCHANGED faults
    BY <1>3, <1>5, <2>2, <2>3, <2>4, SlotTyped
       DEF Commit, End, Unlocked, Typed, TypeOK
  <2>5. CASE Fail(s) /\ faults < MaxFaults /\ faults' = faults + 1
             /\ UNCHANGED <<row, open>>
    <3>1. PICK y \in Request : Sensible(y) /\ req' = [req EXCEPT ![s] = y]
      BY <2>5, <2>1, FailTyped
    <3>2. lock' \in Slots \cup {None} BY <2>5, <2>1, FailTyped
    <3>3. faults' \in 0..MaxFaults
      BY <2>5, MembershipAssumption DEF Typed, TypeOK
    <3>4. astray' \in BOOLEAN BY <1>5 DEF Commit, Typed, TypeOK
    <3> QED BY <1>5, <2>3, <2>5, <3>1, <3>2, <3>3, <3>4, SlotTyped
            DEF Commit, Typed, TypeOK
  <2> QED BY <1>5, <2>4, <2>5 DEF Commit
<1>6. CASE CleanUp(s)
  <2>1. sub' \in [Users -> Access] BY <1>1, <1>6 DEF CleanUp, Access
  <2>2. HistoryTyped' BY <1>6, HistoryKept DEF CleanUp
  <2> QED BY <1>3, <1>6, <2>1, <2>2, SlotTyped
          DEF CleanUp, End, Unlocked, Typed, TypeOK
<1> QED BY <1>4, <1>5, <1>6

\* Every step keeps the types and the steps of the handlers.
LEMMA StepTyped == Typed /\ [Next]_vars => Typed'
<1> SUFFICES ASSUME Typed, [Next]_vars PROVE Typed'
  OBVIOUS
<1>1. CASE UNCHANGED vars
  BY <1>1 DEF vars, Typed, TypeOK, StepsOk
<1> QED BY <1>1, BeginTyped, PrepareTyped, TopicTyped, UndoingTyped,
           RowsTyped DEF Next, Step

\* Every reachable state is of its type, and every request at one of its steps.
THEOREM AlwaysTyped == Spec => []Typed
BY InitTyped, StepTyped, PTL DEF Spec

\* Type correctness of the rows, the topic and the requests.
THEOREM TypeCorrect == Spec => []TypeOK
BY AlwaysTyped, PTL DEF Typed

-----------------------------------------------------------------------------
(* What a commit writes, if its request had read the rows as they are *)

RowsOk ==
    /\ \A u \in Users : row[u].active => row[u].approval = "APPROVED"
    /\ open => \E o \in Users : Owners(row) = {o}

\* What a request has read is still so.
Fresh(r) ==
    /\ r.target \in Users /\ r.seen = row[r.target]
    /\ r.pending => r.kind = "add" /\ ~r.seen.active
    /\ r.kind \in {"approve", "reject"} => ~r.seen.active
    /\ r.kind = "role" =>
          r.target \in Members(row) \ Owners(row) /\ r.wants # "OWNER"
    /\ r.kind = "remove" =>
          /\ r.target \in Members(row)
          /\ r.target \in Owners(row) <=> r.heir # None
          /\ r.heir # None => r.heir \in Members(row) \ {r.target}

\* What a departure writes: a member and maybe an owner less, the heir is owner.
LEMMA RemoveRows ==
    ASSUME Typed, RowsOk, NEW r, r.kind = "remove", Fresh(r),
           NEW o \in Users, Owners(row) = {o}
    PROVE  /\ \A u \in Users :
                 u \in Members(Written(r)) <=> u \in Members(row) /\ u # r.target
           /\ \A u \in Users :
                 u \in Owners(Written(r)) <=>
                    u = (IF r.heir = None THEN o ELSE r.heir)
           /\ r.heir # None => o = r.target
           /\ r.heir = None => o # r.target
           /\ o \in Members(row)
           /\ \A u \in Users : Written(r)[u].active =>
                                  Written(r)[u].approval = "APPROVED"
           /\ \A u \in Users \ {r.heir} : Written(r)[u].role = row[u].role
<1> DEFINE left == [row EXCEPT ![r.target].active = FALSE]
<1>1. Written(r) = Promoted(left, r) BY DEF Written
<1>2. /\ r.target \in Members(row)
      /\ r.target \in Owners(row) <=> r.heir # None
      /\ r.heir # None => r.heir \in Members(row) \ {r.target}
      /\ None \notin Users
  BY MembershipAssumption DEF Fresh
<1>3. row \in [Users -> Row] BY DEF Typed, TypeOK
<1>4. \A u \in Users :
         /\ left[u].active <=> row[u].active /\ u # r.target
         /\ left[u].approval = row[u].approval /\ left[u].role = row[u].role
         /\ left[u] \in Row
  BY <1>3 DEF Row
<1> HIDE DEF left
<1>5. \A u \in Users :
         Written(r)[u] = IF u = r.heir THEN [left[u] EXCEPT !.role = "OWNER"]
                         ELSE left[u]
  BY <1>1 DEF Promoted
<1>6. \A u \in Users :
         /\ Written(r)[u].active <=> row[u].active /\ u # r.target
         /\ Written(r)[u].approval = row[u].approval
         /\ Written(r)[u].role = IF u = r.heir THEN "OWNER" ELSE row[u].role
  <2> SUFFICES ASSUME NEW u \in Users
               PROVE  /\ Written(r)[u].active <=> row[u].active /\ u # r.target
                      /\ Written(r)[u].approval = row[u].approval
                      /\ Written(r)[u].role = IF u = r.heir THEN "OWNER"
                                             ELSE row[u].role
    OBVIOUS
  <2>1. left[u] \in Row BY <1>4
  <2>2. \A l \in Row : LET o2 == [l EXCEPT !.role = "OWNER"] IN
           o2.active = l.active /\ o2.approval = l.approval /\ o2.role = "OWNER"
    BY DEF Row
  <2>3. /\ Written(r)[u].active = left[u].active
        /\ Written(r)[u].approval = left[u].approval
        /\ Written(r)[u].role = IF u = r.heir THEN "OWNER" ELSE left[u].role
    BY <1>5, <2>1, <2>2
  <2> QED BY <1>4, <2>3
<1>7. \A u \in Users :
         u \in Members(Written(r)) <=> u \in Members(row) /\ u # r.target
  BY <1>6 DEF Members
<1>8. /\ r.heir # None => o = r.target
      /\ r.heir = None => o # r.target
      /\ o \in Members(row)
  BY <1>2 DEF Owners
<1>9. \A u \in Members(row) : row[u].role = "OWNER" <=> u = o
  BY DEF Owners
<1>10. \A u \in Users :
          u \in Owners(Written(r)) <=> u = (IF r.heir = None THEN o ELSE r.heir)
  <2>1. \A u : u \in Owners(Written(r)) <=>
                  u \in Members(Written(r)) /\ Written(r)[u].role = "OWNER"
    BY DEF Owners
  <2>2. Members(row) \subseteq Users BY DEF Members
  <2> QED BY <1>2, <1>6, <1>7, <1>8, <1>9, <2>1, <2>2
<1>11. \A u \in Users : Written(r)[u].active => Written(r)[u].approval = "APPROVED"
  BY <1>6 DEF RowsOk
<1> QED BY <1>6, <1>7, <1>8, <1>10, <1>11

\* A change of role: the same members, the same owner.
LEMMA RoleRows ==
    ASSUME Typed, RowsOk, NEW r, r.kind = "role", Fresh(r)
    PROVE  /\ Members(Written(r)) = Members(row)
           /\ Owners(Written(r)) = Owners(row)
           /\ Written(r)[r.target].role = r.wants
           /\ r.target \in Members(row) /\ r.target \notin Owners(row)
           /\ \A u \in Users : Written(r)[u].active =>
                                  Written(r)[u].approval = "APPROVED"
           /\ \A u \in Users : u # r.target => Written(r)[u] = row[u]
<1>1. Written(r) = [row EXCEPT ![r.target].role = r.wants]
  BY DEF Written
<1>2. r.target \in Members(row) \ Owners(row) /\ r.wants # "OWNER"
      /\ r.target \in Users
  BY DEF Fresh
<1>3. row \in [Users -> Row] BY DEF Typed, TypeOK
<1>4. \A u \in Users :
         /\ Written(r)[u].active = row[u].active
         /\ Written(r)[u].approval = row[u].approval
         /\ Written(r)[u].role = IF u = r.target THEN r.wants ELSE row[u].role
         /\ u # r.target => Written(r)[u] = row[u]
  BY <1>1, <1>2, <1>3 DEF Row
<1>5. Members(Written(r)) = Members(row) BY <1>4 DEF Members
<1>6. Owners(Written(r)) = Owners(row)
  BY <1>2, <1>4, <1>5 DEF Owners, Members
<1> QED BY <1>2, <1>4, <1>5, <1>6 DEF RowsOk

\* What an addition, an approval or a rejection writes: nothing new about a
\* member, and nobody else becomes more than a plain member.
LEMMA AddRows ==
    ASSUME Typed, RowsOk, NEW r, r.kind \in Adding, Fresh(r), ~Outdated(r)
    PROVE  LET t == r.target  rows == Written(r) IN
           \/ rows = row /\ Unbridged(r)
           \/ /\ t \notin Members(row)
              /\ \A u \in Users \ {t} : rows[u] = row[u]
              /\ rows[t].active <=> ~Unbridged(r)
              /\ rows[t].active =>
                    rows[t].approval = "APPROVED" /\ rows[t].role # "OWNER"
<1> DEFINE t == r.target
           new == IF r.kind = "reject"
                  THEN [r.seen EXCEPT !.active = FALSE, !.approval = "none"]
                  ELSE IF r.pending THEN [NoRow EXCEPT !.approval = "PENDING"]
                  ELSE Joined("MEMBER")
<1>1. /\ t \in Users /\ r.seen = row[t] /\ row[t] \in Row
      /\ row \in [Users -> Row]
      /\ r.pending => r.kind = "add" /\ ~row[t].active
      /\ r.kind \in {"approve", "reject"} => ~row[t].active
      /\ row[t].active => row[t].approval = "APPROVED"
      /\ r.kind = "add" /\ row[t].active => row[t].role = "MEMBER"
  BY DEF Fresh, Typed, TypeOK, RowsOk, Outdated
<1>2. Written(r) = [row EXCEPT ![t] = Update(@, row[t], new)]
  BY <1>1 DEF Written, Adding
<1>3. /\ new \in Row /\ (new.active => new.role = "MEMBER")
      /\ new.active <=> r.kind # "reject" /\ ~r.pending
      /\ new.active => new.approval = "APPROVED"
  <2>1. CASE r.kind = "reject"
    BY <1>1, <2>1 DEF Row
  <2>2. CASE r.kind # "reject"
    BY <2>2, SomeRows DEF NoRow, Joined, Roles
  <2> QED BY <2>1, <2>2
<1> HIDE DEF new
<1>4. Update(row[t], row[t], new) = new
  BY <1>1, <1>3 DEF Update, Row
<1>5. /\ Written(r)[t] = new
      /\ \A u \in Users \ {t} : Written(r)[u] = row[u]
  BY <1>1, <1>2, <1>4
<1>6. CASE row[t].active
  <2>1. r.kind = "add" /\ ~r.pending /\ r.seen.active
    BY <1>1, <1>6 DEF Adding
  <2>2. new.active /\ new.approval = row[t].approval /\ new.role = row[t].role
    BY <1>1, <1>3, <1>6, <2>1
  <2>3. new = row[t] BY <1>1, <1>3, <1>6, <2>2 DEF Row
  <2>4. Written(r) = row BY <1>1, <1>2, <1>4, <2>3
  <2> QED BY <2>1, <2>4 DEF Unbridged
<1>7. CASE ~row[t].active
  <2>1. t \notin Members(row) BY <1>7 DEF Members
  <2>2. new.active <=> ~Unbridged(r) BY <1>1, <1>3, <1>7 DEF Unbridged
  <2> QED BY <1>3, <1>5, <2>1, <2>2
<1> QED BY <1>6, <1>7

\* Who is a member after a commit has been approved, in a closed group too.
LEMMA ActiveRows ==
    ASSUME Typed, RowsOk, NEW r, Fresh(r), ~Outdated(r),
           r.kind \in Adding \cup {"role", "remove"}
    PROVE  \A u \in Users : Written(r)[u].active =>
                               Written(r)[u].approval = "APPROVED"
<1>1. CASE r.kind \in Adding
  BY <1>1, AddRows DEF RowsOk
<1>2. CASE r.kind = "role" BY <1>2, RoleRows
<1>3. CASE r.kind = "remove"
  <2> DEFINE left == [row EXCEPT ![r.target].active = FALSE]
  <2>1. \A u \in Users :
           Written(r)[u] = IF u = r.heir THEN [left[u] EXCEPT !.role = "OWNER"]
                           ELSE left[u]
    BY <1>3 DEF Written, Promoted
  <2>2. \A u \in Users :
           /\ left[u].active => row[u].active
           /\ left[u].approval = row[u].approval
           /\ left[u] \in Row
    BY DEF Typed, TypeOK, Row
  <2> HIDE DEF left
  <2>3. \A l \in Row : /\ [l EXCEPT !.role = "OWNER"].active = l.active
                       /\ [l EXCEPT !.role = "OWNER"].approval = l.approval
    BY DEF Row
  <2>4. \A u \in Users : /\ Written(r)[u].active = left[u].active
                         /\ Written(r)[u].approval = left[u].approval
    BY <2>1, <2>2, <2>3
  <2> QED BY <2>2, <2>4 DEF RowsOk
<1> QED BY <1>1, <1>2, <1>3

\* A commit over rows that are still as they were read leaves one owner.
LEMMA CommitRows ==
    ASSUME Typed, RowsOk, open, NEW r, Fresh(r), ~Outdated(r),
           r.kind \in Adding \cup {"role", "remove"}
    PROVE  /\ \A u \in Users : Written(r)[u].active =>
                                  Written(r)[u].approval = "APPROVED"
           /\ \E o \in Users : Owners(Written(r)) = {o}
<1>1. PICK o \in Users : Owners(row) = {o} BY DEF RowsOk
<1>2. CASE r.kind \in Adding
  <2> DEFINE t == r.target
  <2>1. CASE Written(r) = row BY <1>1, <2>1 DEF RowsOk
  <2>2. CASE /\ t \notin Members(row)
             /\ \A u \in Users \ {t} : Written(r)[u] = row[u]
             /\ Written(r)[t].active => Written(r)[t].approval = "APPROVED"
                                        /\ Written(r)[t].role # "OWNER"
    <3>1. \A u \in Users \ {t} : u \in Members(Written(r)) <=> u \in Members(row)
      BY <2>2 DEF Members
    <3>2. \A u \in Users : u \in Owners(Written(r)) <=> u \in Owners(row)
      BY <2>2, <3>1 DEF Owners, Members
    <3>3. Owners(Written(r)) = {o} BY <1>1, <3>2 DEF Owners, Members
    <3> QED BY <2>2, <3>3 DEF RowsOk
  <2> QED BY <1>2, <2>1, <2>2, AddRows
<1>3. CASE r.kind = "role" BY <1>1, <1>3, RoleRows
<1>4. CASE r.kind = "remove"
  <2> DEFINE new == IF r.heir = None THEN o ELSE r.heir
  <2>1. /\ \A u \in Users : u \in Owners(Written(r)) <=> u = new
        /\ \A u \in Users : Written(r)[u].active =>
                               Written(r)[u].approval = "APPROVED"
    BY <1>1, <1>4, RemoveRows
  <2>2. new \in Users BY <1>1, <1>4 DEF Fresh, Members
  <2>3. Owners(Written(r)) \subseteq Users BY DEF Owners, Members
  <2>4. Owners(Written(r)) = {new} BY <2>1, <2>2, <2>3
  <2> QED BY <2>1, <2>2, <2>4
<1> QED BY <1>2, <1>3, <1>4

-----------------------------------------------------------------------------
(* Any requests may overlap: what each of them relies on, or the history    *)
(* tells that it was disturbed.                                             *)

\* What a request keeps from its beginning.
Named(r) == r.target \in Users /\ r.heir # r.target

Kept(r) ==
    /\ r.pending => r.kind = "add" /\ ~r.seen.active
    /\ r.kind \in {"approve", "reject"} => ~r.seen.active
    /\ r.kind \in {"role", "remove"} =>
          r.seen.active /\ r.seen.approval = "APPROVED"
    /\ r.kind = "role" => r.seen.role # "OWNER" /\ r.wants # "OWNER"
    /\ r.kind = "remove" => (r.seen.role = "OWNER" <=> r.heir # None)

\* From its first write to its end a handler holds the row lock.
Holding(r) ==
    \/ r.pc \in {"add", "reconcile", "offer", "accept", "removeSub"}
    \/ r.pc = "commit" /\ r.kind \notin {"reject", "dissolve"}

\* Before a commit the topic grants what the rows will say of its accounts.
Arranged(r) ==
    r.pc = "commit" =>
       /\ r.kind \in Adding /\ ~Unbridged(r) => "S" \in sub[r.target]
       /\ r.kind = "role" => ModeOf(r.wants) \subseteq sub[r.target]
       /\ r.kind = "remove" =>
             /\ sub[r.target] = {}
             /\ r.heir \in Members(row) => ModeOf("OWNER") \subseteq sub[r.heir]

KeptOk == \A s \in Busy : req[s].pc # "cleanup" => Kept(req[s])

Solid ==
    /\ \A s \in Busy : Named(req[s])
    /\ ~spoiled => RowsOk /\ KeptOk
    /\ \A s \in Slots : Holding(req[s]) => lock = s
    /\ \A s \in Slots : req[s].pc = "cleanup" => ~open
    /\ open /\ ~disturbed => \A s \in Busy : Arranged(req[s])

SameRequest(x, r) ==
    /\ x.kind = r.kind /\ x.target = r.target /\ x.seen = r.seen
    /\ x.pending = r.pending /\ x.wants = r.wants /\ x.heir = r.heir

\* Nobody but the lock holder changes what it has arranged, unless the history
\* says so.
LEMMA SolidFrame ==
    ASSUME Typed, Solid, NEW s \in Slots, req[s].pc # "idle",
           \A z \in Slots \ {s} : req'[z] = req[z],
           row' = row, open' = open, spoiled' = spoiled,
           \/ disturbed' = disturbed /\ sub' = sub
           \/ Touching(s),
           lock' = lock \/ (lock = None /\ lock' = s) \/ lock' = Unlocked(s),
           \/ req'[s].pc = "idle"
           \/ /\ req'[s].pc # "cleanup"
              /\ SameRequest(req'[s], req[s])
              /\ Holding(req'[s]) => lock' = s
              /\ open /\ ~disturbed => Arranged(req[s])',
           req[s].pc # "cleanup"
    PROVE  Solid'
<1>1. /\ s \in Busy /\ \A z \in Slots \ {s} : (z \in Busy)' <=> z \in Busy
      /\ lock \in Slots \cup {None} /\ None \notin Slots
  BY MembershipAssumption DEF Busy, Typed, TypeOK
<1>2. \A z \in Busy' : z \in Busy /\ (z = s => req'[s].pc # "idle")
  BY <1>1 DEF Busy
<1>3. \A z \in Busy' : Named(req[z])'
  <2> SUFFICES ASSUME NEW z \in Busy' PROVE Named(req'[z])
    BY DEF Named
  <2>1. CASE z = s BY <1>1, <1>2, <2>1 DEF Solid, Named, SameRequest
  <2>2. CASE z # s
    <3>1. req'[z] = req[z] BY <2>2 DEF Busy
    <3> QED BY <1>2, <3>1 DEF Solid
  <2> QED BY <2>1, <2>2
<1>4. ASSUME ~spoiled' PROVE RowsOk' /\ KeptOk'
  <2>1. RowsOk' BY <1>4 DEF Solid, RowsOk
  <2>2. ASSUME NEW z \in Busy', req'[z].pc # "cleanup" PROVE Kept(req'[z])
    <3>1. CASE z = s
      <4>1. Kept(req[s]) BY <1>1, <1>4 DEF Solid, KeptOk
      <4> QED BY <1>2, <3>1, <4>1 DEF Kept, SameRequest
    <3>2. CASE z # s
      <4>1. req'[z] = req[z] BY <3>2 DEF Busy
      <4> QED BY <1>2, <1>4, <2>2, <4>1 DEF Solid, KeptOk
    <3> QED BY <3>1, <3>2
  <2>3. KeptOk' BY <2>2 DEF KeptOk, Kept
  <2> QED BY <2>1, <2>3
<1>5. ASSUME NEW z \in Slots, Holding(req'[z]) PROVE lock' = z
  <2>1. CASE z = s BY <1>5, <2>1 DEF Holding
  <2>2. CASE z # s
    <3>1. lock = z BY <1>5, <2>2 DEF Solid
    <3> QED BY <1>1, <2>2, <3>1 DEF Unlocked
  <2> QED BY <2>1, <2>2
<1>6. ASSUME NEW z \in Slots, req'[z].pc = "cleanup" PROVE ~open'
  BY <1>6 DEF Solid
<1>7. ASSUME open', ~disturbed', NEW z \in Busy' PROVE Arranged(req[z])'
  <2>1. ~disturbed BY <1>7 DEF Touching
  <2>2. CASE z = s BY <1>2, <1>7, <2>1, <2>2
  <2>3. CASE z # s
    <3>1. req'[z] = req[z] /\ z \in Busy BY <1>2, <2>3 DEF Busy
    <3>2. Arranged(req[z]) BY <1>7, <2>1, <3>1 DEF Solid
    <3>3. CASE ~Holding(req[z])
      <4>1. CASE req[z].pc # "commit" BY <3>1, <4>1 DEF Arranged
      <4>2. CASE req[z].kind \in {"reject", "dissolve"}
        BY <3>1, <4>2 DEF Arranged, Adding, Unbridged
      <4> QED BY <3>3, <4>1, <4>2 DEF Holding
    <3>4. CASE Holding(req[z])
      <4>1. lock = z BY <3>1, <3>4 DEF Solid, Busy
      <4>2. Watched = {req[z].target, req[z].heir}
        BY <1>1, <3>1, <4>1 DEF Watched, Busy
      <4>3. \A u \in {req[z].target, req[z].heir} \cap Users : sub'[u] = sub[u]
        BY <1>7, <2>3, <4>1, <4>2 DEF Touching
      <4>4. req[z].target \in Users BY <3>1 DEF Solid, Named
      <4>5. Members(row) \subseteq Users BY DEF Members
      <4> QED BY <3>1, <3>2, <4>3, <4>4, <4>5 DEF Arranged, Unbridged
    <3> QED BY <3>3, <3>4
  <2> QED BY <2>2, <2>3
<1>8. \A z \in Slots : Holding(req[z])' => (lock = z)'
  BY <1>5 DEF Holding
<1>9. \A z \in Slots : (req[z].pc = "cleanup" => ~open)'
  BY <1>6
<1> QED BY <1>3, <1>4, <1>7, <1>8, <1>9 DEF Solid

\* If nothing is outdated, what a request keeps is what the rows still say.
LEMMA KeptFresh ==
    ASSUME NEW r, Named(r), Kept(r), ~Outdated(r)
    PROVE  Fresh(r)
BY DEF Named, Kept, Outdated, Fresh, Members, Owners

\* A request that fails ends, or goes on to undo.
LEMMA FailShape ==
    ASSUME Typed, NEW s \in Slots, Fail(s)
    PROVE  /\ \A z \in Slots \ {s} : req'[z] = req[z]
           /\ lock' = Unlocked(s)
           /\ \/ req'[s].pc = "idle"
              \/ /\ req'[s].pc \in {"undoAdd", "undoRole", "undoGrant",
                                    "undoMode", "undoRemove"}
                 /\ SameRequest(req'[s], req[s])
<1> DEFINE undo == FirstUndo(req[s])
<1>1. undo \in {"idle", "undoAdd", "undoRole", "undoGrant", "undoMode",
                "undoRemove"}
  BY DEF FirstUndo
<1>2. req' = [req EXCEPT ![s] = IF undo = "idle" THEN NoRequest
                                ELSE [req[s] EXCEPT !.pc = undo]]
      /\ lock' = Unlocked(s)
  BY DEF Fail
<1> HIDE DEF undo
<1>3. CASE undo = "idle"
  BY <1>2, <1>3 DEF Typed, TypeOK, NoRequest
<1>4. CASE undo # "idle"
  BY <1>1, <1>2, <1>4 DEF Typed, TypeOK, Request, SameRequest
<1> QED BY <1>3, <1>4

\* A Tinode call, if the next step is prepared by it.
LEMMA CallSolid ==
    ASSUME Typed, Solid, NEW s \in Slots, NEW sub2, NEW possible, NEW partial,
           NEW x, Call(s, sub2, possible, partial, x),
           req[s].pc \notin {"idle", "cleanup"}, x.pc \notin {"idle", "cleanup"},
           SameRequest(x, req[s]), Holding(x) => lock = s,
           open /\ sub' = sub2 /\ req'[s] = x => Arranged(req[s])'
    PROVE  Solid'
<1>1. row' = row /\ open' = open /\ Touching(s) /\ spoiled' = spoiled
  BY DEF Call, Touching
<1>2. CASE Fail(s)
  <2>1. req'[s].pc # "idle" => ~Holding(req'[s]) /\ Arranged(req[s])'
        /\ req'[s].pc # "cleanup"
    BY <1>2, FailShape DEF Holding, Arranged
  <2> QED BY <1>1, <1>2, <2>1, FailShape, SolidFrame
<1>3. CASE sub' = sub2 /\ req' = [req EXCEPT ![s] = x] /\ lock' = lock
  <2>1. req'[s] = x /\ \A z \in Slots \ {s} : req'[z] = req[z]
    BY <1>3 DEF Typed, TypeOK
  <2> QED BY <1>1, <1>3, <2>1, SolidFrame
<1> QED BY <1>2, <1>3 DEF Call

\* Before the handler has the lock: credentials, and the lock itself.
LEMMA PrepareSolid ==
    ASSUME Typed, Solid, NEW s \in Slots, Prepare(s) \/ Write(s)
    PROVE  Solid'
<1> DEFINE r == req[s]
<1>1. /\ r \in Request /\ r.pc \in {"prepare", "write"}
      /\ r.pc \in StepsOf(r.kind) /\ (r.pending => r.kind = "add")
  BY DEF Prepare, Write, Typed, TypeOK, StepsOk, Sensible
<1>2. /\ row' = row /\ open' = open /\ sub' = sub /\ disturbed' = disturbed
      /\ spoiled' = spoiled
  BY DEF Prepare, Write, history
<1>3. CASE Prepare(s)
  <2>1. CASE End(s)
    <3>1. req'[s].pc = "idle" /\ \A z \in Slots \ {s} : req'[z] = req[z]
      BY <2>1 DEF End, NoRequest, Typed, TypeOK
    <3>2. lock' = Unlocked(s) BY <2>1 DEF End
    <3> QED BY <1>1, <1>2, <3>1, <3>2, SolidFrame
  <2>2. CASE lock' = lock /\ Goto(s, "write")
    <3>1. req'[s] = [r EXCEPT !.pc = "write"]
          /\ \A z \in Slots \ {s} : req'[z] = req[z]
      BY <2>2 DEF Goto, Typed, TypeOK
    <3>2. req'[s].pc = "write" /\ SameRequest(req'[s], r)
      BY <1>1, <3>1 DEF Request, SameRequest
    <3>3. ~Holding(req'[s]) /\ Arranged(req[s])' BY <3>2 DEF Holding, Arranged
    <3> QED BY <1>1, <1>2, <2>2, <3>1, <3>2, <3>3, SolidFrame
  <2>3. ASSUME NEW o \in Owners(row), lock' = lock,
               req' = [req EXCEPT ![s].op = o, ![s].known = Subscribers,
                        ![s].expected = Members(row),
                        ![s].pc = IF r.kind = "dissolve" THEN "dissolve"
                                  ELSE "write"]
        PROVE  Solid'
    <3>1. req'[s] = [r EXCEPT !.op = o, !.known = Subscribers,
                     !.expected = Members(row),
                     !.pc = IF r.kind = "dissolve" THEN "dissolve" ELSE "write"]
          /\ \A z \in Slots \ {s} : req'[z] = req[z]
      BY <2>3 DEF Typed, TypeOK
    <3>2. req'[s].pc \in {"write", "dissolve"} /\ SameRequest(req'[s], r)
      BY <1>1, <3>1 DEF Request, SameRequest
    <3>3. ~Holding(req'[s]) /\ Arranged(req[s])' BY <3>2 DEF Holding, Arranged
    <3> QED BY <1>1, <1>2, <2>3, <3>1, <3>2, <3>3, SolidFrame
  <2> QED BY <1>3, <2>1, <2>2, <2>3 DEF Prepare
<1>4. CASE Write(s)
  <2> DEFINE pc == CASE Unbridged(r) -> "commit"
                 [] ~Unbridged(r) /\ r.kind \in {"add", "approve"} -> "add"
                 [] r.kind = "role" -> "reconcile"
                 [] r.kind = "remove" ->
                       IF r.heir # None THEN "offer" ELSE "removeSub"
  <2>1. r.pc = "write" /\ lock = None /\ lock' = s BY <1>4 DEF Write
  <2>2. r.kind \in Adding \cup {"role", "remove"}
    BY <1>1, <2>1 DEF StepsOf, Adding
  <2>3. /\ pc \in {"commit", "add", "reconcile", "offer", "removeSub"}
        /\ pc = "commit" => Unbridged(r) /\ r.kind \in Adding
    BY <1>1, <2>2 DEF Unbridged, Adding
  <2>4. req' = [req EXCEPT ![s].pc = pc] BY <1>4 DEF Write, Goto
  <2> HIDE DEF pc
  <2>5. req'[s] = [r EXCEPT !.pc = pc]
        /\ \A z \in Slots \ {s} : req'[z] = req[z]
    BY <2>4 DEF Typed, TypeOK
  <2>6. req'[s].pc = pc /\ SameRequest(req'[s], r)
    BY <1>1, <2>5 DEF Request, SameRequest
  <2>7. Arranged(req[s])'
    BY <2>3, <2>6 DEF Arranged, SameRequest, Unbridged, Adding
  <2> QED BY <1>1, <1>2, <2>1, <2>3, <2>5, <2>6, <2>7, SolidFrame
<1> QED BY <1>3, <1>4

\* The calls before the check.
LEMMA ChangeSolid ==
    ASSUME Typed, Solid, NEW s \in Slots,
           AddSubscriber(s) \/ OfferTopic(s) \/ AcceptTopic(s)
           \/ RemoveSubscriber(s) \/ DissolveTopic(s)
    PROVE  Solid'
<1> DEFINE r == req[s]
<1>1. r \in Request /\ r.pc \notin {"idle", "cleanup"}
  BY DEF AddSubscriber, OfferTopic, AcceptTopic, RemoveSubscriber,
         DissolveTopic, Typed, TypeOK
<1>2. r.pc \in StepsOf(r.kind) BY <1>1 DEF Typed, StepsOk, Sensible
<1>3. CASE AddSubscriber(s)
  <2> DEFINE x == [r EXCEPT !.pc = "reconcile", !.created = r.target \notin r.known]
  <2>1. r.pc = "add" /\ Call(s, Offered(r.target, {"S"}), sub[r.op] # {}, {sub}, x)
    BY <1>3 DEF AddSubscriber
  <2>2. x.pc = "reconcile" /\ SameRequest(x, r) BY <1>1 DEF Request, SameRequest
  <2>3. lock = s BY <2>1 DEF Solid, Holding
  <2>4. req'[s] = x => Arranged(req[s])' BY <2>2 DEF Arranged
  <2> HIDE DEF x
  <2> QED BY <1>1, <2>1, <2>2, <2>3, <2>4, CallSolid
<1>4. CASE OfferTopic(s)
  <2> DEFINE x == [r EXCEPT !.pc = "accept"]
  <2>1. r.pc = "offer" /\ Call(s, sub, "O" \in sub[r.op], {sub}, x)
    BY <1>4 DEF OfferTopic
  <2>2. x.pc = "accept" /\ SameRequest(x, r) BY <1>1 DEF Request, SameRequest
  <2>3. lock = s BY <2>1 DEF Solid, Holding
  <2>4. req'[s] = x => Arranged(req[s])' BY <2>2 DEF Arranged
  <2> HIDE DEF x
  <2> QED BY <1>1, <2>1, <2>2, <2>3, <2>4, CallSolid
<1>5. CASE AcceptTopic(s)
  <2> DEFINE x == [r EXCEPT !.pc = "removeSub", !.accepted = TRUE]
  <2>1. r.pc = "accept" /\ Call(s, Taken(r.heir), sub[r.heir] # {}, {sub}, x)
    BY <1>5 DEF AcceptTopic
  <2>2. x.pc = "removeSub" /\ SameRequest(x, r) BY <1>1 DEF Request, SameRequest
  <2>3. lock = s BY <2>1 DEF Solid, Holding
  <2>4. req'[s] = x => Arranged(req[s])' BY <2>2 DEF Arranged
  <2> HIDE DEF x
  <2> QED BY <1>1, <2>1, <2>2, <2>3, <2>4, CallSolid
<1>6. CASE RemoveSubscriber(s)
  <2> DEFINE x == [r EXCEPT !.pc = "reconcile", !.removed = TRUE]
  <2>1. r.pc = "removeSub"
        /\ Call(s, [sub EXCEPT ![r.target] = {}], sub[r.op] # {}, {sub}, x)
    BY <1>6 DEF RemoveSubscriber
  <2>2. x.pc = "reconcile" /\ SameRequest(x, r) BY <1>1 DEF Request, SameRequest
  <2>3. lock = s BY <2>1 DEF Solid, Holding
  <2>4. req'[s] = x => Arranged(req[s])' BY <2>2 DEF Arranged
  <2> HIDE DEF x
  <2> QED BY <1>1, <2>1, <2>2, <2>3, <2>4, CallSolid
<1>7. CASE DissolveTopic(s)
  <2> DEFINE x == [r EXCEPT !.pc = "commit"]
             partial == {Invited(gone, {}) : gone \in SUBSET (Subscribers \ {r.op})}
  <2>1. r.pc = "dissolve" BY <1>7 DEF DissolveTopic
  <2>2. r.kind = "dissolve" BY <1>2, <2>1 DEF StepsOf, Adding
  <2>3. x.pc = "commit" /\ SameRequest(x, r) /\ x.kind = "dissolve"
    BY <1>1, <2>2 DEF Request, SameRequest
  <2>4. ~Holding(x) /\ (req'[s] = x => Arranged(req[s])')
    BY <2>3 DEF Holding, Arranged, Adding
  <2> HIDE DEF x
  <2>5. CASE Call(s, [u \in Users |-> {}], sub[r.op] # {}, partial, x)
    BY <1>1, <2>3, <2>4, <2>5, CallSolid
  <2>6. CASE Fail(s) /\ Touching(s) /\ UNCHANGED <<row, open, sent>>
    <3>1. req'[s].pc # "idle" => ~Holding(req'[s]) /\ Arranged(req[s])'
          /\ req'[s].pc # "cleanup"
      BY <2>6, FailShape DEF Holding, Arranged
    <3>2. spoiled' = spoiled BY <2>6 DEF Touching
    <3> QED BY <1>1, <2>6, <3>1, <3>2, FailShape, SolidFrame
  <2> QED BY <1>7, <2>5, <2>6 DEF DissolveTopic, x
<1> QED BY <1>3, <1>4, <1>5, <1>6, <1>7

\* The check before the commit arranges what the rows will say.
LEMMA ReconcileSolid ==
    ASSUME Typed, Solid, NEW s \in Slots, Reconcile(s)
    PROVE  Solid'
<1> DEFINE r == req[s]
           t == req[s].target
           x == [r EXCEPT !.pc = "commit"]
           goal == ReconcileGoal(r)
<1>1. /\ r \in Request /\ r.pc = "reconcile" /\ r.pc \in StepsOf(r.kind)
      /\ row \in [Users -> Row]
  BY DEF Reconcile, Typed, TypeOK, StepsOk, Sensible
<1>2. r.kind \in Adding \cup {"role", "remove"}
  BY <1>1 DEF StepsOf, Adding
<1>3. lock = s /\ t \in Users /\ r.heir # t
  BY <1>1 DEF Solid, Holding, Named, Busy
<1>4. x.pc = "commit" /\ SameRequest(x, r) BY <1>1 DEF Request, SameRequest
<1> HIDE DEF x
<1>5. CASE Call(s, goal, TRUE, SomeOf(goal), x)
  <2>1. ASSUME r.kind \in Adding PROVE "S" \in goal[t]
    BY <1>3, <2>1 DEF ReconcileGoal, Reconciled, ModeOf, Adding
  <2>2. ASSUME r.kind = "role" PROVE goal[t] = ModeOf(r.wants)
    <3> DEFINE rows == Written(r)
    <3>1. rows[t].role = r.wants BY <1>1, <1>3, <2>2 DEF Written, Row
    <3> HIDE DEF rows
    <3>2. goal = Reconciled(rows, r.expected, r.expected, {t}, TRUE)
      BY <2>2 DEF ReconcileGoal, RowsFor, rows
    <3> QED BY <1>3, <3>1, <3>2 DEF Reconciled
  <2>3. ASSUME r.kind = "remove"
        PROVE  /\ goal[t] = {}
               /\ r.heir \in Members(row) => ModeOf("OWNER") \subseteq goal[r.heir]
    <3> DEFINE left == [row EXCEPT ![t].active = FALSE]
               rows == Written(r)
    <3>1. \A u \in Users : rows[u] = IF u = r.heir
                                     THEN [left[u] EXCEPT !.role = "OWNER"]
                                     ELSE left[u]
      BY <2>3 DEF Written, Promoted
    <3>2. /\ left[t].active = FALSE
          /\ \A u \in Users \ {t} : left[u] = row[u]
      BY <1>1, <1>3 DEF Row
    <3> HIDE DEF rows, left
    <3>3. goal = Reconciled(rows, Members(rows), Members(rows), {}, TRUE)
      BY <2>3 DEF ReconcileGoal, RowsFor, rows
    <3>4. t \notin Members(rows) BY <1>3, <3>1, <3>2 DEF Members
    <3>5. goal[t] = {} BY <1>3, <3>3, <3>4 DEF Reconciled
    <3>6. ASSUME r.heir \in Members(row)
          PROVE  ModeOf("OWNER") \subseteq goal[r.heir]
      <4>1. r.heir \in Users /\ row[r.heir] \in Row
        BY <1>1, <3>6 DEF Members
      <4>2. rows[r.heir] = [row[r.heir] EXCEPT !.role = "OWNER"]
        BY <1>3, <3>1, <3>2, <4>1
      <4>3. /\ rows[r.heir].role = "OWNER"
            /\ rows[r.heir].active = row[r.heir].active
            /\ rows[r.heir].approval = row[r.heir].approval
        BY <4>1, <4>2 DEF Row
      <4>4. r.heir \in Members(rows) BY <3>6, <4>1, <4>3 DEF Members
      <4> QED BY <3>3, <4>1, <4>3, <4>4 DEF Reconciled
    <3> QED BY <3>5, <3>6
  <2>4. ASSUME sub' = goal, req'[s] = x, open PROVE Arranged(req[s])'
    <3>1. row' = row BY <1>5 DEF Call
    <3>2. Members(row') = Members(row) BY <3>1
    <3> HIDE DEF goal
    <3>3. CASE r.kind \in Adding
      BY <1>4, <2>1, <2>4, <3>3 DEF Arranged, SameRequest, Adding
    <3>4. CASE r.kind = "role"
      BY <1>4, <2>2, <2>4, <3>4 DEF Arranged, SameRequest, Adding
    <3>5. CASE r.kind = "remove"
      BY <1>4, <2>3, <2>4, <3>2, <3>5 DEF Arranged, SameRequest, Adding
    <3> QED BY <1>2, <3>3, <3>4, <3>5
  <2> HIDE DEF goal
  <2> QED BY <1>1, <1>3, <1>4, <1>5, <2>4, CallSolid
<1>6. CASE Fail(s) /\ Touching(s) /\ UNCHANGED <<row, open, astray, faults, sent>>
  <2>1. req'[s].pc # "idle" => ~Holding(req'[s]) /\ Arranged(req[s])'
        /\ req'[s].pc # "cleanup"
    BY <1>6, FailShape DEF Holding, Arranged
  <2>2. spoiled' = spoiled BY <1>6 DEF Touching
  <2> QED BY <1>1, <1>6, <2>1, <2>2, FailShape, SolidFrame
<1> QED BY <1>5, <1>6 DEF Reconcile, x

\* The calls of the undoing.
LEMMA UndoSolid ==
    ASSUME Typed, Solid, NEW s \in Slots, NEW pc, NEW sub2, NEW possible,
           NEW next, Undo(s, pc, sub2, possible, next),
           pc \notin {"idle", "cleanup"}, next \in {"idle", "undoAccept", "undoMode"}
    PROVE  Solid'
<1>1. /\ req[s].pc = pc /\ row' = row /\ open' = open /\ lock' = lock
      /\ Touching(s) /\ spoiled' = spoiled
  BY DEF Undo, Touching
<1>2. \/ req' = [req EXCEPT ![s] = NoRequest]
      \/ next # "idle" /\ req' = [req EXCEPT ![s] = [req[s] EXCEPT !.pc = next]]
  BY DEF Undo
<1>3. CASE req' = [req EXCEPT ![s] = NoRequest]
  <2>1. req'[s].pc = "idle" /\ \A z \in Slots \ {s} : req'[z] = req[z]
    BY <1>3 DEF NoRequest, Typed, TypeOK
  <2> QED BY <1>1, <2>1, SolidFrame
<1>4. CASE next # "idle"
           /\ req' = [req EXCEPT ![s] = [req[s] EXCEPT !.pc = next]]
  <2>1. /\ req'[s].pc = next /\ SameRequest(req'[s], req[s])
        /\ \A z \in Slots \ {s} : req'[z] = req[z]
    BY <1>4 DEF Typed, TypeOK, Request, SameRequest
  <2>2. ~Holding(req'[s]) /\ Arranged(req[s])' BY <2>1 DEF Holding, Arranged
  <2> QED BY <1>1, <2>1, <2>2, SolidFrame
<1> QED BY <1>2, <1>3, <1>4

LEMMA UndoingSolid ==
    ASSUME Typed, Solid, NEW s \in Slots,
           \/ UndoAdd(s) \/ UndoRole(s) \/ UndoGrant(s) \/ UndoAccept(s)
           \/ UndoMode(s) \/ UndoRemove(s)
    PROVE  Solid'
<1>1. CASE UndoAdd(s) BY <1>1, UndoSolid DEF UndoAdd
<1>2. CASE UndoRole(s)
  <2> DEFINE before == Reconciled([row EXCEPT ![req[s].target].role =
                                                 req[s].seen.role],
                                  req[s].expected, req[s].expected,
                                  {req[s].target}, TRUE)
             h == Hindered(req[s], before)
  <2>1. Undo(s, "undoRole", h, h = before, "idle") BY <1>2 DEF UndoRole
  <2> HIDE DEF h, before
  <2> QED BY <2>1, UndoSolid
<1>3. CASE UndoGrant(s)
  <2>1. Undo(s, "undoGrant", Offered(req[s].op, {"S", "O"}),
             "O" \in sub[req[s].heir], "undoAccept")
    BY <1>3 DEF UndoGrant
  <2> QED BY <2>1, UndoSolid
<1>4. CASE UndoAccept(s) BY <1>4, UndoSolid DEF UndoAccept
<1>5. CASE UndoMode(s) BY <1>5, UndoSolid DEF UndoMode
<1>6. CASE UndoRemove(s) BY <1>6, UndoSolid DEF UndoRemove
<1> QED BY <1>1, <1>2, <1>3, <1>4, <1>5, <1>6

\* A commit that succeeds: nobody else holds the lock, so nobody else has
\* arranged anything.
LEMMA CommitSolid ==
    ASSUME Typed, Solid, NEW s \in Slots, Commit(s)
    PROVE  Solid'
<1> DEFINE r == req[s]
<1>1. /\ r \in Request /\ r.pc = "commit" /\ r.pc \in StepsOf(r.kind)
      /\ lock \in {None, s} /\ sub' = sub /\ disturbed' = disturbed
      /\ s \in Busy /\ s # None
  BY MembershipAssumption DEF Commit, Typed, TypeOK, StepsOk, Sensible, Busy
<1>2. CASE Fail(s) /\ UNCHANGED <<row, open, spoiled>>
  <2>1. req'[s].pc # "idle" => ~Holding(req'[s]) /\ Arranged(req[s])'
        /\ req'[s].pc # "cleanup"
    BY <1>2, FailShape DEF Holding, Arranged
  <2> QED BY <1>1, <1>2, <2>1, FailShape, SolidFrame
<1>3. CASE /\ row' = Written(r) /\ open' = (open /\ r.kind # "dissolve")
           /\ spoiled' = (spoiled \/ Outdated(r)) /\ End(s)
  <2>1. /\ req'[s].pc = "idle" /\ \A z \in Slots \ {s} : req'[z] = req[z]
        /\ lock' = Unlocked(s)
    BY <1>3 DEF End, NoRequest, Typed, TypeOK
  <2>2. \A z \in Busy' : z \in Busy /\ z # s /\ req'[z] = req[z]
    BY <2>1 DEF Busy
  <2>3. \A z \in Busy' : Named(req[z])'
    BY <2>2 DEF Solid, Named
  <2>4. \A z \in Slots : ~Holding(req'[z])
    <3> SUFFICES ASSUME NEW z \in Slots, Holding(req'[z]) PROVE FALSE
      OBVIOUS
    <3>1. z # s BY <2>1 DEF Holding
    <3>2. Holding(req[z]) BY <2>1, <3>1
    <3>3. lock = z BY <3>2 DEF Solid
    <3> QED BY <1>1, <3>1, <3>3, MembershipAssumption
  <2>5. \A z \in Busy' : Arranged(req[z])'
    <3> SUFFICES ASSUME NEW z \in Busy' PROVE Arranged(req[z])'
      OBVIOUS
    <3>1. z \in Slots BY DEF Busy
    <3>2. CASE req'[z].pc # "commit" BY <3>2 DEF Arranged
    <3>3. CASE req'[z].kind \in {"reject", "dissolve"}
      BY <3>3 DEF Arranged, Adding, Unbridged
    <3> QED BY <2>4, <3>1, <3>2, <3>3 DEF Holding
  <2>6. \A z \in Slots : req'[z].pc = "cleanup" => ~open'
    BY <1>3, <2>1 DEF Solid
  <2>7. ASSUME ~spoiled' PROVE RowsOk' /\ KeptOk'
    <3>1. ~spoiled /\ ~Outdated(r) /\ RowsOk /\ Kept(r) /\ Named(r)
      BY <1>1, <1>3, <2>7 DEF Solid, KeptOk
    <3>2. KeptOk'
      <4> SUFFICES ASSUME NEW z \in Busy', req'[z].pc # "cleanup"
                   PROVE  Kept(req[z])'
        BY DEF KeptOk
      <4>1. Kept(req[z]) BY <2>2, <3>1 DEF Solid, KeptOk
      <4> QED BY <2>2, <4>1 DEF Kept
    <3>3. Fresh(r) BY <3>1, KeptFresh
    <3>4. CASE r.kind = "dissolve"
      <4>1. /\ row' = [u \in Users |-> IF u \in r.expected THEN NoRow ELSE row[u]]
            /\ ~open'
        BY <1>3, <3>4 DEF Written
      <4>2. \A u \in Users : row'[u].active => row[u] = row'[u]
        BY <4>1 DEF NoRow
      <4>3. \A u \in Users : row'[u].active => row'[u].approval = "APPROVED"
        BY <3>1, <4>2 DEF RowsOk
      <4> QED BY <3>2, <4>1, <4>3 DEF RowsOk
    <3>5. CASE r.kind \in Adding \cup {"role", "remove"} /\ open
      <4>1. /\ \A u \in Users : Written(r)[u].active =>
                                    Written(r)[u].approval = "APPROVED"
            /\ \E o \in Users : Owners(Written(r)) = {o}
        BY <3>1, <3>3, <3>5, CommitRows
      <4> QED BY <1>3, <3>2, <4>1 DEF RowsOk, Owners, Members
    <3>6. CASE r.kind \in Adding \cup {"role", "remove"} /\ ~open
      <4>1. \A u \in Users : Written(r)[u].active =>
                                 Written(r)[u].approval = "APPROVED"
        BY <3>1, <3>3, <3>6, ActiveRows
      <4> QED BY <1>3, <3>2, <3>6, <4>1 DEF RowsOk
    <3>7. r.kind \in Adding \cup {"role", "remove", "dissolve"}
      BY <1>1 DEF StepsOf
    <3> QED BY <3>2, <3>4, <3>5, <3>6, <3>7
  <2> QED BY <2>3, <2>4, <2>5, <2>6, <2>7 DEF Solid
<1> QED BY <1>2, <1>3 DEF Commit

\* The last step after a closing: the topic is removed, or it is not.
LEMMA CleanUpSolid ==
    ASSUME Typed, Solid, NEW s \in Slots, CleanUp(s)
    PROVE  Solid'
<1>1. /\ req[s].pc = "cleanup" /\ row' = row /\ open' = open
      /\ spoiled' = spoiled /\ lock' = Unlocked(s) /\ ~open
  BY DEF CleanUp, End, history, Solid
<1>2. /\ req'[s].pc = "idle" /\ \A z \in Slots \ {s} : req'[z] = req[z]
  BY DEF CleanUp, End, NoRequest, Typed, TypeOK
<1>3. \A z \in Busy' : z \in Busy /\ z # s /\ req'[z] = req[z]
  BY <1>2 DEF Busy
<1>4. \A z \in Busy' : Named(req[z])'
  BY <1>3 DEF Solid, Named
<1>5. ~spoiled' => RowsOk' /\ KeptOk'
  <2>1. ~spoiled' => RowsOk' BY <1>1 DEF Solid, RowsOk
  <2>2. ASSUME ~spoiled', NEW z \in Busy', req'[z].pc # "cleanup"
        PROVE  Kept(req[z])'
    <3>1. Kept(req[z]) BY <1>1, <1>3, <2>2 DEF Solid, KeptOk
    <3> QED BY <1>3, <3>1 DEF Kept
  <2> QED BY <2>1, <2>2 DEF KeptOk
<1>6. \A z \in Slots : (Holding(req[z]) => lock = z)'
  <2> SUFFICES ASSUME NEW z \in Slots, Holding(req'[z]) PROVE lock' = z
    BY DEF Holding
  <2>1. z # s BY <1>2 DEF Holding
  <2>2. Holding(req[z]) BY <1>2, <2>1
  <2>3. lock = z BY <2>2 DEF Solid
  <2> QED BY <1>1, <2>1, <2>3 DEF Unlocked
<1> QED BY <1>1, <1>4, <1>5, <1>6 DEF Solid

\* A request that starts, or the departure of the last member.
LEMMA OpenSolid ==
    ASSUME Typed, Solid, NEW s \in Slots, NEW x, Open(s, x),
           x.pc \in {"prepare", "commit", "cleanup"},
           x.pc = "commit" => x.kind = "reject",
           Named(x), x.pc # "cleanup" /\ ~spoiled => Kept(x),
           \/ row' = row /\ open' = open /\ x.pc # "cleanup"
           \/ ~open' /\ row' = [u \in Users |-> NoRow]
    PROVE  Solid'
<1>1. /\ req'[s] = x /\ \A z \in Slots \ {s} : req'[z] = req[z]
      /\ open /\ sub' = sub /\ lock' = lock /\ spoiled' = spoiled
      /\ disturbed' = disturbed
  BY DEF Open, Typed, TypeOK
<1>2. \A z \in Busy' : z = s \/ (z \in Busy /\ z # s /\ req'[z] = req[z])
  BY <1>1 DEF Busy
<1>3. \A z \in Busy' : Named(req[z])'
  BY <1>1, <1>2 DEF Solid, Named
<1>4. ASSUME ~spoiled' PROVE RowsOk'
  <2>1. RowsOk BY <1>1, <1>4 DEF Solid
  <2>2. CASE row' = row /\ open' = open
    BY <2>1, <2>2 DEF RowsOk, Owners, Members
  <2>3. CASE ~open' /\ row' = [u \in Users |-> NoRow]
    BY <2>3 DEF RowsOk, NoRow
  <2> QED BY <2>2, <2>3
<1>5. ASSUME ~spoiled', NEW z \in Busy', req'[z].pc # "cleanup"
      PROVE  Kept(req[z])'
  <2>1. CASE z = s BY <1>1, <1>5, <2>1 DEF Kept
  <2>2. CASE z # s
    <3>1. Kept(req[z]) BY <1>1, <1>2, <1>5, <2>2 DEF Solid, KeptOk
    <3> QED BY <1>2, <2>2, <3>1 DEF Kept
  <2> QED BY <2>1, <2>2
<1>6. ~Holding(x) BY DEF Holding
<1>7. \A z \in Slots : (Holding(req[z]) => lock = z)'
  <2> SUFFICES ASSUME NEW z \in Slots, Holding(req'[z]) PROVE lock' = z
    BY DEF Holding
  <2>1. z # s BY <1>1, <1>6
  <2>2. Holding(req[z]) BY <1>1, <2>1
  <2> QED BY <1>1, <2>2 DEF Solid
<1>8. \A z \in Slots : (req[z].pc = "cleanup" => ~open)'
  BY <1>1 DEF Solid
<1>9. ASSUME open', ~disturbed', NEW z \in Busy' PROVE Arranged(req[z])'
  <2>1. row' = row BY <1>9
  <2>2. CASE z = s BY <1>1, <2>2 DEF Arranged, Unbridged, Adding
  <2>3. CASE z # s
    <3>1. Arranged(req[z]) /\ req'[z] = req[z]
      BY <1>1, <1>2, <1>9, <2>3 DEF Solid
    <3> QED BY <1>1, <2>1, <3>1 DEF Arranged, Unbridged
  <2> QED BY <2>2, <2>3
<1> QED BY <1>3, <1>4, <1>5, <1>7, <1>8, <1>9 DEF Solid, KeptOk

\* What a request asks for.
LEMMA AskedFields ==
    ASSUME Typed, NEW kind, NEW a, NEW t \in Users
    PROVE  LET x == Asked(kind, a, t) IN
           /\ x.kind = kind /\ x.pc = "prepare" /\ x.target = t
           /\ x.seen = row[t] /\ x.pending = FALSE /\ x.heir = None
           /\ x.wants = "MEMBER" /\ x.accepted = FALSE /\ x.created = FALSE
BY DEF Asked, NoRequest

LEMMA BeginSolid ==
    ASSUME Typed, Solid, NEW s \in Slots, Begin(s)
    PROVE  Solid'
<1>1. None \notin Users BY MembershipAssumption
<1>2. \A u \in Users : row[u].active /\ ~spoiled => row[u].approval = "APPROVED"
  BY DEF Solid, RowsOk
<1>3. ASSUME NEW a \in Users, NEW t \in Users, BeginAdd(s, a, t) PROVE Solid'
  <2> DEFINE x == [Asked("add", a, t) EXCEPT
                   !.pending = ApproveMembers /\ ~IsManager(a) /\ ~row[t].active]
  <2>1. Start(s, x) BY <1>3 DEF BeginAdd
  <2>2. /\ x.kind = "add" /\ x.pc = "prepare" /\ x.target = t
        /\ x.seen = row[t] /\ (x.pending => ~row[t].active) /\ x.heir = None
    BY DEF Asked, NoRequest
  <2> HIDE DEF x
  <2>3. Named(x) /\ Kept(x) BY <1>1, <2>2 DEF Named, Kept
  <2> QED BY <2>1, <2>2, <2>3, OpenSolid DEF Start
<1>4. ASSUME NEW a \in Users, NEW t \in Users, BeginApprove(s, a, t) PROVE Solid'
  <2> DEFINE x == Asked("approve", a, t)
  <2>1. Start(s, x) /\ row[t].approval = "PENDING" BY <1>4 DEF BeginApprove
  <2>2. /\ x.kind = "approve" /\ x.pc = "prepare" /\ x.target = t
        /\ x.seen = row[t] /\ x.pending = FALSE /\ x.heir = None
    BY DEF Asked, NoRequest
  <2> HIDE DEF x
  <2>3. Named(x) /\ (~spoiled => Kept(x)) BY <1>1, <1>2, <2>1, <2>2 DEF Named, Kept
  <2> QED BY <2>1, <2>2, <2>3, OpenSolid DEF Start
<1>5. ASSUME NEW a \in Users, NEW t \in Users, BeginReject(s, a, t) PROVE Solid'
  <2> DEFINE x == [Asked("reject", a, t) EXCEPT !.pc = "commit"]
  <2>1. Start(s, x) /\ row[t].approval = "PENDING" BY <1>5 DEF BeginReject
  <2>2. /\ x.kind = "reject" /\ x.pc = "commit" /\ x.target = t
        /\ x.seen = row[t] /\ x.pending = FALSE /\ x.heir = None
    BY DEF Asked, NoRequest
  <2> HIDE DEF x
  <2>3. Named(x) /\ (~spoiled => Kept(x)) BY <1>1, <1>2, <2>1, <2>2 DEF Named, Kept
  <2> QED BY <2>1, <2>2, <2>3, OpenSolid DEF Start
<1>6. ASSUME NEW a \in Users, NEW t \in Users, NEW role \in {"ADMIN", "MEMBER"},
             BeginRole(s, a, t, role)
      PROVE  Solid'
  <2> DEFINE x == [Asked("role", a, t) EXCEPT !.wants = role]
  <2>1. /\ Start(s, x) /\ t \in Members(row) /\ row[t].role # "OWNER"
    BY <1>6 DEF BeginRole
  <2>2. /\ x.kind = "role" /\ x.pc = "prepare" /\ x.target = t
        /\ x.seen = row[t] /\ x.pending = FALSE /\ x.heir = None
        /\ x.wants = role
    BY DEF Asked, NoRequest
  <2> HIDE DEF x
  <2>3. Named(x) /\ Kept(x) BY <1>1, <2>1, <2>2 DEF Named, Kept, Members
  <2> QED BY <2>1, <2>2, <2>3, OpenSolid DEF Start
<1>7. ASSUME NEW a \in Users, NEW t \in Users, BeginRemove(s, a, t) PROVE Solid'
  <2>1. PICK w \in Members(row) \ {t} :
           Start(s, [Asked("remove", a, t) EXCEPT
                    !.heir = IF row[t].role = "OWNER" THEN w ELSE None,
                    !.witness = IF a = t THEN w ELSE None])
    BY <1>7 DEF BeginRemove
  <2> DEFINE x == [Asked("remove", a, t) EXCEPT
                    !.heir = IF row[t].role = "OWNER" THEN w ELSE None,
                    !.witness = IF a = t THEN w ELSE None]
  <2>2. /\ x.kind = "remove" /\ x.pc = "prepare" /\ x.target = t
        /\ x.seen = row[t] /\ x.pending = FALSE
        /\ x.heir = IF row[t].role = "OWNER" THEN w ELSE None
    BY DEF Asked, NoRequest
  <2> HIDE DEF x
  <2>3. t \in Members(row) /\ w \in Users /\ w # t
    BY <1>7 DEF BeginRemove, Members
  <2>4. Named(x) /\ Kept(x) BY <1>1, <2>2, <2>3 DEF Named, Kept, Members
  <2> QED BY <2>1, <2>2, <2>4, OpenSolid DEF Start, x
<1>8. ASSUME NEW a \in Users, CloseLast(s, a) PROVE Solid'
  <2> DEFINE x == [Asked("remove", a, a) EXCEPT !.pc = "cleanup"]
  <2>1. /\ Open(s, x) /\ ~open' /\ row' = [u \in Users |-> NoRow]
    BY <1>8 DEF CloseLast
  <2>2. x.pc = "cleanup" /\ x.target = a /\ x.heir = None
    BY DEF Asked, NoRequest
  <2> HIDE DEF x
  <2>3. Named(x) BY <1>1, <2>2 DEF Named
  <2> QED BY <2>1, <2>2, <2>3, OpenSolid
<1>9. ASSUME NEW a \in Users, BeginDissolve(s, a) PROVE Solid'
  <2> DEFINE x == Asked("dissolve", a, a)
  <2>1. Start(s, x) BY <1>9 DEF BeginDissolve
  <2>2. /\ x.kind = "dissolve" /\ x.pc = "prepare" /\ x.target = a
        /\ x.pending = FALSE /\ x.heir = None
    BY DEF Asked, NoRequest
  <2> HIDE DEF x
  <2>3. Named(x) /\ Kept(x) BY <1>1, <2>2 DEF Named, Kept
  <2> QED BY <2>1, <2>2, <2>3, OpenSolid DEF Start
<1> QED BY <1>3, <1>4, <1>5, <1>6, <1>7, <1>8, <1>9 DEF Begin

\* At the start the group has its owner, and nobody asks for anything.
LEMMA InitSolid == Init => Solid
<1> SUFFICES ASSUME Init PROVE Solid OBVIOUS
<1>1. Busy = {} /\ \A s \in Slots : req[s].pc = "idle"
  BY DEF Init, Busy, NoRequest
<1>2. \A u \in Users :
         /\ row[u] \in {NoRow, Joined("MEMBER"), Joined("ADMIN"), Joined("OWNER")}
         /\ row[u].role = "OWNER" <=> u = Owner
  BY DEF Init
<1>3. \A u \in Users : row[u].active => row[u].approval = "APPROVED"
  BY <1>2 DEF NoRow, Joined
<1>4. \A u \in Users : row[u].role = "OWNER" => u \in Members(row)
  BY <1>2 DEF NoRow, Joined, Members
<1>5. \A u \in Users : u \in Owners(row) <=> u = Owner
  BY <1>2, <1>4 DEF Owners
<1>6. Owner \in Users /\ Owners(row) \subseteq Users
  BY MembershipAssumption DEF Owners, Members
<1>7. Owners(row) = {Owner} BY <1>5, <1>6
<1> QED BY <1>1, <1>3, <1>6, <1>7 DEF Solid, RowsOk, KeptOk, Holding

\* Every step keeps what the requests rely on.
LEMMA StepSolid == Typed /\ Solid /\ [Next]_vars => Solid'
<1> SUFFICES ASSUME Typed, Solid, [Next]_vars PROVE Solid'
  OBVIOUS
<1>1. CASE UNCHANGED vars
  BY <1>1 DEF vars, Solid, Busy, Named, RowsOk, KeptOk, Kept, Holding, Arranged,
              Owners, Members, Unbridged
<1> QED BY <1>1, BeginSolid, PrepareSolid, ChangeSolid, ReconcileSolid,
           CommitSolid, CleanUpSolid, UndoingSolid DEF Next, Step

THEOREM AlwaysSolid == Spec => [](Typed /\ Solid)
<1>1. Init => Typed /\ Solid BY InitTyped, InitSolid
<1>2. Typed /\ Solid /\ [Next]_vars => (Typed /\ Solid)'
  BY StepTyped, StepSolid
<1> QED BY <1>1, <1>2, PTL DEF Spec

\* The group has one owner whatever requests overlap, as long as every commit
\* finds the rows it changes as its request had read them.
THEOREM AlwaysOneOwner == Spec => []OneOwner
<1>1. Solid => OneOwner
  <2> SUFFICES ASSUME Solid, open, ~spoiled
               PROVE  Cardinality(Owners(row)) = 1
    BY DEF OneOwner
  <2>1. PICK o \in Users : Owners(row) = {o} BY DEF Solid, RowsOk
  <2> QED BY <2>1, FS_Singleton
<1> QED BY <1>1, AlwaysSolid, PTL

\* What a step commits is in the topic already.
LEMMA CommitFollows ==
    ASSUME Typed, Solid, Next, open', ~spoiled', ~disturbed, NEW u \in Users
    PROVE  /\ u \in Members(row') \ Members(row) => "S" \in sub[u]
           /\ u \in Members(row) \ Members(row') => sub[u] = {}
           /\ u \in Members(row) \cap Members(row') /\ row'[u].role # row[u].role
                 => ModeOf(row'[u].role) \subseteq sub[u]
<1>1. CASE row' = row BY <1>1
<1>2. ASSUME NEW s \in Slots, Commit(s), row' # row
      PROVE  /\ u \in Members(row') \ Members(row) => "S" \in sub[u]
             /\ u \in Members(row) \ Members(row') => sub[u] = {}
             /\ u \in Members(row) \cap Members(row') /\ row'[u].role # row[u].role
                   => ModeOf(row'[u].role) \subseteq sub[u]
  <2> DEFINE r == req[s]
             t == req[s].target
  <2>1. /\ r.pc = "commit" /\ row' = Written(r) /\ open
        /\ r.kind # "dissolve" /\ ~spoiled /\ ~Outdated(r) /\ s \in Busy
    BY <1>2 DEF Commit, Typed, TypeOK, Busy
  <2>2. /\ r.pc \in StepsOf(r.kind) /\ Named(r) /\ Kept(r) /\ RowsOk
        /\ Arranged(r) /\ \E o \in Users : Owners(row) = {o}
    BY <2>1 DEF Typed, StepsOk, Sensible, Solid, KeptOk, RowsOk
  <2>3. Fresh(r) BY <2>1, <2>2, KeptFresh
  <2>4. r.kind \in Adding \cup {"role", "remove"}
    BY <2>1, <2>2 DEF StepsOf
  <2>5. CASE r.kind \in Adding
    <3>1. /\ t \notin Members(row)
          /\ \A v \in Users \ {t} : row'[v] = row[v]
          /\ row'[t].active <=> ~Unbridged(r)
      BY <1>2, <2>1, <2>2, <2>3, <2>5, AddRows
    <3>2. u # t => (u \in Members(row') <=> u \in Members(row))
      BY <3>1 DEF Members
    <3>3. t \in Members(row') => "S" \in sub[t]
      BY <2>1, <2>2, <2>5, <3>1 DEF Members, Arranged
    <3> QED BY <3>1, <3>2, <3>3
  <2>6. CASE r.kind = "role"
    <3>1. /\ Members(row') = Members(row) /\ row'[t].role = r.wants
          /\ \A v \in Users : v # t => row'[v] = row[v]
      BY <2>1, <2>2, <2>3, <2>6, RoleRows
    <3>2. ModeOf(r.wants) \subseteq sub[t]
      BY <2>1, <2>2, <2>6 DEF Arranged
    <3> QED BY <3>1, <3>2
  <2>7. CASE r.kind = "remove"
    <3>1. PICK o \in Users : Owners(row) = {o} BY <2>2
    <3>2. /\ \A v \in Users : v \in Members(row') <=> v \in Members(row) /\ v # t
          /\ \A v \in Users \ {r.heir} : row'[v].role = row[v].role
          /\ \A v \in Users : v \in Owners(row') <=>
                                 v = (IF r.heir = None THEN o ELSE r.heir)
      BY <2>1, <2>2, <2>3, <2>7, <3>1, RemoveRows
    <3>3. /\ sub[t] = {}
          /\ r.heir \in Members(row) => ModeOf("OWNER") \subseteq sub[r.heir]
      BY <2>1, <2>2, <2>7 DEF Arranged
    <3>4. ASSUME u \in Members(row), u \in Members(row'),
                 row'[u].role # row[u].role
          PROVE  ModeOf(row'[u].role) \subseteq sub[u]
      <4>1. u = r.heir BY <3>2, <3>4
      <4>2. u # None BY MembershipAssumption
      <4>3. u \in Owners(row') BY <3>2, <4>1, <4>2
      <4>4. row'[u].role = "OWNER" BY <4>3 DEF Owners
      <4> QED BY <3>3, <3>4, <4>1, <4>4
    <3> QED BY <3>2, <3>3, <3>4
  <2> QED BY <2>4, <2>5, <2>6, <2>7
<1>3. ASSUME NEW s \in Slots, Step(s), ~Commit(s) PROVE row' = row
  BY <1>3 DEF Step, Prepare, Write, AddSubscriber, Reconcile, OfferTopic,
              AcceptTopic, RemoveSubscriber, DissolveTopic, CleanUp, Call,
              UndoAdd, UndoRole, UndoGrant, UndoAccept, UndoMode, UndoRemove, Undo
<1>4. ASSUME NEW s \in Slots, Begin(s) PROVE row' = row
  <2>1. \A x : Start(s, x) => row' = row BY DEF Start
  <2>2. \A a \in Users : ~CloseLast(s, a) BY DEF CloseLast
  <2> QED BY <1>4, <2>1, <2>2 DEF Begin, BeginAdd, BeginApprove, BeginReject,
                                BeginRole, BeginRemove, BeginDissolve
<1> QED BY <1>1, <1>2, <1>3, <1>4 DEF Next

\* The check before each commit (tinode_reconcile_topic_members) suffices: who
\* joins, leaves or gets a role has its access in Tinode when the rows say so,
\* whatever requests overlap, unless a commit was outdated or somebody changed
\* the topic behind the back of the one that holds the lock.
THEOREM CommitsAlwaysFollow == Spec => CommitsFollowTinode
<1>1. Typed /\ Solid /\ [Next]_vars =>
         [open' /\ ~spoiled' /\ ~disturbed =>
            \A u \in Users :
               /\ u \in Members(row') \ Members(row) => "S" \in sub[u]
               /\ u \in Members(row) \ Members(row') => sub[u] = {}
               /\ u \in Members(row) \cap Members(row')
                  /\ row'[u].role # row[u].role
                     => ModeOf(row'[u].role) \subseteq sub[u]]_vars
  BY CommitFollows
<1> QED BY <1>1, AlwaysSolid, PTL DEF Spec, CommitsFollowTinode
=============================================================================
