---------------------------- MODULE GroupMembership ----------------------------
(***************************************************************************)
(* Members and roles of a group that is bound to a Tinode topic.           *)
(*                                                                         *)
(* The participant rows of Chatmgt decide; the subscriptions of the topic  *)
(* follow.  A handler reads the rows, awaits credentials, writes its rows  *)
(* without committing, changes Tinode call by call, and commits.  When a   *)
(* call fails it rolls the rows back and undoes its Tinode calls one by    *)
(* one, which may fail as well.  Writing also touches the conversation     *)
(* row, so from its first write to its end a handler holds that row lock.  *)
(***************************************************************************)
EXTENDS Naturals, FiniteSets

CONSTANTS
    Users,           \* accounts of the tenant
    Owner,           \* the owner of the group at the start
    Slots,           \* requests in progress at the same time
    ApproveMembers,  \* the group setting of that name
    Faults,          \* a Tinode call may "reject" or be "lost", a "commit" fail
    MaxFaults,       \* bound: failures in one behaviour
    MaxRequests,     \* bound: requests in one behaviour
    None             \* nobody, no request

Kinds == {"add", "approve", "reject", "role", "remove", "dissolve"}

ASSUME MembershipAssumption ==
    /\ Owner \in Users
    /\ ApproveMembers \in BOOLEAN
    /\ Faults \subseteq {"reject", "lost", "commit"}
    /\ MaxFaults \in Nat /\ MaxRequests \in Nat
    /\ None \notin Users \cup Slots

VARIABLES
    row,     \* row[u]: the conversation_participant row of u
    open,    \* the conversation is not closed
    sub,     \* sub[u]: what u may do in the Tinode topic
    lock,    \* the request that holds the conversation's row lock
    req,     \* req[s]: the request in slot s
    astray,  \* history: a call took effect unconfirmed or an undo failed,
             \* and no later request has brought the whole topic into line
    crossed, \* history: requests overlapped that are not all additions
    spoiled, \* history: a commit wrote rows it had not read like that
    disturbed, \* history: a call changed what a lock holder relied on
    faults,  \* failures so far
    sent     \* requests sent so far

history == <<crossed, spoiled, disturbed>>

vars == <<row, open, sub, lock, req, astray, crossed, spoiled, disturbed,
          faults, sent>>

-----------------------------------------------------------------------------
(* Data *)

Roles == {"OWNER", "ADMIN", "MEMBER"}

\* approval "none": there is no row, or only a deleted one.
Row == [active : BOOLEAN, approval : {"none", "PENDING", "APPROVED"},
        role : Roles]

NoRow == [active |-> FALSE, approval |-> "none", role |-> "MEMBER"]

Members(rows) == {u \in Users : rows[u].active /\ rows[u].approval = "APPROVED"}

Owners(rows) == {u \in Members(rows) : rows[u].role = "OWNER"}

IsManager(u) == row[u].role \in {"OWNER", "ADMIN"}

\* Effective access: S for JRWPAS, D and O for the letters of that name.
Access == SUBSET {"S", "D", "O"}

Subscribers == {u \in Users : sub[u] # {}}

ModeOf(role) == {"S"} \cup (IF role = "OWNER" THEN {"O"}
                            ELSE IF role = "ADMIN" THEN {"D"} ELSE {})

Steps == {"idle", "prepare", "write", "add", "reconcile", "offer", "accept",
          "removeSub", "dissolve", "commit", "undoAdd", "undoRole",
          "undoGrant", "undoAccept", "undoMode", "undoRemove", "cleanup"}

Someone == Users \cup {None}

\* wants: the role asked for.  heir: the new owner when the owner leaves.
\* witness: the survivor whose credentials check a member's own departure.
\* seen: the target's row as loaded.  op: the owner's bridge credentials.
\* known, expected: subscribers and members before anything was written.
Request == [kind : Kinds, pc : Steps, actor : Someone, target : Someone,
            wants : Roles, heir : Someone, witness : Someone, seen : Row,
            pending : BOOLEAN, op : Someone, known : SUBSET Users,
            expected : SUBSET Users, created : BOOLEAN, accepted : BOOLEAN,
            removed : BOOLEAN]

NoRequest == [kind |-> "add", pc |-> "idle", actor |-> None, target |-> None,
              wants |-> "MEMBER", heir |-> None, witness |-> None,
              seen |-> NoRow, pending |-> FALSE, op |-> None, known |-> {},
              expected |-> {}, created |-> FALSE, accepted |-> FALSE,
              removed |-> FALSE]

TypeOK ==
    /\ row \in [Users -> Row]
    /\ open \in BOOLEAN
    /\ sub \in [Users -> Access]
    /\ lock \in Slots \cup {None}
    /\ req \in [Slots -> Request]
    /\ astray \in BOOLEAN /\ crossed \in BOOLEAN /\ spoiled \in BOOLEAN
    /\ disturbed \in BOOLEAN
    /\ faults \in 0..MaxFaults
    /\ sent \in 0..MaxRequests

Joined(role) == [active |-> TRUE, approval |-> "APPROVED", role |-> role]

Init ==
    /\ row \in [Users -> {NoRow, Joined("MEMBER"), Joined("ADMIN"),
                          Joined("OWNER")}]
    /\ \A u \in Users : row[u].role = "OWNER" <=> u = Owner
    /\ open = TRUE
    /\ sub = [u \in Users |-> IF row[u].active THEN ModeOf(row[u].role) ELSE {}]
    /\ lock = None
    /\ req = [s \in Slots |-> NoRequest]
    /\ astray = FALSE /\ crossed = FALSE /\ spoiled = FALSE /\ disturbed = FALSE
    /\ faults = 0
    /\ sent = 0

-----------------------------------------------------------------------------
(* How a request starts: what it refuses, and what it reads. *)

Busy == {s \in Slots : req[s].pc # "idle"}

\* Requests that may overlap without getting into each other's way, as long
\* as they are about different accounts.
Adding == {"add", "approve", "reject"}

Crosses(r) ==
    \E s \in Busy : ~({r.kind, req[s].kind} \subseteq Adding
                       /\ req[s].target # r.target)

Open(s, r) ==
    /\ open /\ sent < MaxRequests
    /\ req[s].pc = "idle"
    /\ r.actor \in Members(row)
    /\ req' = [req EXCEPT ![s] = r]
    /\ crossed' = (crossed \/ Crosses(r))
    /\ sent' = sent + 1
    /\ UNCHANGED <<sub, lock, astray, spoiled, disturbed, faults>>

Start(s, r) == Open(s, r) /\ UNCHANGED <<row, open>>

Asked(kind, a, t) ==
    [NoRequest EXCEPT !.kind = kind, !.pc = "prepare", !.actor = a,
                      !.target = t, !.seen = row[t]]

\* An ordinary member's addition waits for approval if the group says so.
BeginAdd(s, a, t) ==
    /\ t # a
    /\ Start(s, [Asked("add", a, t) EXCEPT
                 !.pending = ApproveMembers /\ ~IsManager(a) /\ ~row[t].active])

BeginApprove(s, a, t) ==
    /\ IsManager(a) /\ row[t].approval = "PENDING"
    /\ Start(s, Asked("approve", a, t))

\* A rejection calls nobody: it soft-deletes the row and commits.
BeginReject(s, a, t) ==
    /\ IsManager(a) /\ row[t].approval = "PENDING"
    /\ Start(s, [Asked("reject", a, t) EXCEPT !.pc = "commit"])

BeginRole(s, a, t, role) ==
    /\ IsManager(a) /\ t # a /\ t \in Members(row)
    /\ row[t].role \notin {"OWNER", role}
    /\ Start(s, [Asked("role", a, t) EXCEPT !.wants = role])

BeginRemove(s, a, t) ==
    /\ a = t \/ IsManager(a)
    /\ t \in Members(row) /\ Members(row) # {t}
    /\ row[t].role = "OWNER" => a = t
    /\ \E w \in Members(row) \ {t} :
          Start(s, [Asked("remove", a, t) EXCEPT
                    !.heir = IF row[t].role = "OWNER" THEN w ELSE None,
                    !.witness = IF a = t THEN w ELSE None])

\* The last member leaves: everything is closed in one commit, and Tinode is
\* cleaned up afterwards.
CloseLast(s, a) ==
    /\ Members(row) = {a}
    /\ lock = None
    /\ Open(s, [Asked("remove", a, a) EXCEPT !.pc = "cleanup"])
    /\ row' = [u \in Users |-> NoRow]
    /\ open' = FALSE

BeginDissolve(s, a) ==
    /\ a \in Owners(row)
    /\ Start(s, Asked("dissolve", a, a))

-----------------------------------------------------------------------------
(* What a request writes.  Its own transaction sees it at once, everybody  *)
(* else after the commit.                                                  *)

\* Mutated form: the columns that are not named are lost
UpdateOnly(now, old, new) == [c \in {k \in DOMAIN now : new[k] # old[k]} |-> new[c]]

\* An UPDATE names the columns the handler changed from what it loaded.
Update(now, old, new) == [c \in DOMAIN now |-> IF new[c] = old[c] THEN now[c]
                                                                  ELSE new[c]]

\* Mutated form: the replacement is not promoted
PromotedNever(rows, r) == rows

Promoted(rows, r) == [u \in Users |-> IF u = r.heir
                                      THEN [rows[u] EXCEPT !.role = "OWNER"]
                                      ELSE rows[u]]

Written(r) ==
    CASE r.kind \in {"add", "approve"} ->
            [row EXCEPT ![r.target] = Update(@, r.seen,
                 IF r.pending THEN [NoRow EXCEPT !.approval = "PENDING"]
                 ELSE Joined("MEMBER"))]
      [] r.kind = "reject" ->
            [row EXCEPT ![r.target] = Update(@, r.seen,
                 [r.seen EXCEPT !.active = FALSE, !.approval = "none"])]
      [] r.kind = "role"     -> [row EXCEPT ![r.target].role = r.wants]
      [] r.kind = "remove"   ->
            Promoted([row EXCEPT ![r.target].active = FALSE], r)
      [] r.kind = "dissolve" ->
            [u \in Users |-> IF u \in r.expected THEN NoRow ELSE row[u]]

\* A commit does not look again at what its request had read: the row it
\* changes may be another one by now, the replacement gone, and an addition
\* of somebody who is in the group makes that one a plain member.
Outdated(r) ==
    \/ row[r.target] # r.seen
    \/ r.heir # None /\ r.heir \notin Members(row)
    \/ r.kind = "add" /\ r.seen.active /\ r.seen.role # "MEMBER"

-----------------------------------------------------------------------------
(* Steps of a handler *)

Goto(s, pc) == req' = [req EXCEPT ![s].pc = pc]

\* The end of the session releases the row lock.
Unlocked(s) == IF lock = s THEN None ELSE lock

End(s) ==
    /\ req' = [req EXCEPT ![s] = NoRequest]
    /\ lock' = Unlocked(s)

\* Mutated form: an addition is undone by the rollback of its row alone
FirstUndoKeepsAdded(r) ==
    CASE r.kind = "role"                            -> "undoRole"
      [] r.kind = "remove" /\ r.heir # None         ->
            IF r.accepted THEN "undoGrant" ELSE "undoMode"
      [] r.kind = "remove" /\ r.heir = None /\ r.removed -> "undoRemove"
      [] OTHER                                      -> "idle"

\* What has to be undone in Tinode when the rows have been rolled back.
FirstUndo(r) ==
    CASE r.kind \in {"add", "approve"} /\ r.created -> "undoAdd"
      [] r.kind = "role"                            -> "undoRole"
      [] r.kind = "remove" /\ r.heir # None         ->
            IF r.accepted THEN "undoGrant" ELSE "undoMode"
      [] r.kind = "remove" /\ r.heir = None /\ r.removed -> "undoRemove"
      [] OTHER                                      -> "idle"

Fail(s) ==
    /\ LET undo == FirstUndo(req[s]) IN
       req' = [req EXCEPT ![s] = IF undo = "idle" THEN NoRequest
                                 ELSE [@ EXCEPT !.pc = undo]]
    /\ lock' = Unlocked(s)

\* Nobody is activated: the owner's credentials are not asked for.
Unbridged(r) == \/ r.pending \/ r.kind = "reject"
                \/ r.kind = "add" /\ r.seen.active

\* The identity, the credentials of the group's owner and the state before.
Prepare(s) ==
    LET r == req[s] IN
    /\ r.pc = "prepare"
    /\ \/ \E o \in Owners(row) :
             /\ ~Unbridged(r) /\ sub[o] # {}
             /\ req' = [req EXCEPT
                        ![s].op = o, ![s].known = Subscribers,
                        ![s].expected = Members(row),
                        ![s].pc = IF r.kind = "dissolve" THEN "dissolve"
                                  ELSE "write"]
             /\ UNCHANGED <<lock, faults>>
       \/ /\ Unbridged(r)
          /\ Goto(s, "write")
          /\ UNCHANGED <<lock, faults>>
       \/ /\ faults < MaxFaults /\ "reject" \in Faults
          /\ faults' = faults + 1
          /\ End(s)
       \/ /\ ~Unbridged(r) /\ \A o \in Owners(row) : sub[o] = {}
          /\ End(s)
          /\ UNCHANGED faults
    /\ UNCHANGED <<row, open, sub, astray, history, sent>>

\* flush(): the UPDATE waits for the row lock of the conversation.
Write(s) ==
    LET r == req[s] IN
    /\ r.pc = "write" /\ lock = None
    /\ lock' = s
    /\ Goto(s, CASE Unbridged(r) -> "commit"
                 [] ~Unbridged(r) /\ r.kind \in {"add", "approve"} -> "add"
                 [] r.kind = "role" -> "reconcile"
                 [] r.kind = "remove" ->
                       IF r.heir # None THEN "offer" ELSE "removeSub")
    /\ UNCHANGED <<row, open, sub, astray, history, faults, sent>>

\* Tinode calls are made without the row lock as well, by undoings and by a
\* dissolution: one of them may change what the lock holder just arranged.
Watched == IF lock = None THEN {} ELSE {req[lock].target, req[lock].heir}

Touching(s) ==
    /\ disturbed' = (disturbed \/ (/\ lock # s
                                  /\ \E u \in Watched \cap Users :
                                        sub'[u] # sub[u]))
    /\ UNCHANGED <<crossed, spoiled>>

\* A Tinode call that would bring the topic to sub2: it is carried out, or
\* refused half-way (partial says how far), or carried out unconfirmed.
Call(s, sub2, possible, partial, next) ==
    /\ \/ possible /\ sub' = sub2 /\ req' = [req EXCEPT ![s] = next]
          /\ UNCHANGED <<lock, astray, faults>>
       \/ ~possible /\ Fail(s) /\ UNCHANGED <<sub, astray, faults>>
       \/ /\ possible /\ faults < MaxFaults /\ faults' = faults + 1
          /\ \/ "reject" \in Faults /\ sub' \in partial /\ UNCHANGED astray
             \/ "lost" \in Faults /\ sub' = sub2 /\ astray' = TRUE
          /\ Fail(s)
    /\ Touching(s)
    /\ UNCHANGED <<row, open, sent>>

\* An invitation gives at most what the mode says; more than plain membership
\* has to be accepted by the member.
Offered(u, mode) == [sub EXCEPT ![u] = IF @ = {} THEN {"S"} ELSE @ \cap mode]

Taken(u) == [v \in Users |-> IF v = u THEN {"S", "O"} ELSE sub[v] \ {"O"}]

AddSubscriber(s) ==
    LET r == req[s] IN
    /\ r.pc = "add"
    /\ Call(s, Offered(r.target, {"S"}), sub[r.op] # {}, {sub},
            [r EXCEPT !.pc = "reconcile", !.created = r.target \notin r.known])

\* What tinode_reconcile_topic_members leaves: the members have at least the
\* mode of their role, those in exact no more, and with extras nobody else
\* is subscribed.
Reconciled(rows, expected, scope, exact, extras) ==
    [u \in Users |->
        IF u \in exact THEN ModeOf(rows[u].role)
        ELSE IF u \in scope THEN sub[u] \cup ModeOf(rows[u].role)
        ELSE IF extras /\ u \notin expected THEN {}
        ELSE sub[u]]

\* Each member is brought into line by a call of its own.
SomeOf(sub2) == {[u \in Users |-> IF u \in done THEN sub2[u] ELSE sub[u]] :
                     done \in SUBSET Users}

\* Mutated form: a removal is checked against the members before it
RowsForNow(r) == IF r.kind = "remove" THEN row ELSE Written(r)

\* The rows the handler reads for the check: it has written its own already.
RowsFor(r) == Written(r)

\* The goal of the check that precedes the commit.
ReconcileGoal(r) ==
    CASE r.kind = "role" ->
            Reconciled(RowsFor(r), r.expected, r.expected, {r.target}, TRUE)
      [] r.kind = "remove" ->
            Reconciled(RowsFor(r), Members(RowsFor(r)), Members(RowsFor(r)), {}, TRUE)
      [] OTHER ->
            Reconciled(RowsFor(r), Members(RowsFor(r)), {r.target}, {}, FALSE)

\* Whose token the check uses, and whose it claims to be.
TokenOf(r) == IF r.heir # None THEN r.heir
              ELSE IF r.witness # None THEN r.witness ELSE r.op

UidOf(r) == IF r.heir # None THEN r.heir
            ELSE IF r.witness # None THEN r.witness
            ELSE IF r.kind = "remove" THEN r.actor ELSE r.op

\* The caller's token is its own, and it is subscribed.
Authenticated(r) == TokenOf(r) = UidOf(r) /\ sub[UidOf(r)] # {}

\* Reconciliation makes nobody owner: ownership moves only from its holder to
\* the one who accepts it.
SameOwner(u, goal) == "O" \in goal[u] <=> "O" \in sub[u]

Hindered(r, goal) == IF Authenticated(r)
                     THEN [u \in Users |-> IF SameOwner(u, goal) THEN goal[u]
                                           ELSE sub[u]]
                     ELSE sub

Reconcile(s) ==
    LET r == req[s]  goal == ReconcileGoal(r) IN
    /\ r.pc = "reconcile"
    /\ \/ /\ Authenticated(r) /\ \A u \in Users : SameOwner(u, goal)
          /\ Call(s, goal, TRUE, SomeOf(goal), [r EXCEPT !.pc = "commit"])
       \/ /\ Hindered(r, goal) # goal \/ ~Authenticated(r)
          /\ sub' = Hindered(r, goal)
          /\ Fail(s)
          /\ Touching(s)
          /\ UNCHANGED <<row, open, astray, faults, sent>>

\* The owner leaves: the replacement is offered the topic and accepts it.
OfferTopic(s) ==
    LET r == req[s] IN
    /\ r.pc = "offer"
    /\ Call(s, sub, "O" \in sub[r.op], {sub}, [r EXCEPT !.pc = "accept"])

AcceptTopic(s) ==
    LET r == req[s] IN
    /\ r.pc = "accept"
    /\ Call(s, Taken(r.heir), sub[r.heir] # {}, {sub},
            [r EXCEPT !.pc = "removeSub", !.accepted = TRUE])

RemoveSubscriber(s) ==
    LET r == req[s] IN
    /\ r.pc = "removeSub"
    /\ Call(s, [sub EXCEPT ![r.target] = {}], sub[r.op] # {}, {sub},
            [r EXCEPT !.pc = "reconcile", !.removed = TRUE])

\* tinode_dissolve_topic removes the owner last, and until then it invites
\* everybody again when a removal fails.  Inviting may fail in its turn.
Invited(gone, lost) == [u \in Users |-> IF u \in lost THEN {}
                                        ELSE IF u \in gone THEN {"S"} ELSE sub[u]]

DissolveTopic(s) ==
    LET r == req[s]  others == Subscribers \ {r.op} IN
    /\ r.pc = "dissolve"
    /\ \/ Call(s, [u \in Users |-> {}], sub[r.op] # {},
               {Invited(gone, {}) : gone \in SUBSET others},
               [r EXCEPT !.pc = "commit"])
       \/ /\ sub[r.op] # {} /\ "reject" \in Faults /\ faults < MaxFaults
          /\ \E gone \in SUBSET others : \E lost \in SUBSET gone \ {{}} :
                sub' = Invited(gone, lost)
          /\ faults' = faults + 1 /\ astray' = TRUE
          /\ Fail(s)
          /\ Touching(s)
          /\ UNCHANGED <<row, open, sent>>

\* A commit that fails is undone like a Tinode call that does, except that of
\* a dissolution: the group stays, without its topic.
Commit(s) ==
    LET r == req[s] IN
    /\ r.pc = "commit" /\ lock \in {None, s}
    /\ \/ /\ row' = Written(r)
          /\ open' = (open /\ r.kind # "dissolve")
          /\ astray' = (astray /\ r.kind \notin {"role", "remove"})
          /\ spoiled' = (spoiled \/ Outdated(r))
          /\ End(s)
          /\ UNCHANGED faults
       \/ /\ "commit" \in Faults /\ faults < MaxFaults /\ faults' = faults + 1
          /\ astray' = (astray \/ r.kind = "dissolve")
          /\ Fail(s)
          /\ UNCHANGED <<row, open, spoiled>>
    /\ UNCHANGED <<sub, crossed, disturbed, sent>>

\* Best effort: a failure is only logged.
CleanUp(s) ==
    /\ req[s].pc = "cleanup"
    /\ sub' \in {[u \in Users |-> {}], sub}
    /\ End(s)
    /\ UNCHANGED <<row, open, astray, history, faults, sent>>

-----------------------------------------------------------------------------
(* Undoing.  Each step is a Tinode call; a failure ends the undoing. *)

Undo(s, pc, sub2, possible, next) ==
    /\ req[s].pc = pc
    /\ \/ /\ possible /\ sub' = sub2
          /\ req' = [req EXCEPT ![s] = IF next = "idle" THEN NoRequest
                                       ELSE [@ EXCEPT !.pc = next]]
          /\ UNCHANGED <<astray, faults>>
       \/ /\ req' = [req EXCEPT ![s] = NoRequest] /\ astray' = TRUE
          /\ \/ ~possible /\ UNCHANGED <<sub, faults>>
             \/ /\ possible /\ faults < MaxFaults /\ faults' = faults + 1
                /\ \/ "reject" \in Faults /\ sub' = sub
                   \/ "lost" \in Faults /\ sub' = sub2
    /\ Touching(s)
    /\ UNCHANGED <<row, open, lock, sent>>

UndoAdd(s) ==
    LET r == req[s] IN
    Undo(s, "undoAdd", [sub EXCEPT ![r.target] = {}], sub[r.op] # {}, "idle")

\* The access of the roles read before, with the rows as they were.
UndoRole(s) ==
    LET r == req[s]
        before == Reconciled([row EXCEPT ![r.target].role = r.seen.role],
                             r.expected, r.expected, {r.target}, TRUE)
    IN  Undo(s, "undoRole", Hindered(r, before), Hindered(r, before) = before,
             "idle")

\* rollback_tinode_owner_transfer
UndoGrant(s) ==
    LET r == req[s] IN
    Undo(s, "undoGrant", Offered(r.op, {"S", "O"}), "O" \in sub[r.heir],
         "undoAccept")

UndoAccept(s) ==
    LET r == req[s] IN
    Undo(s, "undoAccept", Taken(r.op), sub[r.op] # {}, "undoMode")

UndoMode(s) ==
    LET r == req[s] IN
    Undo(s, "undoMode", Offered(r.heir, {"S"}), "O" \in sub[r.op], "idle")

UndoRemove(s) ==
    LET r == req[s] IN
    Undo(s, "undoRemove", Offered(r.target, {"S"}),
         sub[IF r.witness # None THEN r.witness ELSE r.op] # {}, "idle")

-----------------------------------------------------------------------------

Begin(s) ==
    \/ \E a, t \in Users :
          \/ BeginAdd(s, a, t) \/ BeginApprove(s, a, t) \/ BeginReject(s, a, t)
          \/ BeginRemove(s, a, t)
          \/ \E role \in {"ADMIN", "MEMBER"} : BeginRole(s, a, t, role)
    \/ \E a \in Users : CloseLast(s, a) \/ BeginDissolve(s, a)

Step(s) ==
    \/ Prepare(s) \/ Write(s) \/ AddSubscriber(s) \/ Reconcile(s)
    \/ OfferTopic(s) \/ AcceptTopic(s) \/ RemoveSubscriber(s)
    \/ DissolveTopic(s) \/ Commit(s) \/ CleanUp(s)
    \/ UndoAdd(s) \/ UndoRole(s) \/ UndoGrant(s) \/ UndoAccept(s)
    \/ UndoMode(s) \/ UndoRemove(s)

Next == \E s \in Slots : Begin(s) \/ Step(s)

Spec == Init /\ [][Next]_vars

-----------------------------------------------------------------------------
(* Properties *)

\* An open group has one owner among its members, whoever leaves, is removed
\* or is promoted: dissolving and the bridge to Tinode depend on it.
OneOwner == open /\ ~spoiled => Cardinality(Owners(row)) = 1

\* When no request is in progress, the subscribers of the topic are the
\* members, and the topic belongs to the group's owner.  A refused Tinode call
\* leaves nothing behind, at whatever point of whatever request it came; what
\* an unconfirmed call or a failed undo leaves, the next role change or
\* removal that succeeds repairs.
SettledTopic ==
    open /\ Busy = {} /\ ~astray /\ ~crossed /\ ~spoiled =>
        /\ Subscribers = Members(row)
        /\ \A u \in Users : "O" \in sub[u] <=> u \in Owners(row)

\* "The membership transaction is committed only after effective J/R/W access
\* is visible": a commit never runs ahead of Tinode.  Who joins is subscribed,
\* who leaves is not, and who gets a role has its access.
CommitsFollowTinode ==
    [][open' /\ ~spoiled' /\ ~disturbed =>
       \A u \in Users :
          /\ u \in Members(row') \ Members(row) => "S" \in sub[u]
          /\ u \in Members(row) \ Members(row') => sub[u] = {}
          /\ u \in Members(row) \cap Members(row') /\ row'[u].role # row[u].role
                => ModeOf(row'[u].role) \subseteq sub[u]]_vars

\* "the owner and deputy share group-management, member, ... capabilities":
\* while Tinode works, no request has to be undone.
NothingToUndo == \A s \in Slots : req[s].pc \notin
    {"undoAdd", "undoRole", "undoGrant", "undoAccept", "undoMode", "undoRemove"}
=============================================================================
