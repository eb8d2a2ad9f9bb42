----------------------------- MODULE ChatMedia -----------------------------
(***************************************************************************)
(* The chat media registry: upload tickets, S3 objects, the binding of a   *)
(* completed object to a message, and the cleanup job.                     *)
(*                                                                         *)
(* Chatmgt runs several worker processes.  A handler holds no lock between *)
(* the SELECT of its registry row and its COMMIT, and calls S3 in between, *)
(* so every database or S3 call is one action here, and handlers of other  *)
(* workers, the cleanup job and the client run between any two of them.    *)
(* A COMMIT writes only the columns the handler changed (Flush).           *)
(***************************************************************************)
EXTENDS Naturals, FiniteSets

CONSTANTS
    Uploads,          \* upload ids
    Workers,          \* Chatmgt request handlers that run at the same time
    Contents,         \* what a client may PUT: an object and its ETag
    Fitting,          \* the contents that have the ticket's size and type
    Genuine,          \* the contents whose first bytes are of that type
    None,             \* no object, no job
    MaxRedeliveries   \* bound: repeated completion requests in one behaviour

ASSUME ContentsAssumption == Fitting \subseteq Contents /\ Genuine \subseteq Contents
ASSUME NoneAssumption == None \notin Contents
ASSUME RedeliveriesAssumption == MaxRedeliveries \in Nat

VARIABLES
    row,          \* row[u]: the chat_media_registry row of upload u
    pending,      \* pending[u]: S3 object under the _pending/ prefix
    final,        \* final[u]: S3 object under the final key
    age,          \* age[u]: which of the upload's credentials still live
    member,       \* uploads whose uploader is an active member
    client,       \* client[u]: where the sending client stands
    inbox,        \* HTTP requests sent and not yet picked up
    redeliveries, \* completion requests repeated so far
    worker,       \* worker[w]: the request handler w is in the middle of
    sweep,        \* the cleanup job
    bound,        \* history: uploads for which a bind was committed
    late,         \* history: uploads whose cleanup fell due while a completion
                  \* or the bind that follows it was under way
    swapped       \* history: uploads where content that a completion had
                  \* measured was PUT again after it had checked other content

vars == <<row, pending, final, age, member, client, inbox, redeliveries,
          worker, sweep, bound, late, swapped>>

store == <<pending, final>>
clientVars == <<age, member, client, redeliveries, late, swapped>>

-----------------------------------------------------------------------------
(* Data *)

States == {"NO_ROW", "PENDING_UPLOAD", "PENDING_MESSAGE", "BOUND",
           "PENDING_DELETE", "RETRY", "CLEANED"}

\* cleanup_next_at: NULL, a completion TTL ahead, a retry backoff ahead, past.
CleanupTimes == {"null", "ttl", "backoff", "due"}

Row == [state : States, deleted : BOOLEAN, cleanup : CleanupTimes]

NoRow == [state |-> "NO_ROW", deleted |-> FALSE, cleanup |-> "null"]

Requests == [op : {"complete", "bind", "discard"}, u : Uploads]

Objects == Contents \cup {None}

Steps == {"statFinal", "statPending", "content", "copy", "statCopy",
          "removePending", "dropPending", "commitComplete", "commitBind", "markDelete",
          "removeFinal", "removeRest", "commitCleaned", "commitRetry"}

Job == [u : Uploads, pc : Steps, seen : Row, etag : Objects]

Outcomes == {"todo", "half", "cleaned", "failed"}

\* The rows the job loaded, as it loaded them, and what became of each.
Sweep == [running : BOOLEAN, batch : SUBSET Uploads,
          seen : [Uploads -> Row], out : [Uploads -> Outcomes]]

IdleSweep == [running |-> FALSE, batch |-> {},
              seen |-> [u \in Uploads |-> NoRow],
              out |-> [u \in Uploads |-> "todo"]]

TypeOK ==
    /\ row \in [Uploads -> Row]
    /\ pending \in [Uploads -> Objects]
    /\ final \in [Uploads -> Objects]
    /\ age \in [Uploads -> {"url", "ticket", "expired"}]
    /\ member \in SUBSET Uploads
    /\ client \in [Uploads -> {"new", "uploading", "uploaded", "completing",
                               "completed", "binding", "discarding"}]
    /\ inbox \in SUBSET Requests
    /\ redeliveries \in 0..MaxRedeliveries
    /\ worker \in [Workers -> Job \cup {None}]
    /\ sweep \in Sweep
    /\ bound \in SUBSET Uploads
    /\ late \in SUBSET Uploads
    /\ swapped \in SUBSET Uploads

Init ==
    /\ row = [u \in Uploads |-> NoRow]
    /\ pending = [u \in Uploads |-> None]
    /\ final = [u \in Uploads |-> None]
    /\ age = [u \in Uploads |-> "url"]
    /\ member = Uploads
    /\ client = [u \in Uploads |-> "new"]
    /\ inbox = {}
    /\ redeliveries = 0
    /\ worker = [w \in Workers |-> None]
    /\ sweep = IdleSweep
    /\ bound = {}
    /\ late = {}
    /\ swapped = {}

-----------------------------------------------------------------------------
(* What a COMMIT writes.  The mapper compares each column with the value   *)
(* the handler loaded and leaves an equal column out of the UPDATE.  Times *)
(* are whole seconds: two stamps of one kind may be equal (`same`), as     *)
(* those of an upload that is created and completed within one second.     *)

\* Mutated form: every column is written, changed or not.
FlushWholeRow(now, seen, new, same) == new

Flush(now, seen, new, same) ==
    [state   |-> IF new.state = seen.state THEN now.state ELSE new.state,
     deleted |-> IF new.deleted = seen.deleted THEN now.deleted ELSE new.deleted,
     cleanup |-> IF new.cleanup = seen.cleanup /\ (same \/ new.cleanup = "null")
                    THEN now.cleanup ELSE new.cleanup]

\* A handler commits what it made of the row it loaded.
Write(w, new) ==
    \E same \in BOOLEAN :
        row' = [row EXCEPT ![worker[w].u] = Flush(@, worker[w].seen, new, same)]

\* _registry filters deleted rows out.
Registered(u) == row[u].state # "NO_ROW" /\ ~row[u].deleted

\* The row, the membership and the uploader are checked by every handler.
Admitted(u) == Registered(u) /\ u \in member

Goto(w, step) == worker' = [worker EXCEPT ![w].pc = step]
Finish(w) == worker' = [worker EXCEPT ![w] = None]
At(w, step) == worker[w] # None /\ worker[w].pc = step

Begin(w, u, step) ==
    worker' = [worker EXCEPT
                 ![w] = [u |-> u, pc |-> step, seen |-> row[u], etag |-> None]]

Take(w, op, u) ==
    /\ worker[w] = None
    /\ [op |-> op, u |-> u] \in inbox
    /\ inbox' = inbox \ {[op |-> op, u |-> u]}

Send(op, u) == inbox' = inbox \cup {[op |-> op, u |-> u]}

-----------------------------------------------------------------------------
(* The client and time *)

\* create_media_upload signs the PUT URL and the ticket and inserts the row
\* in one step: it awaits nothing and touches no object.
CreateUpload(u) ==
    /\ client[u] = "new" /\ u \in member
    /\ row' = [row EXCEPT ![u] = [state |-> "PENDING_UPLOAD",
                                  deleted |-> FALSE, cleanup |-> "ttl"]]
    /\ client' = [client EXCEPT ![u] = "uploading"]
    /\ UNCHANGED <<store, age, member, inbox, redeliveries, worker, sweep,
                   bound, late, swapped>>

\* A completion has measured and checked, and copies this version next.
AboutToCopy(u, c) ==
    \E w \in Workers : /\ worker[w] # None /\ worker[w].u = u
                       /\ worker[w].pc = "copy" /\ worker[w].etag = c

\* A PUT through the signed URL: the client's own, or a later reuse of it.
PutObject(u, c) ==
    /\ client[u] # "new" /\ age[u] = "url"
    /\ pending' = [pending EXCEPT ![u] = c]
    /\ client' = [client EXCEPT ![u] = IF @ = "uploading" THEN "uploaded" ELSE @]
    /\ swapped' = IF c \notin Genuine /\ AboutToCopy(u, c)
                    THEN swapped \cup {u} ELSE swapped
    /\ UNCHANGED <<row, final, age, member, inbox, redeliveries, worker,
                   sweep, bound, late>>

SendComplete(u) ==
    /\ client[u] = "uploaded"
    /\ client' = [client EXCEPT ![u] = "completing"]
    /\ Send("complete", u)
    /\ UNCHANGED <<row, store, age, member, redeliveries, worker, sweep,
                   bound, late, swapped>>

\* The PUT or the completion failed or was not answered: discard the upload.
GiveUp(u) ==
    /\ client[u] \in {"uploading", "completing"}
    /\ client' = [client EXCEPT ![u] = "discarding"]
    /\ Send("discard", u)
    /\ UNCHANGED <<row, store, age, member, redeliveries, worker, sweep,
                   bound, late, swapped>>

\* sendFile: Tinode acknowledged the message, and the client binds the media.
PublishAcknowledged(u) ==
    /\ client[u] = "completed"
    /\ client' = [client EXCEPT ![u] = "binding"]
    /\ Send("bind", u)
    /\ UNCHANGED <<row, store, age, member, redeliveries, worker, sweep,
                   bound, late, swapped>>

\* No acknowledgement: the client discards, whether Tinode stored it or not.
PublishUnacknowledged(u) ==
    /\ client[u] = "completed"
    /\ client' = [client EXCEPT ![u] = "discarding"]
    /\ Send("discard", u)
    /\ UNCHANGED <<row, store, age, member, redeliveries, worker, sweep,
                   bound, late, swapped>>

Redeliver(u) ==
    /\ redeliveries < MaxRedeliveries
    /\ client[u] \in {"completing", "completed", "binding"}
    /\ redeliveries' = redeliveries + 1
    /\ Send("complete", u)
    /\ UNCHANGED <<row, store, age, member, client, worker, sweep, bound,
                   late, swapped>>

LoseRequest(r) ==
    /\ r \in inbox
    /\ inbox' = inbox \ {r}
    /\ UNCHANGED <<row, store, clientVars, worker, sweep, bound>>

LeaveConversation(u) ==
    /\ u \in member
    /\ member' = member \ {u}
    /\ UNCHANGED <<row, store, age, client, inbox, redeliveries, worker,
                   sweep, bound, late, swapped>>

\* The PUT URL lives for minutes, the completion ticket for hours.
Age(u) ==
    /\ client[u] # "new" /\ age[u] # "expired"
    /\ age' = [age EXCEPT ![u] = IF @ = "url" THEN "ticket" ELSE "expired"]
    /\ UNCHANGED <<row, store, member, client, inbox, redeliveries, worker,
                   sweep, bound, late, swapped>>

\* A completion or a bind that the client is about to send or that is in flight.
Underway(u) ==
    \/ client[u] \in {"completing", "completed"}
    \/ \E r \in inbox : r.u = u /\ r.op # "discard"
    \/ \E w \in Workers :
          /\ worker[w] # None /\ worker[w].u = u
          /\ worker[w].pc \notin {"markDelete", "removeFinal", "removeRest",
                                  "commitCleaned", "commitRetry"}

\* cleanup_next_at passes.  The row's TTL starts no earlier than the ticket's.
CleanupFallsDue(u) ==
    /\ \/ row[u].cleanup = "backoff"
       \/ row[u].cleanup = "ttl" /\ age[u] = "expired"
    /\ row' = [row EXCEPT ![u].cleanup = "due"]
    /\ late' = IF Underway(u) THEN late \cup {u} ELSE late
    /\ UNCHANGED <<store, age, member, client, redeliveries, inbox, worker,
                   sweep, bound, swapped>>

-----------------------------------------------------------------------------
(* complete_media_upload and complete_chat_media_upload *)

CompleteBegin(w, u) ==
    /\ Take(w, "complete", u)
    /\ Admitted(u) /\ age[u] # "expired"
    /\ Begin(w, u, "statFinal")
    /\ UNCHANGED <<row, store, clientVars, sweep, bound>>

\* "A completed object is immutable": a retry returns the object it finds.
CompleteStatFinal(w) ==
    /\ At(w, "statFinal")
    /\ LET found == final[worker[w].u]
       IN  \/ found = None /\ Goto(w, "statPending")
           \/ found \in Fitting /\ Goto(w, "removePending")
           \/ found \in Contents \ Fitting /\ Finish(w)
    /\ UNCHANGED <<row, store, clientVars, inbox, sweep, bound>>

\* stat_object: size and type, and the ETag that the copy will ask for.
CompleteStatPending(w) ==
    /\ At(w, "statPending")
    /\ LET found == pending[worker[w].u]
       IN  \/ found = None /\ Finish(w)
           \/ found \in Contents \ Fitting /\ Goto(w, "dropPending")
           \/ /\ found \in Fitting
              /\ worker' = [worker EXCEPT
                               ![w] = [@ EXCEPT !.pc = "content", !.etag = found]]
    /\ UNCHANGED <<row, store, clientVars, inbox, sweep, bound>>

\* _validate_object_content reads the first bytes of what is there by now: a
\* second read, of whatever version the URL has received since.  A read that
\* fails, for a missing object too, rejects the upload as a mismatch does.
CompleteCheckContent(w) ==
    /\ At(w, "content")
    /\ \/ pending[worker[w].u] \in Genuine /\ Goto(w, "copy")
       \/ Goto(w, "dropPending")
    /\ UNCHANGED <<row, store, clientVars, inbox, sweep, bound>>

\* A rejected pending object is removed, best effort, before the error.
CompleteDropPending(w) ==
    /\ At(w, "dropPending")
    /\ \/ pending' = [pending EXCEPT ![worker[w].u] = None]
       \/ UNCHANGED pending
    /\ Finish(w)
    /\ UNCHANGED <<row, final, clientVars, inbox, sweep, bound>>

\* Mutated form: the copy is made without match_etag.
CompleteCopyAnyVersion(w) ==
    /\ At(w, "copy")
    /\ LET u == worker[w].u
       IN  IF pending[u] # None
              THEN /\ final' = [final EXCEPT ![u] = pending[u]]
                   /\ Goto(w, "statCopy")
              ELSE Finish(w) /\ UNCHANGED final
    /\ UNCHANGED <<row, pending, clientVars, inbox, sweep, bound>>

\* copy_object with match_etag: it fails if the pending object changed.
CompleteCopy(w) ==
    /\ At(w, "copy")
    /\ LET u == worker[w].u
       IN  IF pending[u] = worker[w].etag
              THEN /\ final' = [final EXCEPT ![u] = pending[u]]
                   /\ Goto(w, "statCopy")
              ELSE Finish(w) /\ UNCHANGED final
    /\ UNCHANGED <<row, pending, clientVars, inbox, sweep, bound>>

\* The copy is read back; it may be gone or replaced by now.
CompleteStatCopy(w) ==
    /\ At(w, "statCopy")
    /\ LET u == worker[w].u
       IN  \/ final[u] = None /\ Finish(w) /\ UNCHANGED final
           \/ final[u] \in Fitting /\ Goto(w, "removePending") /\ UNCHANGED final
           \/ /\ final[u] \in Contents \ Fitting /\ Finish(w)
              /\ \/ final' = [final EXCEPT ![u] = None]
                 \/ UNCHANGED final
    /\ UNCHANGED <<row, pending, clientVars, inbox, sweep, bound>>

CompleteRemovePending(w) ==
    /\ At(w, "removePending")
    /\ \/ pending' = [pending EXCEPT ![worker[w].u] = None]
       \/ UNCHANGED pending
    /\ Goto(w, "commitComplete")
    /\ UNCHANGED <<row, final, clientVars, inbox, sweep, bound>>

\* The row's state is set whatever it was when the handler loaded it.
CompleteCommit(w) ==
    /\ At(w, "commitComplete")
    /\ LET u    == worker[w].u
           seen == worker[w].seen
       IN  /\ Write(w, [seen EXCEPT !.state = "PENDING_MESSAGE", !.cleanup = "ttl"])
           /\ client' = [client EXCEPT
                           ![u] = IF @ = "completing" THEN "completed" ELSE @]
    /\ Finish(w)
    /\ UNCHANGED <<store, age, member, inbox, redeliveries, sweep, bound,
                   late, swapped>>

-----------------------------------------------------------------------------
(* bind_chat_media *)

BindBegin(w, u) ==
    /\ Take(w, "bind", u)
    /\ Admitted(u) /\ row[u].state = "PENDING_MESSAGE"
    /\ Begin(w, u, "commitBind")
    /\ UNCHANGED <<row, store, clientVars, sweep, bound>>

BindCommit(w) ==
    /\ At(w, "commitBind")
    /\ Write(w, [worker[w].seen EXCEPT !.state = "BOUND", !.cleanup = "null"])
    /\ bound' = bound \cup {worker[w].u}
    /\ Finish(w)
    /\ UNCHANGED <<store, clientVars, inbox, sweep>>

-----------------------------------------------------------------------------
(* discard_chat_media *)

DiscardBegin(w, u) ==
    /\ Take(w, "discard", u)
    /\ Admitted(u) /\ row[u].state \notin {"BOUND", "CLEANED"}
    /\ Begin(w, u, "markDelete")
    /\ UNCHANGED <<row, store, clientVars, sweep, bound>>

\* Mutated form: the mark does not schedule the cleanup of the row.
DiscardMarkUnscheduled(w) ==
    /\ At(w, "markDelete")
    /\ Write(w, [worker[w].seen EXCEPT !.state = "PENDING_DELETE", !.cleanup = "null"])
    /\ Goto(w, "removeFinal")
    /\ UNCHANGED <<store, clientVars, inbox, sweep, bound>>

DiscardMark(w) ==
    /\ At(w, "markDelete")
    /\ Write(w, [worker[w].seen EXCEPT !.state = "PENDING_DELETE", !.cleanup = "due"])
    /\ Goto(w, "removeFinal")
    /\ UNCHANGED <<store, clientVars, inbox, sweep, bound>>

\* The commit expired the row: it is loaded again for its upload_id.
DiscardRemoveFinal(w) ==
    /\ At(w, "removeFinal")
    /\ LET u == worker[w].u
       IN  \E removed \in BOOLEAN :
              /\ final' = IF removed THEN [final EXCEPT ![u] = None] ELSE final
              /\ worker' = [worker EXCEPT ![w] =
                    [@ EXCEPT !.seen = row[u],
                              !.pc = IF removed THEN "removeRest" ELSE "commitRetry"]]
    /\ UNCHANGED <<row, pending, clientVars, inbox, sweep, bound>>

DiscardRemovePending(w) ==
    /\ At(w, "removeRest")
    /\ LET u == worker[w].u
       IN  \/ /\ pending' = [pending EXCEPT ![u] = None]
              /\ Goto(w, "commitCleaned")
           \/ UNCHANGED pending /\ Goto(w, "commitRetry")
    /\ UNCHANGED <<row, final, clientVars, inbox, sweep, bound>>

DiscardCommit(w) ==
    /\ At(w, "commitCleaned") \/ At(w, "commitRetry")
    /\ Write(w, IF worker[w].pc = "commitCleaned"
                  THEN [state |-> "CLEANED", deleted |-> TRUE, cleanup |-> "null"]
                  ELSE [worker[w].seen EXCEPT !.state = "RETRY", !.cleanup = "backoff"])
    /\ Finish(w)
    /\ UNCHANGED <<store, clientVars, inbox, sweep, bound>>

-----------------------------------------------------------------------------
(* Requests that change nothing, and failures *)

\* The early returns: no row, not a member, ticket expired, wrong state.
Refuse(w, u) ==
    /\ \/ /\ Take(w, "complete", u)
          /\ ~Admitted(u) \/ age[u] = "expired"
       \/ /\ Take(w, "bind", u)
          /\ ~Admitted(u) \/ row[u].state # "PENDING_MESSAGE"
       \/ /\ Take(w, "discard", u)
          /\ ~Admitted(u) \/ row[u].state \in {"BOUND", "CLEANED"}
    /\ UNCHANGED <<row, store, clientVars, worker, sweep, bound>>

\* An S3 or database error outside a best-effort call, or a worker that dies:
\* what was not committed is rolled back.
Abort(w) ==
    /\ worker[w] # None
    /\ Finish(w)
    /\ UNCHANGED <<row, store, clientVars, inbox, sweep, bound>>

-----------------------------------------------------------------------------
(* sweep_media_cleanup.  Fewer rows are due than its batch limit.          *)

\* Mutated form: rows are selected before cleanup_next_at.
SweepableEarly(u) ==
    /\ Registered(u)
    /\ row[u].state \in {"PENDING_UPLOAD", "PENDING_MESSAGE",
                         "PENDING_DELETE", "RETRY"}


Sweepable(u) ==
    /\ Registered(u)
    /\ row[u].state \in {"PENDING_UPLOAD", "PENDING_MESSAGE",
                         "PENDING_DELETE", "RETRY"}
    /\ row[u].cleanup = "due"

SweepSelect ==
    /\ ~sweep.running
    /\ \E u \in Uploads : Sweepable(u)
    /\ sweep' = [running |-> TRUE, batch |-> {u \in Uploads : Sweepable(u)},
                 seen |-> row, out |-> [u \in Uploads |-> "todo"]]
    /\ UNCHANGED <<row, store, clientVars, inbox, worker, bound>>

\* remove_chat_media: the final object, then the pending one.
SweepRemoveFinal(u) ==
    /\ sweep.running /\ u \in sweep.batch /\ sweep.out[u] = "todo"
    /\ \A v \in Uploads : sweep.out[v] # "half"
    /\ final' = [final EXCEPT ![u] = None]
    /\ sweep' = [sweep EXCEPT !.out[u] = "half"]
    /\ UNCHANGED <<row, pending, clientVars, inbox, worker, bound>>

SweepRemovePending(u) ==
    /\ sweep.running /\ sweep.out[u] = "half"
    /\ pending' = [pending EXCEPT ![u] = None]
    /\ sweep' = [sweep EXCEPT !.out[u] = "cleaned"]
    /\ UNCHANGED <<row, final, clientVars, inbox, worker, bound>>

\* Mutated form: a failed removal is recorded under the registry's name for it.
SweepRemoveRetries(u) ==
    /\ sweep.running /\ u \in sweep.batch
    /\ sweep.out[u] \in {"todo", "half"}
    /\ \A v \in Uploads : sweep.out[v] = "half" => v = u
    /\ sweep' = [sweep EXCEPT !.out[u] = "RETRY"]
    /\ UNCHANGED <<row, store, clientVars, inbox, worker, bound>>

SweepRemoveFails(u) ==
    /\ sweep.running /\ u \in sweep.batch
    /\ sweep.out[u] \in {"todo", "half"}
    /\ \A v \in Uploads : sweep.out[v] = "half" => v = u
    /\ sweep' = [sweep EXCEPT !.out[u] = "failed"]
    /\ UNCHANGED <<row, store, clientVars, inbox, worker, bound>>

Swept(u) ==
    IF sweep.out[u] = "cleaned"
       THEN [state |-> "CLEANED", deleted |-> TRUE, cleanup |-> "null"]
       ELSE [sweep.seen[u] EXCEPT !.state = "RETRY", !.cleanup = "backoff"]

\* One commit for the whole batch, after the last removal.  The rows were due,
\* so a stamp ahead of now is never the one that was loaded.
SweepCommit ==
    /\ sweep.running
    /\ \A u \in sweep.batch : sweep.out[u] \in {"cleaned", "failed"}
    /\ row' = [u \in Uploads |-> IF u \in sweep.batch
                                   THEN Flush(row[u], sweep.seen[u], Swept(u), FALSE)
                                   ELSE row[u]]
    /\ sweep' = IdleSweep
    /\ UNCHANGED <<store, clientVars, inbox, worker, bound>>

SweepAbort ==
    /\ sweep.running
    /\ sweep' = IdleSweep
    /\ UNCHANGED <<row, store, clientVars, inbox, worker, bound>>

-----------------------------------------------------------------------------

ClientStep(u) ==
    \/ CreateUpload(u) \/ SendComplete(u) \/ GiveUp(u)
    \/ PublishAcknowledged(u) \/ PublishUnacknowledged(u)
    \/ Redeliver(u) \/ LeaveConversation(u)
    \/ \E c \in Contents : PutObject(u, c)

TimeStep(u) == Age(u) \/ CleanupFallsDue(u)

RequestStep(w, u) ==
    CompleteBegin(w, u) \/ BindBegin(w, u) \/ DiscardBegin(w, u) \/ Refuse(w, u)

HandlerStep(w) ==
    \/ CompleteStatFinal(w) \/ CompleteStatPending(w) \/ CompleteCheckContent(w)
    \/ CompleteDropPending(w) \/ CompleteCopy(w) \/ CompleteStatCopy(w)
    \/ CompleteRemovePending(w) \/ CompleteCommit(w) \/ BindCommit(w)
    \/ DiscardMark(w) \/ DiscardRemoveFinal(w) \/ DiscardRemovePending(w) \/ DiscardCommit(w)

SweepStep ==
    \/ SweepSelect \/ SweepCommit \/ SweepAbort
    \/ \E u \in Uploads :
          SweepRemoveFinal(u) \/ SweepRemovePending(u) \/ SweepRemoveFails(u)

Next ==
    \/ \E u \in Uploads : ClientStep(u) \/ TimeStep(u)
    \/ \E r \in Requests : LoseRequest(r)
    \/ \E w \in Workers, u \in Uploads : RequestStep(w, u)
    \/ \E w \in Workers : HandlerStep(w) \/ Abort(w)
    \/ SweepStep

Spec == Init /\ [][Next]_vars

\* Time passes, a handler that started runs on, the job is run again and
\* again, and neither S3 nor the job fails for ever.
Fairness ==
    /\ \A u \in Uploads : WF_vars(TimeStep(u))
    /\ \A w \in Workers : WF_vars(HandlerStep(w))
    /\ WF_vars(SweepStep)
    /\ \A u \in Uploads :
          /\ SF_vars(SweepRemoveFinal(u))
          /\ SF_vars(SweepRemovePending(u))
          /\ SF_vars(SweepCommit /\ sweep.out[u] = "cleaned")

FairSpec == Spec /\ Fairness

-----------------------------------------------------------------------------
(* Properties *)

\* Only content that passed the checks is served for a message, although the
\* PUT URL stays usable while the object is measured, checked and copied.  One
\* way round the content check is there: the measured content is overwritten
\* by content that passes, and PUT again before the copy.
VerifiedFinal ==
    \A u \in Uploads :
        final[u] # None => /\ final[u] \in Fitting
                           /\ u \notin swapped => final[u] \in Genuine

\* No interleaving of column-wise commits leaves an unbound row that the
\* cleanup job would never select again, if the upload was never bound or no
\* completion was repeated.  A repeated completion that loaded the row before
\* the bind, in the second in which the row got its cleanup time, keeps the
\* NULL of the bind.
NeverForgotten ==
    \A u \in Uploads :
        /\ Registered(u) /\ row[u].state # "BOUND"
        /\ u \notin bound \/ redeliveries = 0
        => row[u].cleanup # "null"

\* A handler that loaded the row before it was cleaned does not bring it back.
DeletedForEver ==
    [][\A u \in Uploads : row[u].deleted => row'[u].deleted]_vars

\* Once a bind was committed the row stays bound and its object stays there,
\* if the completion was sent once and it and the bind were over within
\* CHAT_MEDIA_COMPLETION_TTL.
BoundMediaKept ==
    redeliveries = 0 =>
        \A u \in bound \ late : /\ final[u] # None
                                /\ Registered(u) /\ row[u].state = "BOUND"

\* chat_media_service.py:643: "A completed object is immutable."
CompletedImmutable ==
    [][\A u \in Uploads :
          final[u] # None /\ final'[u] # None => final'[u] = final[u]]_vars

=============================================================================
