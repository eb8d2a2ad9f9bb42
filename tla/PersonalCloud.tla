---------------------------- MODULE PersonalCloud ----------------------------
(***************************************************************************)
(* The private files of one owner: a quota, upload tickets, objects in S3, *)
(* deletion and the cleanup job.  A handler never awaits, so a worker      *)
(* process runs one request at a time; workers and the job interleave at   *)
(* every database and S3 call.                                             *)
(*                                                                         *)
(* Left out: several owners, who share nothing; names and types of files;  *)
(* counts of attempts; paging and download links, which write nothing;     *)
(* private text messages, which are one insert and one flag.               *)
(***************************************************************************)
EXTENDS Integers, FiniteSets, FiniteSetsExt

CONSTANTS Uploads,   \* upload ids
          Size,      \* Size[u]: the size a ticket is asked for
          Quota,     \* PERSONAL_CLOUD_QUOTA
          Workers,   \* worker processes of Chatmgt
          Prompt,    \* a completion is over before its ticket expires
          MaxFaults  \* bound: refusals, losses and crashes in one behaviour

ASSUME SizeAssumption == Size \in [Uploads -> Nat \ {0}]
ASSUME QuotaAssumption == Quota \in Nat
ASSUME InstanceAssumption ==
    IsFiniteSet(Uploads) /\ IsFiniteSet(Workers) /\ Workers # {}
ASSUME FaultsAssumption == MaxFaults \in Nat /\ Prompt \in BOOLEAN

VARIABLES row,       \* row[u]: the row of personal_cloud_file
          pending,   \* uploads with an object under _pending/
          final,     \* uploads with an object under the final key
          client,    \* client[u]: how far the uploading client is
          expired,   \* uploads whose ticket is older than its time to live
          asked,     \* history: uploads whose deletion was accepted
          job,       \* job[w]: the request a worker is at
          sweep,     \* the cleanup job
          faults     \* faults so far

vars == <<row, pending, final, client, expired, asked, job, sweep, faults>>

-----------------------------------------------------------------------------

States == {"NO_ROW", "PENDING_UPLOAD", "ACTIVE", "PENDING_DELETE", "RETRY",
           "DELETED"}

\* cleanup_next_at: NULL, ahead, or past.
Row == [state : States, deleted : BOOLEAN, cleanup : {"null", "ahead", "due"}]

NoRow == [state |-> "NO_ROW", deleted |-> FALSE, cleanup |-> "null"]

\* The steps of a completion, and all steps.
CompleteSteps == {"statFinal", "statPending", "check", "dropBad", "copy",
                  "statCopy", "dropPending", "commitActive"}

Steps == CompleteSteps \cup {"insert", "mark", "removeFinal", "removePending",
                             "commitDeleted", "commitRetry"}

Idle == [at |-> "idle"]

Job == {Idle} \cup [at : Steps, up : Uploads]

\* What the job loaded and what became of it.
Sweep == [todo : SUBSET Uploads, half : SUBSET Uploads, again : SUBSET Uploads,
          cleaned : SUBSET Uploads, failed : SUBSET Uploads]

NoSweep == [todo |-> {}, half |-> {}, again |-> {}, cleaned |-> {},
            failed |-> {}]

TypeOK ==
    /\ row \in [Uploads -> Row]
    /\ pending \subseteq Uploads /\ final \subseteq Uploads
    /\ client \in [Uploads -> {"new", "creating", "ticket", "stored", "bad",
                               "completing", "completingBad", "completed",
                               "stopped"}]
    /\ expired \subseteq Uploads /\ asked \subseteq Uploads
    /\ job \in [Workers -> Job]
    /\ sweep \in Sweep
    /\ faults \in 0..MaxFaults

Init ==
    /\ row = [u \in Uploads |-> NoRow]
    /\ pending = {} /\ final = {}
    /\ client = [u \in Uploads |-> "new"]
    /\ expired = {} /\ asked = {}
    /\ job = [w \in Workers |-> Idle]
    /\ sweep = NoSweep /\ faults = 0

-----------------------------------------------------------------------------
(* Rows *)

Exists(u) == row[u].state # "NO_ROW" /\ ~row[u].deleted

\* _file_query: what the owner's list, downloads and deletions see.
Listed(u) == Exists(u) /\ row[u].state = "ACTIVE"

\* Rows count from their insertion to their deletion, whatever their state.
Used == MapThenSumSet(LAMBDA u : Size[u], {u \in Uploads : Exists(u)})

\* Mutated form: the size that is asked for is not counted
FitsUsed(u) == Used <= Quota

Fits(u) == Used + Size[u] <= Quota

\* Mutated form: the cleanup time is not compared
DueEarly == {u \in Uploads : /\ Exists(u)
                             /\ row[u].state \in {"PENDING_UPLOAD",
                                                  "PENDING_DELETE", "RETRY"}}

\* Rows the job selects.
Due == {u \in Uploads : /\ Exists(u) /\ row[u].cleanup = "due"
                        /\ row[u].state \in {"PENDING_UPLOAD", "PENDING_DELETE",
                                             "RETRY"}}

Set(u, r) == row' = [row EXCEPT ![u] = r]

Completed(r) == [r EXCEPT !.state = "ACTIVE", !.cleanup = "null"]

\* Mutated form: the file stays listed while its objects are removed
MarkedListed(r) == [r EXCEPT !.cleanup = "due"]

Marked(r) == [r EXCEPT !.state = "PENDING_DELETE", !.cleanup = "due"]

Deleted(r) == [r EXCEPT !.deleted = TRUE, !.state = "DELETED", !.cleanup = "null"]

\* Mutated form: a deletion that failed lists the file again
RetriedActive(r) == [r EXCEPT !.state = "ACTIVE", !.cleanup = "null"]

Retried(r) == [r EXCEPT !.state = "RETRY", !.cleanup = "ahead"]

-----------------------------------------------------------------------------
(* Requests.  A worker that dies, and an answer that is lost, leave the    *)
(* client without one.                                                     *)

Free(w) == job[w] = Idle

At(w, step) == job[w].at = step

Goto(w, step) == job' = [job EXCEPT ![w].at = step]

Take(w, step, u) == job' = [job EXCEPT ![w] = [at |-> step, up |-> u]]

\* Mutated form: the worker keeps the upload of its last request
DoneKeepsUpload(w) == job' = [job EXCEPT ![w].at = "idle"]

Done(w) == job' = [job EXCEPT ![w] = Idle]

Well == UNCHANGED faults

Fault == faults < MaxFaults /\ faults' = faults + 1

Stops(u) == client' = [client EXCEPT ![u] = "stopped"]

Answer(u, to) ==
    \/ client' = [client EXCEPT ![u] = to] /\ Well
    \/ Stops(u) /\ Fault

\* The check of the quota; the insertion follows it.
Create(w, u) ==
    /\ Free(w) /\ client[u] = "new"
    /\ \/ /\ Fits(u) /\ Take(w, "insert", u)
          /\ client' = [client EXCEPT ![u] = "creating"]
       \/ ~Fits(u) /\ Stops(u) /\ UNCHANGED job
    /\ UNCHANGED <<row, pending, final, expired, asked, sweep, faults>>

Insert(w) ==
    LET u == job[w].up IN
    /\ At(w, "insert") /\ Done(w)
    /\ Set(u, [state |-> "PENDING_UPLOAD", deleted |-> FALSE, cleanup |-> "ahead"])
    /\ Answer(u, "ticket")
    /\ UNCHANGED <<pending, final, expired, asked, sweep>>

\* The client puts the file to S3, or something else than the ticket says.
Put(u) ==
    /\ client[u] = "ticket" /\ u \notin expired
    /\ pending' = pending \cup {u}
    /\ \/ client' = [client EXCEPT ![u] = "stored"] /\ Well
       \/ client' = [client EXCEPT ![u] = "bad"] /\ Fault
    /\ UNCHANGED <<row, final, expired, asked, job, sweep>>

\* The row is loaded and the ticket verified.  A client completes once, so
\* that no row is ACTIVE or gone yet while its ticket lives.
Complete(w, u) ==
    /\ Free(w) /\ client[u] \in {"stored", "bad"}
    /\ \/ /\ u \notin expired /\ Exists(u) /\ Take(w, "statFinal", u)
          /\ client' = [client EXCEPT
                        ![u] = IF @ = "bad" THEN "completingBad" ELSE "completing"]
       \/ u \in expired /\ Stops(u) /\ UNCHANGED job
    /\ UNCHANGED <<row, pending, final, expired, asked, sweep, faults>>

\* A final object of an earlier completion is taken as it is.
StatFinal(w) ==
    /\ At(w, "statFinal")
    /\ Goto(w, IF job[w].up \in final THEN "dropPending" ELSE "statPending")
    /\ UNCHANGED <<row, pending, final, client, expired, asked, sweep, faults>>

Bad(u) == client[u] = "completingBad"

\* The object was removed meanwhile, and the client gets a 409.
Missing(w) == LET u == job[w].up IN u \notin pending /\ Done(w) /\ Stops(u)

\* Size and type.  Some wrong objects have those of the ticket.
StatPending(w) ==
    LET u == job[w].up IN
    /\ At(w, "statPending")
    /\ \/ u \in pending /\ Goto(w, "check") /\ UNCHANGED client
       \/ u \in pending /\ Bad(u) /\ Goto(w, "dropBad") /\ UNCHANGED client
       \/ Missing(w)
    /\ UNCHANGED <<row, pending, final, expired, asked, sweep, faults>>

\* The first bytes, read by a call of their own.
CheckContent(w) ==
    LET u == job[w].up IN
    /\ At(w, "check")
    /\ \/ /\ u \in pending /\ Goto(w, IF Bad(u) THEN "dropBad" ELSE "copy")
          /\ UNCHANGED client
       \/ Missing(w)
    /\ UNCHANGED <<row, pending, final, expired, asked, sweep, faults>>

Copy(w) ==
    LET u == job[w].up IN
    /\ At(w, "copy")
    /\ \/ /\ u \in pending /\ final' = final \cup {u}
          /\ Goto(w, "statCopy") /\ UNCHANGED client
       \/ Missing(w) /\ UNCHANGED final
    /\ UNCHANGED <<row, pending, expired, asked, sweep, faults>>

\* A copy that is gone, or not what it should be: it is removed, if it can be.
StatCopy(w) ==
    LET u == job[w].up IN
    /\ At(w, "statCopy")
    /\ \/ u \in final /\ Goto(w, "dropPending") /\ UNCHANGED <<final, client>> /\ Well
       \/ /\ Done(w) /\ Stops(u) /\ IF u \in final THEN Fault ELSE Well
          /\ final' = final \ {u} \/ final' = final
    /\ UNCHANGED <<row, pending, expired, asked, sweep>>

\* What a completion need not wait for: a failed removal is ignored.
RemovesIfItCan(u) == \/ pending' = pending \ {u} /\ Well
                     \/ pending' = pending /\ Fault

DropBad(w) ==
    LET u == job[w].up IN
    /\ At(w, "dropBad") /\ Done(w) /\ RemovesIfItCan(u) /\ Stops(u)
    /\ UNCHANGED <<row, final, expired, asked, sweep>>

DropPending(w) ==
    /\ At(w, "dropPending") /\ Goto(w, "commitActive")
    /\ RemovesIfItCan(job[w].up)
    /\ UNCHANGED <<row, final, client, expired, asked, sweep>>

CommitActive(w) ==
    LET u == job[w].up IN
    /\ At(w, "commitActive") /\ Done(w)
    /\ Set(u, Completed(row[u]))
    /\ Answer(u, "completed")
    /\ UNCHANGED <<pending, final, expired, asked, sweep>>

\* Also from two devices at once.
Delete(w, u) ==
    /\ Free(w) /\ Listed(u) /\ Take(w, "mark", u)
    /\ UNCHANGED <<row, pending, final, client, expired, asked, sweep, faults>>

Mark(w) ==
    LET u == job[w].up IN
    /\ At(w, "mark") /\ Goto(w, "removeFinal")
    /\ Set(u, Marked(row[u])) /\ asked' = asked \cup {u}
    /\ UNCHANGED <<pending, final, client, expired, sweep, faults>>

\* Mutated form: a failed removal is taken for a removal
AfterAnyRemoval == "commitDeleted"

AfterFailure == "commitRetry"

RemoveFinal(w) ==
    /\ At(w, "removeFinal")
    /\ \/ final' = final \ {job[w].up} /\ Goto(w, "removePending") /\ Well
       \/ final' = final /\ Goto(w, AfterFailure) /\ Fault
    /\ UNCHANGED <<row, pending, client, expired, asked, sweep>>

RemovePending(w) ==
    /\ At(w, "removePending")
    /\ \/ pending' = pending \ {job[w].up} /\ Goto(w, "commitDeleted") /\ Well
       \/ pending' = pending /\ Goto(w, AfterFailure) /\ Fault
    /\ UNCHANGED <<row, final, client, expired, asked, sweep>>

CommitDeleted(w) ==
    /\ At(w, "commitDeleted") /\ Done(w)
    /\ Set(job[w].up, Deleted(row[job[w].up]))
    /\ UNCHANGED <<pending, final, client, expired, asked, sweep, faults>>

CommitRetry(w) ==
    /\ At(w, "commitRetry") /\ Done(w)
    /\ Set(job[w].up, Retried(row[job[w].up]))
    /\ UNCHANGED <<pending, final, client, expired, asked, sweep, faults>>

\* A process dies between two calls, or one of them fails for good.
Crash(w) ==
    /\ ~Free(w) /\ Done(w) /\ Fault
    /\ client' = [client EXCEPT ![job[w].up] =
                  IF @ \in {"creating", "completing", "completingBad"} THEN "stopped" ELSE @]
    /\ UNCHANGED <<row, pending, final, expired, asked, sweep>>

-----------------------------------------------------------------------------
(* Time and the cleanup job *)

Completing(u) ==
    \E w \in Workers : ~Free(w) /\ job[w].up = u /\ job[w].at \in CompleteSteps

\* A row that was inserted is due when its ticket expires.
PassTime(u) ==
    /\ row[u].cleanup = "ahead" /\ (Prompt => ~Completing(u))
    /\ Set(u, [row[u] EXCEPT !.cleanup = "due"])
    /\ expired' = expired \cup {u}
    /\ UNCHANGED <<pending, final, client, asked, job, sweep, faults>>

Begin ==
    /\ sweep = NoSweep /\ Due # {}
    /\ sweep' = [NoSweep EXCEPT !.todo = Due,
                 !.again = {u \in Due : row[u].state = "RETRY"}]
    /\ UNCHANGED <<row, pending, final, client, expired, asked, job, faults>>

SweepFinal(u) ==
    /\ u \in sweep.todo \ sweep.half
    /\ final' = final \ {u}
    /\ sweep' = [sweep EXCEPT !.half = @ \cup {u}]
    /\ UNCHANGED <<row, pending, client, expired, asked, job, faults>>

SweepPending(u) ==
    /\ u \in sweep.todo \cap sweep.half
    /\ pending' = pending \ {u}
    /\ sweep' = [sweep EXCEPT !.todo = @ \ {u}, !.half = @ \ {u},
                              !.cleaned = @ \cup {u}]
    /\ UNCHANGED <<row, final, client, expired, asked, job, faults>>

SweepFails(u) ==
    /\ u \in sweep.todo /\ Fault
    /\ sweep' = [sweep EXCEPT !.todo = @ \ {u}, !.half = @ \ {u},
                              !.failed = @ \cup {u}]
    /\ UNCHANGED <<row, pending, final, client, expired, asked, job>>

\* A RETRY that was loaded as RETRY is not written.
Swept(u) ==
    IF u \in sweep.cleaned THEN Deleted(row[u])
    ELSE IF u \notin sweep.failed THEN row[u]
    ELSE IF u \in sweep.again THEN [row[u] EXCEPT !.cleanup = "ahead"]
    ELSE Retried(row[u])

\* One commit for the whole batch.
SweepCommit ==
    /\ sweep # NoSweep /\ sweep.todo = {}
    /\ row' = [u \in Uploads |-> Swept(u)] /\ sweep' = NoSweep
    /\ UNCHANGED <<pending, final, client, expired, asked, job, faults>>

\* The job dies, or its commit fails, after it removed objects.
SweepAbort ==
    /\ sweep # NoSweep /\ sweep' = NoSweep /\ Fault
    /\ UNCHANGED <<row, pending, final, client, expired, asked, job>>

-----------------------------------------------------------------------------

Handle(w) ==
    \/ Insert(w) \/ StatFinal(w) \/ StatPending(w) \/ CheckContent(w) \/ Copy(w)
    \/ StatCopy(w) \/ DropBad(w) \/ DropPending(w) \/ CommitActive(w) \/ Mark(w)
    \/ RemoveFinal(w) \/ RemovePending(w) \/ CommitDeleted(w) \/ CommitRetry(w) \/ Crash(w)

SweepStep ==
    \/ Begin \/ SweepCommit \/ SweepAbort
    \/ \E u \in Uploads : SweepFinal(u) \/ SweepPending(u) \/ SweepFails(u)

Next ==
    \/ \E u \in Uploads, w \in Workers : Create(w, u) \/ Complete(w, u) \/ Delete(w, u)
    \/ \E u \in Uploads : Put(u) \/ PassTime(u)
    \/ \E w \in Workers : Handle(w)
    \/ SweepStep

Spec == Init /\ [][Next]_vars

-----------------------------------------------------------------------------
(* Properties *)

\* Every worker may pass the check once with what the others insert, and no
\* more: the owner's rows exceed the quota by one file per further worker.
QuotaOvershoot ==
    LET largest == Max({0} \cup {Size[u] : u \in Uploads})
    IN  Used <= Quota + (Cardinality(Workers) - 1) * largest

\* What the owner's list shows can be downloaded.
ListedIsStored == \A u \in Uploads : Listed(u) => u \in final

\* A completion that was answered keeps its file until its owner deletes it.
CompletedStays ==
    \A u \in Uploads : client[u] = "completed" /\ u \notin asked => Listed(u)

\* A file whose deletion was accepted is not listed again, although the
\* deletion, another one and the job work on its row at once.
DeletedForEver == \A u \in asked : ~Listed(u)

\* A row that is marked deleted, and so seen by no later cleanup, has left
\* no object.
NothingLeft == \A u \in Uploads : row[u].deleted => u \notin pending \cup final
=============================================================================
