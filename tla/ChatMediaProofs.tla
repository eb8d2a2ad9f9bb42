-------------------------- MODULE ChatMediaProofs --------------------------
(***************************************************************************)
(* Proofs about ChatMedia for any number of uploads, workers, contents and *)
(* repeated requests.                                                      *)
(*                                                                         *)
(* Three safety properties rest on one inductive invariant, IInv: a        *)
(* handler or the job that loaded a row as deleted will find it deleted,   *)
(* a bind was begun on a row that awaited its message, the version about   *)
(* to be copied was measured, and checked unless it was PUT again behind   *)
(* the check (CopyInv), a row that was never bound has its cleanup before  *)
(* it (Scheduled), and nobody works on an upload that was not created.     *)
(* Two more need BindInv on top of it, for the way of an upload to its     *)
(* message when no completion is repeated.                                 *)
(***************************************************************************)
EXTENDS ChatMedia, TLAPS

\* What holds of the job of one handler.
JobInv(job) ==
    /\ client[job.u] # "new"
    /\ job.seen.deleted => row[job.u].deleted
    /\ job.pc \in {"content", "copy"} => job.etag \in Fitting
    /\ job.pc = "commitBind" => job.seen.state = "PENDING_MESSAGE"

\* What holds of the rows the cleanup job has loaded.
BatchInv ==
    \A u \in sweep.batch : /\ client[u] # "new"
                           /\ sweep.seen[u].deleted => row[u].deleted

\* The version about to be copied passes the content check, or is not there any
\* more, or was PUT again after other content passed.
CopyInv ==
    \A w \in Workers :
        worker[w] # None /\ worker[w].pc = "copy" =>
            \/ worker[w].etag \in Genuine
            \/ worker[w].etag # pending[worker[w].u]
            \/ worker[w].u \in swapped

\* A row that was never bound and is not cleaned has a time for its cleanup.
Scheduled ==
    \A u \in Uploads \ bound :
        \/ client[u] = "new" \/ row[u].deleted \/ row[u].cleanup # "null"

IInv ==
    /\ TypeOK
    /\ \A u \in Uploads : client[u] = "new" => row[u] = NoRow
    /\ \A w \in Workers : worker[w] # None => JobInv(worker[w])
    /\ BatchInv
    /\ CopyInv
    /\ VerifiedFinal
    /\ Scheduled

-----------------------------------------------------------------------------
(* What a COMMIT does to a row. *)

\* A flushed row is a row.
LEMMA FlushIsRow ==
    ASSUME NEW now \in Row, NEW seen \in Row, NEW new \in Row, NEW same \in BOOLEAN
    PROVE  Flush(now, seen, new, same) \in Row
BY DEF Flush, Row

\* So is what a handler commits.
LEMMA WriteIsRow ==
    ASSUME TypeOK, NEW w \in Workers, worker[w] \in Job, NEW new \in Row, Write(w, new)
    PROVE  row' \in [Uploads -> Row]
<1>1. PICK same \in BOOLEAN :
         row' = [row EXCEPT ![worker[w].u] = Flush(@, worker[w].seen, new, same)]
  BY DEF Write
<1>2. row \in [Uploads -> Row] /\ worker[w].u \in Uploads /\ worker[w].seen \in Row
  BY DEF TypeOK, Job
<1>3. Flush(row[worker[w].u], worker[w].seen, new, same) \in Row
  BY <1>2, FlushIsRow
<1> QED BY <1>1, <1>2, <1>3

\* A handler that changes the state of the row it loaded without deleting it
\* leaves a row deleted meanwhile deleted; the scheduled time it sets is kept.
LEMMA FlushKeeps ==
    ASSUME NEW now \in Row, NEW seen \in Row, NEW new \in Row, NEW same \in BOOLEAN,
           seen.deleted => now.deleted,
           new.deleted = seen.deleted \/ new.deleted
    PROVE  /\ now.deleted => Flush(now, seen, new, same).deleted
           /\ new.deleted => Flush(now, seen, new, same).deleted
           /\ new.cleanup # "null" /\ (now.cleanup # "null" \/ ~same) =>
                 Flush(now, seen, new, same).cleanup # "null"
           /\ new.state # seen.state => Flush(now, seen, new, same).state = new.state
BY DEF Flush, Row

-----------------------------------------------------------------------------
(* Type correctness *)

LEMMA InitType == Init => TypeOK
BY RedeliveriesAssumption
   DEF Init, TypeOK, Row, NoRow, States, CleanupTimes, Objects, Sweep,
       IdleSweep, Outcomes

LEMMA ClientType ==
    ASSUME TypeOK, NEW u \in Uploads, ClientStep(u) \/ TimeStep(u)
    PROVE  TypeOK'
<1> USE DEF TypeOK, store, clientVars
<1>1. CASE CreateUpload(u)
  BY <1>1 DEF CreateUpload, Row, States, CleanupTimes
<1>2. CASE SendComplete(u)
  BY <1>2 DEF SendComplete, Send, Requests
<1>3. CASE GiveUp(u)
  BY <1>3 DEF GiveUp, Send, Requests
<1>4. CASE PublishAcknowledged(u)
  BY <1>4 DEF PublishAcknowledged, Send, Requests
<1>5. CASE PublishUnacknowledged(u)
  BY <1>5 DEF PublishUnacknowledged, Send, Requests
<1>6. CASE Redeliver(u)
  BY <1>6, RedeliveriesAssumption DEF Redeliver, Send, Requests
<1>7. CASE LeaveConversation(u)
  BY <1>7 DEF LeaveConversation
<1>8. ASSUME NEW c \in Contents, PutObject(u, c) PROVE TypeOK'
  BY <1>8 DEF PutObject, Objects
<1>9. CASE Age(u)
  BY <1>9 DEF Age
<1>10. CASE CleanupFallsDue(u)
  BY <1>10 DEF CleanupFallsDue, Row, CleanupTimes
<1> QED
  BY <1>1, <1>2, <1>3, <1>4, <1>5, <1>6, <1>7, <1>8, <1>9, <1>10
     DEF ClientStep, TimeStep

LEMMA RequestType ==
    ASSUME TypeOK, NEW w \in Workers, NEW u \in Uploads, RequestStep(w, u)
    PROVE  TypeOK'
<1> USE DEF TypeOK, store, clientVars
<1>1. ASSUME NEW step \in Steps, Begin(w, u, step)
      PROVE  worker' \in [Workers -> Job \cup {None}]
  BY <1>1 DEF Begin, Job, Objects
<1>2. CASE CompleteBegin(w, u)
  BY <1>2, <1>1 DEF CompleteBegin, Take, Steps
<1>3. CASE BindBegin(w, u)
  BY <1>3, <1>1 DEF BindBegin, Take, Steps
<1>4. CASE DiscardBegin(w, u)
  BY <1>4, <1>1 DEF DiscardBegin, Take, Steps
<1>5. CASE Refuse(w, u)
  BY <1>5 DEF Refuse, Take
<1> QED BY <1>2, <1>3, <1>4, <1>5 DEF RequestStep

LEMMA HandlerType ==
    ASSUME TypeOK, NEW w \in Workers, HandlerStep(w) \/ Abort(w)
    PROVE  TypeOK'
<1> USE DEF TypeOK, store, clientVars
<1>1. worker[w] # None
  BY DEF HandlerStep, Abort, At, CompleteStatFinal, CompleteStatPending, CompleteCheckContent,
         CompleteDropPending, CompleteCopy, CompleteStatCopy,
         CompleteRemovePending, CompleteCommit, BindCommit, DiscardMark,
         DiscardRemoveFinal, DiscardRemovePending, DiscardCommit
<1>2. /\ worker[w] \in Job
      /\ worker[w].u \in Uploads
      /\ worker[w].seen \in Row
  BY <1>1 DEF Job
<1>3. ASSUME NEW step \in Steps, Goto(w, step)
      PROVE  worker' \in [Workers -> Job \cup {None}]
  BY <1>2, <1>3 DEF Goto, Job
<1>4. Finish(w) => worker' \in [Workers -> Job \cup {None}]
  BY DEF Finish
<1>5. CASE CompleteStatFinal(w)
  BY <1>5, <1>3, <1>4 DEF CompleteStatFinal, Steps
<1>6. CASE CompleteStatPending(w)
  <2>1. pending[worker[w].u] \in Objects
    BY <1>2
  <2>2. [worker[w] EXCEPT !.pc = "content", !.etag = pending[worker[w].u]] \in Job
    BY <1>2, <2>1 DEF Job, Steps
  <2> QED BY <1>6, <2>2, <1>3, <1>4 DEF CompleteStatPending, Steps
<1>18. CASE CompleteCheckContent(w)
  BY <1>18, <1>3 DEF CompleteCheckContent, Steps
<1>7. CASE CompleteDropPending(w)
  BY <1>7, <1>4 DEF CompleteDropPending, Objects
<1>8. CASE CompleteCopy(w)
  <2>1. final' \in [Uploads -> Objects]
    BY <1>8, <1>2 DEF CompleteCopy
  <2> QED BY <1>8, <2>1, <1>3, <1>4 DEF CompleteCopy, Steps
<1>9. CASE CompleteStatCopy(w)
  <2>1. final' \in [Uploads -> Objects]
    BY <1>9, <1>2 DEF CompleteStatCopy, Objects
  <2> QED BY <1>9, <2>1, <1>3, <1>4 DEF CompleteStatCopy, Steps
<1>10. CASE CompleteRemovePending(w)
  <2>1. pending' \in [Uploads -> Objects]
    BY <1>10, <1>2 DEF CompleteRemovePending, Objects
  <2> QED BY <1>10, <2>1, <1>3 DEF CompleteRemovePending, Steps
<1>11. CASE CompleteCommit(w)
  <2>1. [worker[w].seen EXCEPT !.state = "PENDING_MESSAGE", !.cleanup = "ttl"] \in Row
    BY <1>2 DEF Row, States, CleanupTimes
  <2>2. Write(w, [worker[w].seen EXCEPT !.state = "PENDING_MESSAGE", !.cleanup = "ttl"])
    BY <1>11 DEF CompleteCommit
  <2>4. row' \in [Uploads -> Row]
    BY <1>2, <2>1, <2>2, WriteIsRow
  <2>5. client' \in [Uploads -> {"new", "uploading", "uploaded", "completing",
                                 "completed", "binding", "discarding"}]
    BY <1>11, <1>2 DEF CompleteCommit
  <2> QED BY <1>11, <2>4, <2>5, <1>4 DEF CompleteCommit
<1>12. CASE BindCommit(w)
  <2>1. [worker[w].seen EXCEPT !.state = "BOUND", !.cleanup = "null"] \in Row
    BY <1>2 DEF Row, States, CleanupTimes
  <2>2. /\ Write(w, [worker[w].seen EXCEPT !.state = "BOUND", !.cleanup = "null"])
        /\ bound' = bound \cup {worker[w].u}
    BY <1>12 DEF BindCommit
  <2>4. row' \in [Uploads -> Row] /\ bound' \in SUBSET Uploads
    BY <1>2, <2>1, <2>2, WriteIsRow
  <2> QED BY <1>12, <2>4, <1>4 DEF BindCommit
<1>13. CASE DiscardMark(w)
  <2>1. [worker[w].seen EXCEPT !.state = "PENDING_DELETE", !.cleanup = "due"] \in Row
    BY <1>2 DEF Row, States, CleanupTimes
  <2>2. Write(w, [worker[w].seen EXCEPT !.state = "PENDING_DELETE", !.cleanup = "due"])
    BY <1>13 DEF DiscardMark
  <2>4. row' \in [Uploads -> Row]
    BY <1>2, <2>1, <2>2, WriteIsRow
  <2> QED BY <1>13, <2>4, <1>3 DEF DiscardMark, Steps
<1>14. CASE DiscardRemoveFinal(w)
  <2>1. PICK removed \in BOOLEAN :
           /\ final' = IF removed THEN [final EXCEPT ![worker[w].u] = None] ELSE final
           /\ worker' = [worker EXCEPT ![w] =
                 [@ EXCEPT !.seen = row[worker[w].u],
                           !.pc = IF removed THEN "removeRest" ELSE "commitRetry"]]
    BY <1>14 DEF DiscardRemoveFinal
  <2>2. final' \in [Uploads -> Objects]
    BY <2>1 DEF Objects
  <2>3. worker' \in [Workers -> Job \cup {None}]
    BY <2>1, <1>2 DEF Job, Steps
  <2> QED BY <1>14, <2>2, <2>3 DEF DiscardRemoveFinal
<1>15. CASE DiscardRemovePending(w)
  <2>1. pending' \in [Uploads -> Objects]
    BY <1>15, <1>2 DEF DiscardRemovePending, Objects
  <2> QED BY <1>15, <2>1, <1>3 DEF DiscardRemovePending, Steps
<1>16. CASE DiscardCommit(w)
  <2>1. /\ [state |-> "CLEANED", deleted |-> TRUE, cleanup |-> "null"] \in Row
        /\ [worker[w].seen EXCEPT !.state = "RETRY", !.cleanup = "backoff"] \in Row
    BY <1>2 DEF Row, States, CleanupTimes
  <2>2. \E new \in Row : Write(w, new)
    BY <1>16, <2>1 DEF DiscardCommit
  <2>4. row' \in [Uploads -> Row]
    BY <1>2, <2>2, WriteIsRow
  <2> QED BY <1>16, <2>4, <1>4 DEF DiscardCommit
<1>17. CASE Abort(w)
  BY <1>17, <1>4 DEF Abort
<1> QED
  BY <1>5, <1>6, <1>7, <1>8, <1>9, <1>10, <1>11, <1>12, <1>13, <1>14, <1>15,
     <1>16, <1>17, <1>18 DEF HandlerStep

LEMMA SweepType ==
    ASSUME TypeOK, SweepStep
    PROVE  TypeOK'
<1> USE DEF TypeOK, store, clientVars
<1>1. IdleSweep \in Sweep
  BY DEF IdleSweep, Sweep, NoRow, Row, States, CleanupTimes, Outcomes
<1>2. CASE SweepSelect
  BY <1>2 DEF SweepSelect, Sweep, Outcomes
<1>3. CASE SweepCommit
  <2>1. ASSUME NEW u \in Uploads PROVE Swept(u) \in Row
    <3>1. sweep.seen[u] \in Row
      BY DEF Sweep
    <3> QED BY <3>1 DEF Swept, Row, States, CleanupTimes
  <2>2. ASSUME NEW u \in Uploads
        PROVE  Flush(row[u], sweep.seen[u], Swept(u), FALSE) \in Row
    BY <2>1, FlushIsRow DEF Sweep
  <2>3. row' \in [Uploads -> Row]
    BY <1>3, <2>2 DEF SweepCommit
  <2> QED BY <1>3, <2>3, <1>1 DEF SweepCommit
<1>4. CASE SweepAbort
  BY <1>4, <1>1 DEF SweepAbort
<1>5. ASSUME NEW u \in Uploads, SweepRemoveFinal(u) PROVE TypeOK'
  BY <1>5 DEF SweepRemoveFinal, Sweep, Outcomes, Objects
<1>6. ASSUME NEW u \in Uploads, SweepRemovePending(u) PROVE TypeOK'
  BY <1>6 DEF SweepRemovePending, Sweep, Outcomes, Objects
<1>7. ASSUME NEW u \in Uploads, SweepRemoveFails(u) PROVE TypeOK'
  BY <1>7 DEF SweepRemoveFails, Sweep, Outcomes
<1> QED BY <1>2, <1>3, <1>4, <1>5, <1>6, <1>7 DEF SweepStep

\* Every reachable state is well typed.
THEOREM TypeCorrect == Spec => []TypeOK
<1>1. TypeOK /\ [Next]_vars => TypeOK'
  <2> SUFFICES ASSUME TypeOK, [Next]_vars PROVE TypeOK'
    OBVIOUS
  <2>1. ASSUME NEW r \in Requests, LoseRequest(r) PROVE TypeOK'
    BY <2>1 DEF LoseRequest, TypeOK, store, clientVars
  <2>2. CASE UNCHANGED vars
    BY <2>2 DEF vars, TypeOK
  <2> QED
    BY <2>1, <2>2, ClientType, RequestType, HandlerType, SweepType DEF Next
<1> QED BY <1>1, InitType, PTL DEF Spec

-----------------------------------------------------------------------------
(* The job of one handler *)

\* The handler that takes a step has a job.
LEMMA HandlerJob ==
    ASSUME TypeOK, NEW w \in Workers, HandlerStep(w) \/ Abort(w)
    PROVE  worker[w] # None /\ worker[w] \in Job /\ worker[w].u \in Uploads
<1> USE DEF TypeOK, store, clientVars
<1>1. worker[w] # None
  BY DEF HandlerStep, Abort, At, CompleteStatFinal, CompleteStatPending, CompleteCheckContent,
     CompleteDropPending, CompleteCopy, CompleteStatCopy,
     CompleteRemovePending, CompleteCommit, BindCommit, DiscardMark,
     DiscardRemoveFinal, DiscardRemovePending, DiscardCommit
<1> QED  BY <1>1 DEF TypeOK, Job

\* What a handler other than a copy does to the objects.
LEMMA HandlerFinal ==
    ASSUME TypeOK, NEW w \in Workers, HandlerStep(w) \/ Abort(w), ~CompleteCopy(w)
    PROVE  \/ UNCHANGED final
           \/ final' = [final EXCEPT ![worker[w].u] = None]
<1> USE DEF store, clientVars
<1>1. CASE CompleteStatCopy(w)
  BY <1>1 DEF CompleteStatCopy
<1>3. CASE DiscardRemoveFinal(w)
  BY <1>3 DEF DiscardRemoveFinal
<1>2. CASE ~CompleteStatCopy(w) /\ ~DiscardRemoveFinal(w)
  BY <1>2 DEF HandlerStep, Abort, CompleteStatFinal,
     CompleteStatPending, CompleteCheckContent, CompleteDropPending, CompleteRemovePending,
     CompleteCommit, BindCommit, DiscardMark, DiscardRemovePending,
     DiscardCommit
<1> QED  BY <1>1, <1>2, <1>3

\* Where a handler goes that has looked at the pending object.
LEMMA StatPendingGoes ==
    ASSUME TypeOK, NEW w \in Workers, CompleteStatPending(w)
    PROVE  \/ worker'[w] = None
           \/ worker'[w] \in Job /\ worker'[w].u = worker[w].u
<1> USE DEF TypeOK
<1>1. worker[w] # None /\ worker[w] \in Job
  BY HandlerJob DEF HandlerStep, Job
<1>2. \/ Goto(w, "dropPending") \/ Finish(w)
      \/ \E e \in Fitting : worker' = [worker EXCEPT ![w] =
                             [@ EXCEPT !.pc = "content", !.etag = e]]
  BY DEF CompleteStatPending
<1>3. CASE Goto(w, "dropPending") \/ Finish(w)
  BY <1>1, <1>3 DEF Goto, Finish, Job, Steps
<1>4. ASSUME NEW e \in Fitting,
             worker' = [worker EXCEPT ![w] = [@ EXCEPT !.pc = "content", !.etag = e]]
      PROVE  worker'[w] \in Job /\ worker'[w].u = worker[w].u
  BY <1>1, <1>4, ContentsAssumption DEF Job, Objects, Steps
<1> QED  BY <1>2, <1>3, <1>4

\* Only the content check sends a handler on to the copy.
LEMMA HandlerGoes ==
    ASSUME TypeOK, NEW w \in Workers, HandlerStep(w) \/ Abort(w), ~CompleteCheckContent(w)
    PROVE  /\ \A v \in Workers : v # w => worker'[v] = worker[v]
           /\ worker'[w] = None \/ worker'[w].pc # "copy"
<1>1. worker \in [Workers -> Job \cup {None}] /\ worker[w] \in Job
  BY HandlerJob DEF TypeOK
<1> USE DEF store, clientVars
<1>2. CASE DiscardRemoveFinal(w)
  <2>1. PICK step \in {"removeRest", "commitRetry"} :
           worker' = [worker EXCEPT ![w] =
              [@ EXCEPT !.seen = row[worker[w].u], !.pc = step]]
    BY <1>2 DEF DiscardRemoveFinal
  <2> QED  BY <1>1, <2>1 DEF Job
<1>3. CASE CompleteStatPending(w)
  <2>1. \/ Goto(w, "dropPending") \/ Finish(w)
        \/ \E e \in Fitting : worker' = [worker EXCEPT ![w] =
                               [@ EXCEPT !.pc = "content", !.etag = e]]
    BY <1>3 DEF CompleteStatPending
  <2>2. CASE Goto(w, "dropPending") \/ Finish(w)
    BY <1>1, <2>2 DEF Goto, Finish, Job
  <2>3. ASSUME NEW e \in Fitting, worker' = [worker EXCEPT ![w] =
                               [@ EXCEPT !.pc = "content", !.etag = e]]
        PROVE  /\ \A v \in Workers : v # w => worker'[v] = worker[v]
               /\ worker'[w].pc # "copy"
    BY <1>1, <2>3 DEF Job
  <2> QED  BY <2>1, <2>2, <2>3
<1>4. CASE ~DiscardRemoveFinal(w) /\ ~CompleteStatPending(w)
  <2>1. Finish(w) \/ \E step \in Steps \ {"copy"} : Goto(w, step)
    BY <1>4 DEF HandlerStep, Abort, Steps, CompleteStatFinal, CompleteDropPending,
       CompleteCopy, CompleteStatCopy, CompleteRemovePending, CompleteCommit,
       BindCommit, DiscardMark, DiscardRemovePending, DiscardCommit
  <2> QED  BY <1>1, <2>1 DEF Goto, Finish, Job
<1> QED  BY <1>2, <1>3, <1>4

-----------------------------------------------------------------------------
(* What one commit, and one commit of the cleanup job, do to the registry *)

\* A handler's commit changes only its own row: it never brings a deleted row
\* back, and leaves a row that was never bound deleted or scheduled.
LEMMA CommitFacts ==
    ASSUME IInv, NEW w \in Workers,
           CompleteCommit(w) \/ BindCommit(w) \/ DiscardMark(w) \/ DiscardCommit(w)
    PROVE  \E u \in Uploads, r \in Row :
              /\ row' = [row EXCEPT ![u] = r]
              /\ client[u] # "new"
              /\ row[u].deleted => r.deleted
              /\ u \in bound' \/ r.deleted \/ r.cleanup # "null"
<1> USE DEF store, clientVars
<1> DEFINE u == worker[w].u
           seen == worker[w].seen
<1>1. worker[w] # None
  BY DEF At, CompleteCommit, BindCommit, DiscardMark, DiscardCommit
<1>2. /\ u \in Uploads /\ seen \in Row /\ row[u] \in Row
      /\ JobInv(worker[w])
  BY <1>1 DEF IInv, TypeOK, Job
<1>3. client[u] # "new" /\ (seen.deleted => row[u].deleted)
  BY <1>2 DEF JobInv
<1>4. SUFFICES \E new \in Row : /\ Write(w, new)
                                /\ new.deleted = seen.deleted \/ new.deleted
                                /\ \/ u \in bound'
                                   \/ new.deleted
                                   \/ new.cleanup # "null" /\ bound' = bound
  <2>1. PICK new \in Row : /\ Write(w, new)
                           /\ new.deleted = seen.deleted \/ new.deleted
                           /\ \/ u \in bound'
                              \/ new.deleted
                              \/ new.cleanup # "null" /\ bound' = bound
    BY <1>4
  <2>2. PICK same \in BOOLEAN : row' = [row EXCEPT ![u] = Flush(@, seen, new, same)]
    BY <2>1 DEF Write
  <2> DEFINE r == Flush(row[u], seen, new, same)
  <2>3. r \in Row
    BY <1>2, <2>1, <2>2, FlushIsRow
  <2>4. /\ row[u].deleted => r.deleted
        /\ new.deleted => r.deleted
        /\ new.cleanup # "null" /\ row[u].cleanup # "null" => r.cleanup # "null"
    BY <1>2, <1>3, <2>1, <2>2, FlushKeeps
  <2>5. u \in bound \/ row[u].deleted \/ row[u].cleanup # "null"
    BY <1>2, <1>3 DEF IInv, Scheduled
  <2>6. /\ r \in Row /\ row' = [row EXCEPT ![u] = r]
        /\ row[u].deleted => r.deleted
        /\ u \in bound' \/ r.deleted \/ r.cleanup # "null"
    BY <2>1, <2>2, <2>3, <2>4, <2>5
  <2> HIDE DEF r
  <2> QED BY <1>2, <1>3, <2>6
<1>5. CASE CompleteCommit(w)
  <2>1. [seen EXCEPT !.state = "PENDING_MESSAGE", !.cleanup = "ttl"] \in Row
    BY <1>2 DEF Row, States, CleanupTimes
  <2> QED BY <1>5, <1>2, <2>1 DEF CompleteCommit, Row
<1>6. CASE BindCommit(w)
  <2>1. [seen EXCEPT !.state = "BOUND", !.cleanup = "null"] \in Row
    BY <1>2 DEF Row, States, CleanupTimes
  <2> QED BY <1>6, <1>2, <2>1 DEF BindCommit, Row
<1>7. CASE DiscardMark(w)
  <2>1. [seen EXCEPT !.state = "PENDING_DELETE", !.cleanup = "due"] \in Row
    BY <1>2 DEF Row, States, CleanupTimes
  <2> QED BY <1>7, <1>2, <2>1 DEF DiscardMark, Row
<1>8. CASE DiscardCommit(w)
  <2>1. /\ [state |-> "CLEANED", deleted |-> TRUE, cleanup |-> "null"] \in Row
        /\ [seen EXCEPT !.state = "RETRY", !.cleanup = "backoff"] \in Row
    BY <1>2 DEF Row, States, CleanupTimes
  <2> QED BY <1>8, <1>2, <2>1 DEF DiscardCommit, Row
<1> QED BY <1>5, <1>6, <1>7, <1>8

\* The same of every row in the batch of the cleanup job.
LEMMA SweepCommitFacts ==
    ASSUME IInv, SweepCommit, NEW u \in Uploads
    PROVE  /\ row[u].deleted => row'[u].deleted
           /\ client[u] = "new" => row'[u] = row[u]
           /\ row'[u] = row[u] \/ row'[u].deleted \/ row'[u].cleanup # "null"
<1>1. CASE u \notin sweep.batch
  BY <1>1 DEF SweepCommit, IInv, TypeOK
<1>2. CASE u \in sweep.batch
  <2> DEFINE seen == sweep.seen[u]
  <2>1. /\ seen \in Row /\ row[u] \in Row
        /\ client[u] # "new" /\ (seen.deleted => row[u].deleted)
    BY <1>2 DEF IInv, TypeOK, Sweep, BatchInv
  <2>2. /\ Swept(u) \in Row
        /\ Swept(u).deleted = seen.deleted \/ Swept(u).deleted
        /\ Swept(u).deleted \/ Swept(u).cleanup # "null"
    BY <2>1 DEF Swept, Row, States, CleanupTimes
  <2>3. row'[u] = Flush(row[u], seen, Swept(u), FALSE)
    BY <1>2 DEF SweepCommit
  <2> HIDE DEF seen
  <2>4. /\ row[u].deleted => row'[u].deleted
        /\ Swept(u).deleted => row'[u].deleted
        /\ Swept(u).cleanup # "null" => row'[u].cleanup # "null"
    BY <2>1, <2>2, <2>3 DEF Flush, Row
  <2> QED BY <2>1, <2>2, <2>4
<1> QED BY <1>1, <1>2

-----------------------------------------------------------------------------
(* The inductive invariant, one conjunct after the other *)

RegistryCommit(w) ==
    CompleteCommit(w) \/ BindCommit(w) \/ DiscardMark(w) \/ DiscardCommit(w)

\* Which steps write the registry at all.
LEMMA WhoWritesRows ==
    ASSUME Next
    PROVE  \/ UNCHANGED row
           \/ \E u \in Uploads : CreateUpload(u) \/ CleanupFallsDue(u)
           \/ \E w \in Workers : RegistryCommit(w)
           \/ SweepCommit
<1> USE DEF store, clientVars
<1>1. ASSUME NEW u \in Uploads, ClientStep(u) \/ TimeStep(u)
      PROVE  UNCHANGED row \/ CreateUpload(u) \/ CleanupFallsDue(u)
  BY <1>1 DEF ClientStep, TimeStep, SendComplete, GiveUp, PublishAcknowledged,
        PublishUnacknowledged, Redeliver, LeaveConversation, PutObject, Age
<1>2. ASSUME NEW r \in Requests, LoseRequest(r) PROVE UNCHANGED row
  BY <1>2 DEF LoseRequest
<1>3. ASSUME NEW w \in Workers, NEW u \in Uploads, RequestStep(w, u)
      PROVE  UNCHANGED row
  BY <1>3 DEF RequestStep, CompleteBegin, BindBegin, DiscardBegin, Refuse
<1>4. ASSUME NEW w \in Workers, HandlerStep(w) \/ Abort(w)
      PROVE  UNCHANGED row \/ RegistryCommit(w)
  BY <1>4 DEF HandlerStep, RegistryCommit, Abort, CompleteStatFinal,
        CompleteStatPending, CompleteCheckContent, CompleteDropPending, CompleteCopy,
        CompleteStatCopy, CompleteRemovePending, DiscardRemoveFinal,
        DiscardRemovePending
<1>5. CASE SweepStep
  BY <1>5 DEF SweepStep, SweepSelect, SweepAbort, SweepRemoveFinal,
        SweepRemovePending, SweepRemoveFails
<1> QED BY <1>1, <1>2, <1>3, <1>4, <1>5 DEF Next

\* The client never becomes new again, and only starts by creating its upload.
LEMMA ClientNeverNew ==
    ASSUME TypeOK, Next, NEW u \in Uploads
    PROVE  /\ client'[u] = "new" => client[u] = "new" /\ ~CreateUpload(u)
           /\ client[u] = "new" /\ ~CreateUpload(u) => client'[u] = "new"
<1> USE DEF TypeOK, store, clientVars
<1>1. ASSUME NEW v \in Uploads, ClientStep(v) \/ TimeStep(v)
      PROVE  /\ client'[u] = "new" => client[u] = "new"
             /\ client[u] = "new" /\ ~CreateUpload(u) => client'[u] = "new"
  BY <1>1 DEF ClientStep, TimeStep, CreateUpload, SendComplete, GiveUp,
        PublishAcknowledged, PublishUnacknowledged, Redeliver,
        LeaveConversation, PutObject, Age, CleanupFallsDue
<1>2. ASSUME NEW r \in Requests, LoseRequest(r) PROVE UNCHANGED client
  BY <1>2 DEF LoseRequest
<1>3. ASSUME NEW w \in Workers, NEW v \in Uploads, RequestStep(w, v)
      PROVE  UNCHANGED client
  BY <1>3 DEF RequestStep, CompleteBegin, BindBegin, DiscardBegin, Refuse
<1>4. ASSUME NEW w \in Workers, HandlerStep(w) \/ Abort(w)
      PROVE  client'[u] = "new" <=> client[u] = "new"
  <2>1. CASE CompleteCommit(w)
    BY <2>1 DEF CompleteCommit
  <2>2. CASE ~CompleteCommit(w)
    BY <1>4, <2>2 DEF HandlerStep, Abort, CompleteStatFinal,
        CompleteStatPending, CompleteCheckContent, CompleteDropPending,
        CompleteCopy, CompleteStatCopy, CompleteRemovePending, BindCommit,
        DiscardMark, DiscardRemoveFinal, DiscardRemovePending, DiscardCommit
  <2> QED BY <2>1, <2>2
<1>5. SweepStep => UNCHANGED client
  BY DEF SweepStep, SweepSelect, SweepCommit, SweepAbort, SweepRemoveFinal,
        SweepRemovePending, SweepRemoveFails
<1>6. CreateUpload(u) => client'[u] # "new"
  BY DEF CreateUpload
<1> QED BY <1>1, <1>2, <1>3, <1>4, <1>5, <1>6 DEF Next

\* The histories only grow.
LEMMA HistoryGrows ==
    ASSUME Next
    PROVE  bound \subseteq bound' /\ swapped \subseteq swapped'
<1> USE DEF store, clientVars
<1>1. ASSUME NEW v \in Uploads, ClientStep(v) \/ TimeStep(v)
      PROVE  bound' = bound /\ swapped \subseteq swapped'
  BY <1>1 DEF ClientStep, TimeStep, CreateUpload, SendComplete, GiveUp,
        PublishAcknowledged, PublishUnacknowledged, Redeliver,
        LeaveConversation, PutObject, Age, CleanupFallsDue
<1>2. ASSUME NEW r \in Requests, LoseRequest(r) PROVE UNCHANGED <<bound, swapped>>
  BY <1>2 DEF LoseRequest
<1>3. ASSUME NEW w \in Workers, NEW v \in Uploads, RequestStep(w, v)
      PROVE  UNCHANGED <<bound, swapped>>
  BY <1>3 DEF RequestStep, CompleteBegin, BindBegin, DiscardBegin, Refuse
<1>4. ASSUME NEW w \in Workers, HandlerStep(w) \/ Abort(w)
      PROVE  bound \subseteq bound' /\ swapped' = swapped
  BY <1>4 DEF HandlerStep, Abort, CompleteStatFinal, CompleteStatPending,
        CompleteCheckContent, CompleteDropPending, CompleteCopy,
        CompleteStatCopy, CompleteRemovePending, CompleteCommit, BindCommit,
        DiscardMark, DiscardRemoveFinal, DiscardRemovePending, DiscardCommit
<1>5. SweepStep => UNCHANGED <<bound, swapped>>
  BY DEF SweepStep, SweepSelect, SweepCommit, SweepAbort, SweepRemoveFinal,
        SweepRemovePending, SweepRemoveFails
<1> QED BY <1>1, <1>2, <1>3, <1>4, <1>5 DEF Next

\* No step brings a deleted row back, forgets to schedule an unbound one, or
\* writes the row of an upload that was not created.
LEMMA RowFacts ==
    ASSUME IInv, Next, NEW u \in Uploads
    PROVE  /\ row[u].deleted => row'[u].deleted
           /\ client'[u] = "new" => row'[u] = NoRow
           /\ \/ u \in bound' \/ client'[u] = "new"
              \/ row'[u].deleted \/ row'[u].cleanup # "null"
<1> DEFINE Fine == \/ u \in bound' \/ client'[u] = "new"
                   \/ row'[u].deleted \/ row'[u].cleanup # "null"
<1>1. /\ row \in [Uploads -> Row]
      /\ client'[u] = "new" => client[u] = "new" /\ ~CreateUpload(u)
      /\ client[u] = "new" => row[u] = NoRow
      /\ u \in bound \/ client[u] = "new" \/ row[u].deleted \/ row[u].cleanup # "null"
      /\ u \in bound => u \in bound'
      /\ client[u] = "new" /\ ~CreateUpload(u) => client'[u] = "new"
  BY ClientNeverNew, HistoryGrows DEF IInv, TypeOK, Scheduled
<1>2. CASE UNCHANGED row
  <2>1. CreateUpload(u) => row'[u].cleanup # "null"
    BY <1>1 DEF CreateUpload
  <2> QED BY <1>1, <1>2, <2>1
<1>3. ASSUME NEW v \in Uploads, CreateUpload(v)
      PROVE  /\ row[u].deleted => row'[u].deleted
             /\ client'[u] = "new" => row'[u] = NoRow
             /\ Fine
  <2>1. CASE u = v
    <3>1. row[u] = NoRow
      BY <1>1, <1>3, <2>1 DEF CreateUpload
    <3>2. row'[u] = [state |-> "PENDING_UPLOAD", deleted |-> FALSE, cleanup |-> "ttl"]
      BY <1>1, <1>3, <2>1 DEF CreateUpload
    <3> QED BY <1>1, <1>3, <2>1, <3>1, <3>2 DEF NoRow
  <2>2. CASE u # v
    BY <1>1, <1>3, <2>2 DEF CreateUpload
  <2> QED BY <2>1, <2>2
<1>4. ASSUME NEW v \in Uploads, CleanupFallsDue(v)
      PROVE  /\ row[u].deleted => row'[u].deleted
             /\ client'[u] = "new" => row'[u] = NoRow
             /\ Fine
  <2>1. CASE u = v
    <3>1. row[u].cleanup # "null" /\ row'[u] = [row[u] EXCEPT !.cleanup = "due"]
      BY <1>1, <1>4, <2>1 DEF CleanupFallsDue
    <3>2. client[u] # "new"
      BY <1>1, <3>1 DEF NoRow
    <3> QED BY <1>1, <3>1, <3>2 DEF Row
  <2>2. CASE u # v
    BY <1>1, <1>4, <2>2 DEF CleanupFallsDue
  <2> QED BY <2>1, <2>2
<1>5. ASSUME NEW w \in Workers, RegistryCommit(w)
      PROVE  /\ row[u].deleted => row'[u].deleted
             /\ client'[u] = "new" => row'[u] = NoRow
             /\ Fine
  <2>1. PICK v \in Uploads, r \in Row :
           /\ row' = [row EXCEPT ![v] = r]
           /\ client[v] # "new"
           /\ row[v].deleted => r.deleted
           /\ v \in bound' \/ r.deleted \/ r.cleanup # "null"
    BY <1>5, CommitFacts DEF RegistryCommit
  <2>2. CASE u = v
    <3>1. row'[u] = r /\ client[u] # "new"
      BY <1>1, <2>1, <2>2
    <3> QED BY <1>1, <2>1, <2>2, <3>1
  <2>3. CASE u # v
    <3>1. row'[u] = row[u]
      BY <1>1, <2>1, <2>3
    <3>2. CASE ~CreateUpload(u)
      BY <1>1, <3>1, <3>2
    <3> QED BY <1>3, <3>2
  <2> QED BY <2>2, <2>3
<1>6. CASE SweepCommit
  BY <1>1, <1>3, <1>6, SweepCommitFacts
<1> QED BY <1>2, <1>3, <1>4, <1>5, <1>6, WhoWritesRows

\* The job of a handler stays in order, whoever takes the step.
LEMMA JobsKept ==
    ASSUME IInv, Next, NEW w \in Workers, worker'[w] # None
    PROVE  JobInv(worker[w])'
<1> USE DEF store, clientVars
<1>1. /\ TypeOK
      /\ worker \in [Workers -> Job \cup {None}]
      /\ \A u \in Uploads : /\ row[u].deleted => row'[u].deleted
                            /\ client[u] # "new" => client'[u] # "new"
  BY RowFacts, ClientNeverNew DEF IInv, TypeOK
<1>2. ASSUME worker'[w] = worker[w]
      PROVE  JobInv(worker[w])'
  <2>1. worker[w] # None /\ worker[w] \in Job /\ JobInv(worker[w])
    BY <1>1, <1>2 DEF IInv
  <2> QED BY <1>1, <1>2, <2>1 DEF JobInv, Job
<1>3. ASSUME NEW u \in Uploads, ClientStep(u) \/ TimeStep(u)
      PROVE  UNCHANGED worker
  BY <1>3 DEF ClientStep, TimeStep, CreateUpload, SendComplete, GiveUp,
        PublishAcknowledged, PublishUnacknowledged, Redeliver,
        LeaveConversation, PutObject, Age, CleanupFallsDue
<1>4. ASSUME NEW r \in Requests, LoseRequest(r) PROVE UNCHANGED worker
  BY <1>4 DEF LoseRequest
<1>5. SweepStep => UNCHANGED worker
  BY DEF SweepStep, SweepSelect, SweepCommit, SweepAbort, SweepRemoveFinal,
        SweepRemovePending, SweepRemoveFails
<1>6. ASSUME NEW v \in Workers, NEW u \in Uploads, RequestStep(v, u)
      PROVE  JobInv(worker[w])'
  <2>1. CASE w # v \/ Refuse(v, u)
    BY <1>1, <1>2, <1>6, <2>1 DEF RequestStep, CompleteBegin, BindBegin,
          DiscardBegin, Refuse, Begin
  <2>2. CASE w = v /\ ~Refuse(v, u)
    <3>1. PICK step \in {"statFinal", "commitBind", "markDelete"} :
             /\ worker' = [worker EXCEPT ![w] = [u |-> u, pc |-> step,
                               seen |-> row[u], etag |-> None]]
             /\ step = "commitBind" => row[u].state = "PENDING_MESSAGE"
             /\ row[u].state # "NO_ROW"
             /\ UNCHANGED <<row, client>>
      BY <1>6, <2>2 DEF RequestStep, CompleteBegin, BindBegin, DiscardBegin,
            Begin, Admitted, Registered
    <3>2. worker'[w] = [u |-> u, pc |-> step, seen |-> row[u], etag |-> None]
      BY <1>1, <3>1
    <3>3. client[u] # "new"
      BY <3>1 DEF IInv, NoRow
    <3> QED BY <3>1, <3>2, <3>3 DEF JobInv
  <2> QED BY <2>1, <2>2
<1>7. ASSUME NEW v \in Workers, HandlerStep(v) \/ Abort(v)
      PROVE  JobInv(worker[w])'
  <2>1. CASE w # v
    <3>1. worker'[w] = worker[w]
      BY <1>1, <1>7, <2>1 DEF HandlerStep, Abort, Finish, Goto,
        CompleteStatFinal, CompleteStatPending, CompleteCheckContent, CompleteDropPending,
        CompleteCopy, CompleteStatCopy, CompleteRemovePending,
        CompleteCommit, BindCommit, DiscardMark, DiscardRemoveFinal,
        DiscardRemovePending, DiscardCommit
    <3> QED BY <1>2, <3>1
  <2>2. CASE w = v
    <3>1. worker[w] # None
      BY <1>7, <2>2 DEF HandlerStep, Abort, At, CompleteStatFinal,
        CompleteStatPending, CompleteCheckContent, CompleteDropPending, CompleteCopy,
        CompleteStatCopy, CompleteRemovePending, CompleteCommit, BindCommit,
        DiscardMark, DiscardRemoveFinal, DiscardRemovePending, DiscardCommit
    <3>2. worker[w] \in Job /\ worker[w].u \in Uploads /\ JobInv(worker[w])
      BY <1>1, <3>1 DEF IInv, Job
    <3>3. CASE CompleteStatPending(w)
      <4>1. \/ Goto(w, "dropPending") \/ Finish(w)
            \/ \E e \in Fitting : worker' = [worker EXCEPT ![w] =
                                   [@ EXCEPT !.pc = "content", !.etag = e]]
        BY <3>3 DEF CompleteStatPending
      <4>2. UNCHANGED <<row, client>>
        BY <3>3 DEF CompleteStatPending
      <4> QED BY <1>1, <3>2, <4>1, <4>2, ZenonT(60) DEF Goto, Finish, JobInv, Job
    <3>4. CASE DiscardRemoveFinal(w)
      <4>1. /\ UNCHANGED <<row, client>>
            /\ \E step \in {"removeRest", "commitRetry"} :
                  worker' = [worker EXCEPT ![w] =
                     [@ EXCEPT !.seen = row[worker[w].u], !.pc = step]]
        BY <3>4 DEF DiscardRemoveFinal
      <4> QED BY <1>1, <3>2, <4>1 DEF JobInv, Job
    <3>6. CASE CompleteCheckContent(w)
      <4>1. /\ UNCHANGED <<row, client>> /\ worker[w].pc = "content"
            /\ Goto(w, "copy") \/ Goto(w, "dropPending")
        BY <3>6 DEF CompleteCheckContent, At
      <4>2. PICK step \in {"copy", "dropPending"} :
               worker'[w] = [worker[w] EXCEPT !.pc = step]
        BY <1>1, <4>1 DEF Goto
      <4> QED BY <1>1, <3>2, <4>1, <4>2 DEF JobInv, Job
    <3>5. CASE /\ ~CompleteStatPending(w) /\ ~DiscardRemoveFinal(w)
               /\ ~CompleteCheckContent(w)
      <4>1. \/ Finish(w)
            \/ \E step \in Steps \ {"content", "copy", "commitBind"} : Goto(w, step)
        BY <1>7, <2>2, <3>5 DEF HandlerStep, Abort, Steps, CompleteStatFinal,
          CompleteDropPending, CompleteCopy, CompleteStatCopy,
          CompleteRemovePending, CompleteCommit, BindCommit, DiscardMark,
          DiscardRemovePending, DiscardCommit
      <4>2. PICK step \in Steps \ {"content", "copy", "commitBind"} : Goto(w, step)
        BY <1>1, <4>1 DEF Finish
      <4>3. worker'[w] = [worker[w] EXCEPT !.pc = step]
        BY <1>1, <4>2 DEF Goto
      <4> QED BY <1>1, <3>2, <4>2, <4>3 DEF JobInv, Job
    <3> QED BY <3>3, <3>4, <3>5, <3>6
  <2> QED BY <2>1, <2>2
<1> QED BY <1>2, <1>3, <1>4, <1>5, <1>6, <1>7 DEF Next

\* The rows the cleanup job works from stay in order.
LEMMA BatchKept ==
    ASSUME IInv, Next
    PROVE  BatchInv'
<1> USE DEF store, clientVars
<1>1. /\ TypeOK
      /\ \A u \in Uploads : /\ row[u].deleted => row'[u].deleted
                            /\ client[u] # "new" => client'[u] # "new"
  BY RowFacts, ClientNeverNew DEF IInv
<1>2. sweep \in Sweep
  BY <1>1 DEF TypeOK
<1>3. ASSUME sweep'.batch = sweep.batch, sweep'.seen = sweep.seen
      PROVE  BatchInv'
  BY <1>1, <1>2, <1>3 DEF IInv, BatchInv, Sweep
<1>4. CASE SweepSelect
  <2>1. \A u \in Uploads : Sweepable(u) => client[u] # "new"
    BY DEF Sweepable, Registered, IInv, NoRow
  <2> QED BY <1>1, <1>4, <2>1 DEF SweepSelect, BatchInv
<1>5. CASE SweepCommit \/ SweepAbort
  <2>1. sweep' = IdleSweep
    BY <1>5 DEF SweepCommit, SweepAbort
  <2>2. sweep'.batch = {}
    BY <2>1 DEF IdleSweep
  <2> QED BY <2>2 DEF BatchInv
<1>6. ASSUME NEW u \in Uploads,
             SweepRemoveFinal(u) \/ SweepRemovePending(u) \/ SweepRemoveFails(u)
      PROVE  sweep'.batch = sweep.batch /\ sweep'.seen = sweep.seen
  BY <1>2, <1>6 DEF SweepRemoveFinal, SweepRemovePending, SweepRemoveFails, Sweep
<1>7. ASSUME NEW u \in Uploads, ClientStep(u) \/ TimeStep(u)
      PROVE  UNCHANGED sweep
  BY <1>7 DEF ClientStep, TimeStep, CreateUpload, SendComplete, GiveUp,
        PublishAcknowledged, PublishUnacknowledged, Redeliver,
        LeaveConversation, PutObject, Age, CleanupFallsDue
<1>8. ASSUME NEW r \in Requests, LoseRequest(r) PROVE UNCHANGED sweep
  BY <1>8 DEF LoseRequest
<1>9. ASSUME NEW w \in Workers, NEW u \in Uploads, RequestStep(w, u)
      PROVE  UNCHANGED sweep
  BY <1>9 DEF RequestStep, CompleteBegin, BindBegin, DiscardBegin, Refuse
<1>10. ASSUME NEW w \in Workers, HandlerStep(w) \/ Abort(w)
       PROVE  UNCHANGED sweep
  BY <1>10 DEF HandlerStep, Abort, CompleteStatFinal, CompleteStatPending, CompleteCheckContent,
        CompleteDropPending, CompleteCopy, CompleteStatCopy,
        CompleteRemovePending, CompleteCommit, BindCommit, DiscardMark,
        DiscardRemoveFinal, DiscardRemovePending, DiscardCommit
<1> QED BY <1>3, <1>4, <1>5, <1>6, <1>7, <1>8, <1>9, <1>10 DEF Next, SweepStep

\* The content check lets a version pass that is replaced before the copy only.
LEMMA CopiesKept ==
    ASSUME IInv, Next
    PROVE  CopyInv'
<1> USE DEF store, clientVars
<1>1. /\ worker \in [Workers -> Job \cup {None}] /\ pending \in [Uploads -> Objects]
      /\ swapped \subseteq swapped' /\ CopyInv
      /\ \A w \in Workers : worker[w] # None /\ worker[w].pc = "copy" =>
            /\ worker[w].u \in Uploads /\ worker[w].etag # None
            /\ worker[w].etag \in Contents
  BY HistoryGrows, NoneAssumption, ContentsAssumption DEF IInv, TypeOK, JobInv, Job
<1>2. ASSUME UNCHANGED <<worker, pending>> PROVE CopyInv'
  BY <1>1, <1>2 DEF CopyInv
<1>3. ASSUME NEW u \in Uploads, pending' = [pending EXCEPT ![u] = None],
             \A w \in Workers : \/ worker'[w] = worker[w] \/ worker'[w] = None
                               \/ worker'[w].pc # "copy"
      PROVE  CopyInv'
  BY <1>1, <1>3 DEF CopyInv
<1>4. ASSUME NEW u \in Uploads, NEW c \in Contents, PutObject(u, c) PROVE CopyInv'
  <2> SUFFICES ASSUME NEW w \in Workers, worker[w] # None, worker[w].pc = "copy"
               PROVE  \/ worker[w].etag \in Genuine
                      \/ worker[w].etag # pending'[worker[w].u]
                      \/ worker[w].u \in swapped'
    BY <1>4 DEF PutObject, CopyInv
  <2>1. CASE worker[w].u # u
    BY <1>1, <1>4, <2>1 DEF PutObject, CopyInv
  <2>2. CASE worker[w].u = u /\ worker[w].etag # c
    BY <1>1, <1>4, <2>2 DEF PutObject
  <2>3. CASE worker[w].u = u /\ worker[w].etag = c
    <3>1. AboutToCopy(u, c)
      BY <2>3 DEF AboutToCopy
    <3> QED  BY <1>4, <2>3, <3>1 DEF PutObject
  <2> QED  BY <2>1, <2>2, <2>3
<1>5. ASSUME NEW u \in Uploads, ClientStep(u) \/ TimeStep(u) PROVE CopyInv'
  BY <1>2, <1>4, <1>5 DEF ClientStep, TimeStep, CreateUpload, SendComplete, GiveUp,
        PublishAcknowledged, PublishUnacknowledged, Redeliver,
        LeaveConversation, Age, CleanupFallsDue
<1>6. ASSUME NEW r \in Requests, LoseRequest(r) PROVE CopyInv'
  BY <1>2, <1>6 DEF LoseRequest
<1>7. ASSUME \A w \in Workers : \/ worker'[w] = worker[w] \/ worker'[w] = None
                                 \/ worker'[w].pc # "copy",
             UNCHANGED pending
      PROVE  CopyInv'
  BY <1>1, <1>7 DEF CopyInv
<1>8. ASSUME NEW w \in Workers, NEW u \in Uploads, RequestStep(w, u) PROVE CopyInv'
  <2>1. CASE Refuse(w, u)
    BY <1>2, <2>1 DEF Refuse
  <2>2. CASE ~Refuse(w, u)
    <3>1. /\ \E step \in {"statFinal", "commitBind", "markDelete"} : Begin(w, u, step)
          /\ UNCHANGED pending
      BY <1>8, <2>2 DEF RequestStep, CompleteBegin, BindBegin, DiscardBegin
    <3>2. \A v \in Workers : worker'[v] = worker[v] \/ worker'[v].pc # "copy"
      BY <1>1, <3>1 DEF Begin
    <3> QED  BY <1>7, <3>1, <3>2
  <2> QED  BY <2>1, <2>2
<1>9. ASSUME NEW w \in Workers, HandlerStep(w) \/ Abort(w) PROVE CopyInv'
  <2>1. worker[w] # None /\ worker[w] \in Job /\ worker[w].u \in Uploads
    BY <1>9, HandlerJob DEF IInv
  <2>2. CASE CompleteCheckContent(w)
    <3>1. CASE pending[worker[w].u] \in Genuine /\ Goto(w, "copy")
      <4>1. /\ worker'[w] = [worker[w] EXCEPT !.pc = "copy"]
            /\ \A v \in Workers : v # w => worker'[v] = worker[v]
        BY <1>1, <3>1 DEF Goto
      <4>2. worker'[w].etag = worker[w].etag /\ worker'[w].u = worker[w].u
        BY <2>1, <4>1 DEF Job
      <4>3. pending' = pending
        BY <2>2 DEF CompleteCheckContent
      <4> QED  BY <1>1, <3>1, <4>1, <4>2, <4>3 DEF CopyInv
    <3>2. CASE Goto(w, "dropPending")
      <4>1. \A v \in Workers : worker'[v] = worker[v] \/ worker'[v].pc # "copy"
        BY <1>1, <2>1, <3>2 DEF Goto, Job
      <4> QED  BY <1>7, <2>2, <4>1 DEF CompleteCheckContent
    <3> QED  BY <2>2, <3>1, <3>2 DEF CompleteCheckContent
  <2>3. CASE ~CompleteCheckContent(w)
    <3>1. \A v \in Workers : \/ worker'[v] = worker[v] \/ worker'[v] = None
                             \/ worker'[v].pc # "copy"
      BY <1>1, <1>9, <2>1, <2>3, HandlerGoes DEF IInv
    <3>2. UNCHANGED pending \/ pending' = [pending EXCEPT ![worker[w].u] = None]
      BY <1>9 DEF HandlerStep, Abort, CompleteStatFinal, CompleteStatPending,
        CompleteCheckContent, CompleteDropPending, CompleteCopy, CompleteStatCopy,
        CompleteRemovePending, CompleteCommit, BindCommit, DiscardMark,
        DiscardRemoveFinal, DiscardRemovePending, DiscardCommit
    <3> QED  BY <1>3, <1>7, <2>1, <3>1, <3>2
  <2> QED  BY <2>2, <2>3
<1>10. CASE SweepStep
  <2>1. /\ UNCHANGED worker
        /\ UNCHANGED pending \/ \E u \in Uploads : pending' = [pending EXCEPT ![u] = None]
    BY <1>10 DEF SweepStep, SweepSelect, SweepCommit, SweepAbort,
        SweepRemoveFinal, SweepRemovePending, SweepRemoveFails
  <2> QED  BY <1>2, <1>3, <2>1
<1> QED  BY <1>5, <1>6, <1>8, <1>9, <1>10 DEF Next

\* Only the copy step creates a final object, and it copies what was checked.
LEMMA FinalKept ==
    ASSUME IInv, Next
    PROVE  VerifiedFinal'
<1> USE DEF store, clientVars
<1>1. /\ final \in [Uploads -> Objects] /\ swapped \subseteq swapped'
      /\ VerifiedFinal
  BY HistoryGrows DEF IInv, TypeOK
<1>2. ASSUME NEW u \in Uploads, final' = [final EXCEPT ![u] = None]
      PROVE  VerifiedFinal'
  BY <1>1, <1>2 DEF VerifiedFinal
<1>3. CASE UNCHANGED final
  BY <1>1, <1>3 DEF VerifiedFinal
<1>4. ASSUME NEW u \in Uploads, ClientStep(u) \/ TimeStep(u)
      PROVE  UNCHANGED final
  BY <1>4 DEF ClientStep, TimeStep, CreateUpload, SendComplete, GiveUp,
        PublishAcknowledged, PublishUnacknowledged, Redeliver,
        LeaveConversation, PutObject, Age, CleanupFallsDue
<1>5. ASSUME NEW r \in Requests, LoseRequest(r) PROVE UNCHANGED final
  BY <1>5 DEF LoseRequest
<1>6. ASSUME NEW w \in Workers, NEW u \in Uploads, RequestStep(w, u)
      PROVE  UNCHANGED final
  BY <1>6 DEF RequestStep, CompleteBegin, BindBegin, DiscardBegin, Refuse
<1>7. ASSUME NEW w \in Workers, HandlerStep(w) \/ Abort(w)
      PROVE  VerifiedFinal'
  <2>1. CASE CompleteCopy(w)
    <3>1. worker[w] # None /\ worker[w].pc = "copy"
      BY <2>1 DEF CompleteCopy, At
    <3>2. worker[w].u \in Uploads /\ worker[w].etag \in Fitting
      BY <3>1 DEF IInv, TypeOK, Job, JobInv
    <3>3. \/ /\ worker[w].etag \in Genuine \/ worker[w].u \in swapped
             /\ final' = [final EXCEPT ![worker[w].u] = worker[w].etag]
          \/ UNCHANGED final
      BY <2>1, <3>1 DEF CompleteCopy, IInv, CopyInv
    <3> QED BY <1>1, <3>2, <3>3 DEF VerifiedFinal
  <2>2. CASE CompleteStatCopy(w) \/ DiscardRemoveFinal(w)
    <3>1. worker[w] # None
      BY <2>2 DEF CompleteStatCopy, DiscardRemoveFinal, At
    <3>2. worker[w].u \in Uploads
      BY <3>1 DEF IInv, TypeOK, Job
    <3>3. final' = [final EXCEPT ![worker[w].u] = None] \/ UNCHANGED final
      BY <2>2 DEF CompleteStatCopy, DiscardRemoveFinal
    <3> QED BY <1>2, <1>3, <3>2, <3>3
  <2>3. CASE ~CompleteCopy(w) /\ ~CompleteStatCopy(w) /\ ~DiscardRemoveFinal(w)
    <3>1. UNCHANGED final
      BY <1>7, <2>3 DEF HandlerStep, Abort, CompleteStatFinal,
        CompleteStatPending, CompleteCheckContent, CompleteDropPending, CompleteRemovePending,
        CompleteCommit, BindCommit, DiscardMark, DiscardRemovePending,
        DiscardCommit
    <3> QED BY <1>3, <3>1
  <2> QED BY <2>1, <2>2, <2>3
<1>8. CASE SweepStep
  <2>1. UNCHANGED final \/ \E u \in Uploads : final' = [final EXCEPT ![u] = None]
    BY <1>8 DEF SweepStep, SweepSelect, SweepCommit, SweepAbort,
        SweepRemoveFinal, SweepRemovePending, SweepRemoveFails
  <2> QED BY <1>2, <1>3, <2>1
<1> QED BY <1>3, <1>4, <1>5, <1>6, <1>7, <1>8 DEF Next

-----------------------------------------------------------------------------
(* The theorems *)

\* The inductive invariant holds in every reachable state.
THEOREM Invariance == Spec => []IInv
<1>1. Init => IInv
  BY InitType DEF Init, IInv, BatchInv, IdleSweep, CopyInv, VerifiedFinal, Scheduled
<1>2. IInv /\ TypeOK' /\ [Next]_vars => IInv'
  <2> SUFFICES ASSUME IInv, TypeOK', [Next]_vars PROVE IInv'
    OBVIOUS
  <2>1. CASE Next
    <3>1. \A u \in Uploads : client'[u] = "new" => row'[u] = NoRow
      BY <2>1, RowFacts
    <3>2. Scheduled'
      BY <2>1, RowFacts DEF Scheduled
    <3> QED BY <2>1, <3>1, <3>2, JobsKept, BatchKept, CopiesKept, FinalKept DEF IInv
  <2>2. CASE UNCHANGED vars
    BY <2>2 DEF vars, IInv, JobInv, BatchInv, CopyInv, VerifiedFinal, Scheduled
  <2> QED BY <2>1, <2>2
<1> QED BY <1>1, <1>2, TypeCorrect, PTL DEF Spec

\* An object that can be served for a message has the size, the type and, unless
\* measured content was PUT again behind the content check, the content of its
\* ticket, whatever else is PUT through the upload URL and whenever.
THEOREM OnlyVerifiedObjects == Spec => []VerifiedFinal
<1>1. IInv => VerifiedFinal
  BY DEF IInv
<1> QED BY <1>1, Invariance, PTL

\* A cleaned row is never brought back by a handler that loaded it earlier.
THEOREM CleanedRowsStay == Spec => DeletedForEver
<1>1. IInv /\ [Next]_vars
      => [\A u \in Uploads : row[u].deleted => row'[u].deleted]_vars
  BY RowFacts
<1> QED BY <1>1, Invariance, PTL DEF Spec, DeletedForEver

-----------------------------------------------------------------------------
(* The object of a bound message *)

Asked(u, op) == [op |-> op, u |-> u] \in inbox
AtWork(u, w) == worker[w] # None /\ worker[w].u = u

Ops == {"complete", "bind", "discard"}

Copied == {"statCopy", "removePending", "commitComplete"}
Completing == {"statFinal", "statPending", "content", "copy", "dropPending"} \cup Copied

\* Nobody asks for anything about the upload, and nobody works on it.
Idle(u) == /\ \A op \in Ops : ~Asked(u, op)
           /\ \A w \in Workers : ~AtWork(u, w)

\* At most one request about the upload is on its way or being handled.
Lone(u) == /\ \A op \in Ops : Asked(u, op) => \A w \in Workers : ~AtWork(u, w)
           /\ \A v, w \in Workers : AtWork(u, v) /\ AtWork(u, w) => v = w

\* What may be on its way while the client stands where it stands, if no
\* completion was repeated.
Traffic(u) ==
    /\ client[u] \in {"new", "uploading", "uploaded", "completed"} => Idle(u)
    /\ client[u] = "completing" =>
          /\ ~Asked(u, "bind") /\ ~Asked(u, "discard") /\ Lone(u)
          /\ \A w \in Workers : AtWork(u, w) => worker[w].pc \in Completing
    /\ client[u] = "binding" =>
          /\ ~Asked(u, "complete") /\ ~Asked(u, "discard") /\ Lone(u)
          /\ \A w \in Workers : AtWork(u, w) => worker[w].pc = "commitBind"
    /\ client[u] = "discarding" =>
          /\ ~Asked(u, "bind")
          /\ \A w \in Workers : AtWork(u, w) => worker[w].pc # "commitBind"
    /\ u \in bound => client[u] = "binding" /\ Idle(u)

\* The row is in this state, its cleanup far off.
Waits(u, state) ==
    /\ row[u] = [state |-> state, deleted |-> FALSE, cleanup |-> "ttl"]
    /\ u \notin sweep.batch

\* The cleanup of a row does not fall due before the ticket expires.
InTime(u) ==
    client[u] \in {"uploading", "uploaded", "completing"} /\ age[u] # "expired"
       => Waits(u, "PENDING_UPLOAD")

\* The way of an upload to its message, if its cleanup does not fall due on it.
Course(u) ==
    /\ client[u] = "completing" =>
          \A w \in Workers : AtWork(u, w) =>
             /\ Waits(u, "PENDING_UPLOAD") /\ worker[w].seen = row[u]
             /\ worker[w].pc \in Copied => final[u] # None
    /\ client[u] = "completed" => Waits(u, "PENDING_MESSAGE") /\ final[u] # None
    /\ client[u] = "binding" /\ Asked(u, "bind") =>
          Waits(u, "PENDING_MESSAGE") /\ final[u] # None
    /\ client[u] = "binding" =>
          \A w \in Workers : AtWork(u, w) =>
             /\ Waits(u, "PENDING_MESSAGE") /\ worker[w].seen = row[u]
             /\ final[u] # None
    /\ u \in bound =>
          /\ row[u] = [state |-> "BOUND", deleted |-> FALSE, cleanup |-> "null"]
          /\ u \notin sweep.batch /\ final[u] # None

\* The row of an upload that was bound stays so, or has its cleanup before it.
Kept(u) ==
    u \in bound => \/ row[u].state = "BOUND" \/ row[u].deleted
                  \/ row[u].cleanup # "null"

BindInv ==
    redeliveries = 0 => /\ \A u \in Uploads : Traffic(u) /\ InTime(u) /\ Kept(u)
                        /\ \A u \in Uploads \ late : Course(u)

\* What a handler leaves alone: requests, time, the job, other handlers.
LEMMA HandlerFrame ==
    ASSUME TypeOK, NEW w \in Workers, HandlerStep(w) \/ Abort(w)
    PROVE  /\ UNCHANGED <<inbox, age, sweep, redeliveries, late>>
           /\ \A v \in Workers : v # w => worker'[v] = worker[v]
           /\ worker'[w] = None \/ (worker'[w] \in Job /\ worker'[w].u = worker[w].u)
<1> USE DEF store, clientVars
<1>1. worker \in [Workers -> Job \cup {None}] /\ worker[w] \in Job
      /\ row[worker[w].u] \in Row
  BY HandlerJob DEF TypeOK
<1>2. UNCHANGED <<inbox, age, sweep, redeliveries, late>>
  BY DEF HandlerStep, Abort, CompleteStatFinal, CompleteStatPending, CompleteCheckContent,
     CompleteDropPending, CompleteCopy, CompleteStatCopy,
     CompleteRemovePending, CompleteCommit, BindCommit, DiscardMark,
     DiscardRemoveFinal, DiscardRemovePending, DiscardCommit
<1>3. CASE CompleteStatPending(w)
  <2>1. PICK j : worker' = [worker EXCEPT ![w] = j]
    BY <1>3 DEF CompleteStatPending, Goto, Finish
  <2>2. \A v \in Workers : v # w => worker'[v] = worker[v]
    BY <1>1, <2>1
  <2>3. worker'[w] = None \/ (worker'[w] \in Job /\ worker'[w].u = worker[w].u)
    BY <1>3, StatPendingGoes
  <2> QED  BY <1>2, <2>2, <2>3
<1>4. CASE DiscardRemoveFinal(w)
  <2>1. PICK step \in {"removeRest", "commitRetry"} :
           worker' = [worker EXCEPT ![w] =
              [@ EXCEPT !.seen = row[worker[w].u], !.pc = step]]
    BY <1>4 DEF DiscardRemoveFinal
  <2>2. \A v \in Workers : v # w => worker'[v] = worker[v]
    BY <1>1, <2>1
  <2>3. worker'[w] \in Job /\ worker'[w].u = worker[w].u
    BY <1>1, <2>1 DEF Job, Steps
  <2> QED  BY <1>2, <2>2, <2>3
<1>5. CASE ~CompleteStatPending(w) /\ ~DiscardRemoveFinal(w)
  <2>1. Finish(w) \/ \E step \in Steps : Goto(w, step)
    BY <1>5 DEF HandlerStep, Abort, Steps, CompleteStatFinal, CompleteCheckContent,
       CompleteDropPending, CompleteCopy, CompleteStatCopy,
       CompleteRemovePending, CompleteCommit, BindCommit, DiscardMark,
       DiscardRemovePending, DiscardCommit
  <2>2. worker'[w] = None \/ (worker'[w] \in Job /\ worker'[w].u = worker[w].u)
    BY <1>1, <2>1 DEF Goto, Finish, Job
  <2>3. \A v \in Workers : v # w => worker'[v] = worker[v]
    BY <1>1, <2>1 DEF Goto, Finish
  <2> QED  BY <1>2, <2>2, <2>3
<1> QED  BY <1>3, <1>4, <1>5

\* A handler works on the upload of its request only.
LEMMA HandlerElsewhere ==
    ASSUME TypeOK, NEW w \in Workers, HandlerStep(w) \/ Abort(w),
           NEW u \in Uploads, u # worker[w].u
    PROVE  /\ row'[u] = row[u] /\ final'[u] = final[u] /\ client'[u] = client[u]
           /\ u \in bound' <=> u \in bound
<1> USE DEF store, clientVars
<1>1. /\ row \in [Uploads -> Row] /\ final \in [Uploads -> Objects]
      /\ client \in [Uploads -> {"new", "uploading", "uploaded", "completing",
                                 "completed", "binding", "discarding"}]
      /\ worker[w].u \in Uploads
  BY HandlerJob DEF TypeOK
<1> DEFINE x == worker[w].u
<1>2. \/ row' = row \/ \E r : row' = [row EXCEPT ![x] = r]
  BY DEF Write, HandlerStep, Abort, CompleteStatFinal, CompleteStatPending, CompleteCheckContent,
     CompleteDropPending, CompleteCopy, CompleteStatCopy,
     CompleteRemovePending, CompleteCommit, BindCommit, DiscardMark,
     DiscardRemoveFinal, DiscardRemovePending, DiscardCommit
<1>3. \/ client' = client \/ \E c : client' = [client EXCEPT ![x] = c]
  BY DEF HandlerStep, Abort, CompleteStatFinal, CompleteStatPending, CompleteCheckContent,
     CompleteDropPending, CompleteCopy, CompleteStatCopy,
     CompleteRemovePending, CompleteCommit, BindCommit, DiscardMark,
     DiscardRemoveFinal, DiscardRemovePending, DiscardCommit
<1>4. bound' = bound \/ bound' = bound \cup {x}
  BY DEF HandlerStep, Abort, CompleteStatFinal, CompleteStatPending, CompleteCheckContent,
     CompleteDropPending, CompleteCopy, CompleteStatCopy,
     CompleteRemovePending, CompleteCommit, BindCommit, DiscardMark,
     DiscardRemoveFinal, DiscardRemovePending, DiscardCommit
<1>5. \/ final' = final \/ \E f : final' = [final EXCEPT ![x] = f]
  <2>1. CASE CompleteCopy(w)
    BY <2>1 DEF CompleteCopy
  <2>2. CASE ~CompleteCopy(w)
    BY <2>2, HandlerFinal
  <2> QED  BY <2>1, <2>2
<1> HIDE DEF x
<1>6. x # u
  BY DEF x
<1> QED  BY <1>1, <1>2, <1>3, <1>4, <1>5, <1>6

Discarding == {"markDelete", "removeFinal", "removeRest", "commitCleaned", "commitRetry"}

\* A handler goes on with the kind of request it has begun, and a bind is over
\* with its commit.
LEMMA HandlerKind ==
    ASSUME TypeOK, NEW w \in Workers, HandlerStep(w) \/ Abort(w), worker'[w] # None
    PROVE  \/ worker[w].pc \in Completing /\ worker'[w].pc \in Completing
           \/ worker[w].pc \in Discarding /\ worker'[w].pc \in Discarding
<1> USE DEF store, clientVars
<1>1. worker \in [Workers -> Job \cup {None}] /\ worker[w] \in Job
  BY HandlerJob DEF TypeOK
<1>2. ASSUME NEW step \in Steps, Goto(w, step) PROVE worker'[w].pc = step
  BY <1>1, <1>2 DEF Goto, Job
<1>3. ~Finish(w)
  BY <1>1 DEF Finish
<1>4. CASE CompleteStatFinal(w)
  <2>1. worker[w].pc = "statFinal" /\ (Goto(w, "statPending") \/ Goto(w, "removePending"))
    BY <1>3, <1>4 DEF CompleteStatFinal, At
  <2> QED  BY <1>2, <2>1 DEF Completing, Copied, Steps
<1>5. CASE CompleteStatPending(w)
  <2>1. \/ Goto(w, "dropPending")
        \/ \E e \in Fitting : worker' = [worker EXCEPT ![w] =
                               [@ EXCEPT !.pc = "content", !.etag = e]]
    BY <1>3, <1>5 DEF CompleteStatPending
  <2>2. worker[w].pc = "statPending"
    BY <1>5 DEF CompleteStatPending, At
  <2>3. worker'[w].pc \in {"dropPending", "content"}
    <3>1. CASE Goto(w, "dropPending")
      BY <1>2, <3>1 DEF Steps
    <3>2. ASSUME NEW e \in Fitting, worker' = [worker EXCEPT ![w] =
                                     [@ EXCEPT !.pc = "content", !.etag = e]]
          PROVE  worker'[w].pc = "content"
      BY <1>1, <3>2 DEF Job
    <3> QED  BY <2>1, <3>1, <3>2
  <2> QED  BY <2>2, <2>3 DEF Completing
<1>6. CASE CompleteCopy(w) \/ CompleteStatCopy(w) \/ CompleteRemovePending(w)
  <2>1. worker[w].pc \in {"copy", "statCopy", "removePending"}
    BY <1>6 DEF CompleteCopy, CompleteStatCopy, CompleteRemovePending, At
  <2>2. \/ Goto(w, "statCopy") \/ Goto(w, "removePending") \/ Goto(w, "commitComplete")
    BY <1>3, <1>6 DEF CompleteCopy, CompleteStatCopy, CompleteRemovePending
  <2> QED  BY <1>2, <2>1, <2>2 DEF Completing, Copied, Steps
<1>7. CASE DiscardMark(w)
  <2>1. worker[w].pc = "markDelete" /\ Goto(w, "removeFinal")
    BY <1>7 DEF DiscardMark, At
  <2> QED  BY <1>2, <2>1 DEF Discarding, Steps
<1>8. CASE DiscardRemoveFinal(w)
  <2>1. PICK step \in {"removeRest", "commitRetry"} :
           worker' = [worker EXCEPT ![w] =
              [@ EXCEPT !.seen = row[worker[w].u], !.pc = step]]
    BY <1>8 DEF DiscardRemoveFinal
  <2>2. worker'[w].pc = step
    BY <1>1, <2>1 DEF Job
  <2>3. worker[w].pc = "removeFinal"
    BY <1>8 DEF DiscardRemoveFinal, At
  <2> QED  BY <2>2, <2>3 DEF Discarding
<1>9. CASE DiscardRemovePending(w)
  <2>1. worker[w].pc = "removeRest" /\ (Goto(w, "commitCleaned") \/ Goto(w, "commitRetry"))
    BY <1>9 DEF DiscardRemovePending, At
  <2> QED  BY <1>2, <2>1 DEF Discarding, Steps
<1>10. CASE CompleteCheckContent(w)
  <2>1. worker[w].pc = "content" /\ (Goto(w, "copy") \/ Goto(w, "dropPending"))
    BY <1>10 DEF CompleteCheckContent, At
  <2> QED  BY <1>2, <2>1 DEF Completing, Steps
<1>11. ~(CompleteDropPending(w) \/ CompleteCommit(w) \/ BindCommit(w)
           \/ DiscardCommit(w) \/ Abort(w))
  BY <1>3 DEF CompleteDropPending, CompleteCommit, BindCommit, DiscardCommit, Abort
<1> QED  BY <1>4, <1>5, <1>6, <1>7, <1>8, <1>9, <1>10, <1>11 DEF HandlerStep

\* Requests that vanish and handlers that go on or finish are no new traffic.
LEMMA LessTraffic ==
    ASSUME NEW u, Traffic(u), client'[u] = client[u], u \in bound' => u \in bound,
           \A op \in Ops : Asked(u, op)' => Asked(u, op),
           \A w \in Workers : AtWork(u, w)' =>
              /\ AtWork(u, w)
              /\ worker[w].pc \in Completing => worker'[w].pc \in Completing
              /\ worker'[w].pc = "commitBind" <=> worker[w].pc = "commitBind"
    PROVE  Traffic(u)'
<1>1. Idle(u) => Idle(u)'
  BY DEF Idle
<1>2. Lone(u) => Lone(u)'
  BY DEF Lone
<1> QED  BY <1>1, <1>2 DEF Traffic, Ops

\* The client, time, the loss of a request and the job work on no request.
LEMMA OthersFrame ==
    ASSUME TypeOK,
           \/ \E u \in Uploads : ClientStep(u) \/ TimeStep(u)
           \/ \E r \in Requests : LoseRequest(r)
           \/ SweepStep
    PROVE  UNCHANGED <<worker, bound>>
<1> USE DEF store, clientVars
<1>1. ASSUME NEW u \in Uploads, ClientStep(u) \/ TimeStep(u)
      PROVE  UNCHANGED <<worker, bound>>
  BY <1>1 DEF ClientStep, TimeStep, CreateUpload, SendComplete, GiveUp,
     PublishAcknowledged, PublishUnacknowledged, Redeliver,
     LeaveConversation, PutObject, Age, CleanupFallsDue
<1>2. ASSUME NEW r \in Requests, LoseRequest(r) PROVE UNCHANGED <<worker, bound>>
  BY <1>2 DEF LoseRequest
<1>3. SweepStep => UNCHANGED <<worker, bound>>
  BY DEF SweepStep, SweepSelect, SweepCommit, SweepAbort, SweepRemoveFinal,
     SweepRemovePending, SweepRemoveFails
<1> QED  BY <1>1, <1>2, <1>3

\* What the client and time do to the traffic of an upload.
LEMMA ClientTraffic ==
    ASSUME TypeOK, redeliveries' = redeliveries, NEW v \in Uploads,
           ClientStep(v) \/ TimeStep(v), NEW u \in Uploads, Traffic(u)
    PROVE  Traffic(u)'
<1> USE DEF store, clientVars
<1>1. /\ client \in [Uploads -> {"new", "uploading", "uploaded", "completing",
                                 "completed", "binding", "discarding"}]
      /\ redeliveries \in Nat
  BY RedeliveriesAssumption DEF TypeOK
<1>2. UNCHANGED <<worker, bound>>
  BY OthersFrame
<1>3. \A w \in Workers : AtWork(u, w)' <=> AtWork(u, w)
  BY <1>2 DEF AtWork
<1>4. ASSUME client'[u] = client[u], \A op \in Ops : Asked(u, op)' => Asked(u, op)
      PROVE  Traffic(u)'
  BY <1>2, <1>3, <1>4, LessTraffic
<1>5. ~Redeliver(v)
  BY <1>1 DEF Redeliver
<1>6. CASE LeaveConversation(v) \/ Age(v) \/ CleanupFallsDue(v)
  <2>1. UNCHANGED <<client, inbox>>
    BY <1>6 DEF LeaveConversation, Age, CleanupFallsDue
  <2> QED  BY <1>4, <2>1 DEF Asked
<1>7. CASE CreateUpload(v) \/ \E c \in Contents : PutObject(v, c)
  <2>1. /\ UNCHANGED inbox
        /\ client' = client \/ \E c \in {"uploading", "uploaded"} :
              client[v] \in {"new", "uploading"} /\ client' = [client EXCEPT ![v] = c]
    <3>1. CASE CreateUpload(v)
      BY <3>1 DEF CreateUpload
    <3>2. ASSUME NEW c \in Contents, PutObject(v, c)
          PROVE  /\ UNCHANGED inbox
                 /\ client' = client \/ (client[v] = "uploading"
                                         /\ client' = [client EXCEPT ![v] = "uploaded"])
      BY <1>1, <3>2 DEF PutObject
    <3> QED  BY <1>7, <3>1, <3>2
  <2>2. \A op \in Ops : Asked(u, op)' <=> Asked(u, op)
    BY <2>1 DEF Asked
  <2>3. CASE client'[u] = client[u]
    BY <1>4, <2>2, <2>3
  <2>4. CASE client[u] \in {"new", "uploading"} /\ client'[u] \in {"uploading", "uploaded"}
    <3>1. Idle(u)' /\ u \notin bound'
      BY <1>2, <1>3, <2>2, <2>4 DEF Traffic, Idle
    <3> QED  BY <2>4, <3>1 DEF Traffic
  <2> QED  BY <1>1, <2>1, <2>3, <2>4
<1>8. ASSUME NEW op \in Ops, NEW c \in {"completing", "discarding", "binding"},
             inbox' = inbox \cup {[op |-> op, u |-> v]}, client' = [client EXCEPT ![v] = c],
             \/ client[v] = "uploaded" /\ c = "completing" /\ op = "complete"
             \/ client[v] \in {"uploading", "completing", "completed"}
                   /\ c = "discarding" /\ op = "discard"
             \/ client[v] = "completed" /\ c = "binding" /\ op = "bind"
      PROVE  Traffic(u)'
  <2>1. CASE u # v
    <3>1. client'[u] = client[u] /\ \A p \in Ops : Asked(u, p)' => Asked(u, p)
      BY <1>1, <1>8, <2>1 DEF Asked
    <3> QED  BY <1>4, <3>1
  <2>2. CASE u = v
    <3>1. client'[u] = c /\ \A p \in Ops : p # op => (Asked(u, p)' <=> Asked(u, p))
      BY <1>1, <1>8, <2>2 DEF Asked
    <3>2. u \notin bound'
      BY <1>2, <1>8, <2>2 DEF Traffic
    <3>3. CASE client[u] \in {"uploaded", "uploading", "completed"}
      <4>1. Idle(u)
        BY <3>3 DEF Traffic
      <4>2. \A w \in Workers : ~AtWork(u, w)'
        BY <1>3, <4>1 DEF Idle
      <4>3. Lone(u)'
        BY <4>2 DEF Lone
      <4>4. \A p \in Ops : p # op => ~Asked(u, p)'
        BY <3>1, <4>1 DEF Idle
      <4> QED  BY <1>8, <2>2, <3>1, <3>2, <4>2, <4>3, <4>4 DEF Traffic, Ops
    <3>4. CASE client[u] = "completing"
      <4>1. c = "discarding" /\ op = "discard"
        BY <1>8, <2>2, <3>4
      <4>2. /\ ~Asked(u, "bind")'
            /\ \A w \in Workers : AtWork(u, w)' => worker'[w].pc # "commitBind"
        BY <1>2, <1>3, <3>1, <3>4, <4>1 DEF Traffic, Ops, Completing, Copied
      <4> QED  BY <3>1, <3>2, <4>1, <4>2 DEF Traffic
    <3> QED  BY <1>8, <2>2, <3>3, <3>4
  <2> QED  BY <2>1, <2>2
<1>9. CASE \/ SendComplete(v) \/ GiveUp(v)
           \/ PublishAcknowledged(v) \/ PublishUnacknowledged(v)
  <2>1. CASE SendComplete(v)
    BY <1>8, <2>1 DEF SendComplete, Send, Ops
  <2>2. CASE GiveUp(v)
    BY <1>8, <2>2 DEF GiveUp, Send, Ops
  <2>3. CASE PublishAcknowledged(v)
    BY <1>8, <2>3 DEF PublishAcknowledged, Send, Ops
  <2>4. CASE PublishUnacknowledged(v)
    BY <1>8, <2>4 DEF PublishUnacknowledged, Send, Ops
  <2> QED  BY <1>9, <2>1, <2>2, <2>3, <2>4
<1> QED  BY <1>5, <1>6, <1>7, <1>9 DEF ClientStep, TimeStep

\* A worker picks up a request, or refuses it.
LEMMA RequestTraffic ==
    ASSUME TypeOK, NEW w \in Workers, NEW v \in Uploads, RequestStep(w, v),
           NEW u \in Uploads, Traffic(u)
    PROVE  Traffic(u)'
<1> USE DEF store, clientVars
<1>1. worker \in [Workers -> Job \cup {None}]
  BY DEF TypeOK
<1>2. UNCHANGED <<client, bound>>
  BY DEF RequestStep, CompleteBegin, BindBegin, DiscardBegin, Refuse
<1>3. PICK op \in Ops : Take(w, op, v)
  BY DEF RequestStep, CompleteBegin, BindBegin, DiscardBegin, Refuse, Ops
<1>4. /\ worker[w] = None /\ Asked(v, op)
      /\ inbox' = inbox \ {[op |-> op, u |-> v]}
  BY <1>3 DEF Take, Asked
<1>5. \A p \in Ops : /\ Asked(u, p)' => Asked(u, p)
                     /\ u = v /\ p = op => ~Asked(u, p)'
  BY <1>4 DEF Asked
<1>6. ASSUME \A x \in Workers : AtWork(u, x)' => worker'[x] = worker[x]
      PROVE  Traffic(u)'
  <2>1. \A x \in Workers : AtWork(u, x)' => AtWork(u, x)
    BY <1>6 DEF AtWork
  <2> QED  BY <1>2, <1>5, <1>6, <2>1, LessTraffic
<1>7. CASE Refuse(w, v)
  BY <1>6, <1>7 DEF Refuse
<1>8. CASE ~Refuse(w, v)
  <2>1. PICK step : /\ Begin(w, v, step)
                    /\ \/ step = "statFinal" /\ CompleteBegin(w, v)
                       \/ step = "commitBind" /\ BindBegin(w, v)
                       \/ step = "markDelete" /\ DiscardBegin(w, v)
    BY <1>8 DEF RequestStep, CompleteBegin, BindBegin, DiscardBegin
  <2>2. /\ worker'[w].u = v /\ worker'[w].pc = step
        /\ \A x \in Workers : x # w => worker'[x] = worker[x]
    BY <1>1, <2>1 DEF Begin
  <2>3. CASE u # v
    BY <1>6, <2>2, <2>3 DEF AtWork
  <2>4. CASE u = v
    <3>1. ~Idle(u) /\ u \notin bound'
      BY <1>2, <1>4, <2>4 DEF Idle, Traffic
    <3>2. \/ step = "statFinal" /\ Asked(u, "complete")
          \/ step = "commitBind" /\ Asked(u, "bind")
          \/ step = "markDelete" /\ Asked(u, "discard")
      BY <2>1, <2>4 DEF CompleteBegin, BindBegin, DiscardBegin, Take, Asked
    <3>3. \A x \in Workers : AtWork(u, x)' /\ x # w => AtWork(u, x)
      BY <2>2 DEF AtWork
    <3>4. CASE client[u] = "completing" \/ client[u] = "binding"
      <4>1. \A x \in Workers : ~AtWork(u, x)
        BY <1>4, <2>4, <3>4 DEF Traffic, Lone
      <4>2. \A x \in Workers : AtWork(u, x)' => x = w
        BY <3>3, <4>1
      <4>3. \A p \in Ops : ~Asked(u, p)'
        BY <1>4, <1>5, <2>4, <3>4 DEF Traffic, Ops
      <4>4. Lone(u)'
        BY <4>2, <4>3 DEF Lone
      <4>5. \/ client[u] = "completing" /\ step = "statFinal"
            \/ client[u] = "binding" /\ step = "commitBind"
        BY <3>2, <3>4 DEF Traffic
      <4> QED  BY <1>2, <2>2, <3>1, <4>2, <4>3, <4>4, <4>5
               DEF Traffic, Ops, Completing
    <3>5. CASE client[u] = "discarding"
      <4>1. step # "commitBind" /\ ~Asked(u, "bind")'
        BY <1>5, <3>2, <3>5 DEF Traffic, Ops
      <4>2. \A x \in Workers : AtWork(u, x)' => worker'[x].pc # "commitBind"
        BY <2>2, <3>3, <3>5, <4>1 DEF Traffic
      <4> QED  BY <1>2, <3>1, <3>5, <4>1, <4>2 DEF Traffic
    <3>6. client[u] \in {"new", "uploading", "uploaded", "completing",
                         "completed", "binding", "discarding"}
      BY DEF TypeOK
    <3> QED  BY <3>1, <3>4, <3>5, <3>6 DEF Traffic
  <2> QED  BY <2>3, <2>4
<1> QED  BY <1>7, <1>8

\* A handler goes on, or commits a completion or a bind.
LEMMA HandlerTraffic ==
    ASSUME TypeOK, NEW w \in Workers, HandlerStep(w) \/ Abort(w),
           NEW u \in Uploads, Traffic(u)
    PROVE  Traffic(u)'
<1> USE DEF store, clientVars
<1>1. /\ worker[w] # None /\ worker[w].u \in Uploads /\ inbox' = inbox
      /\ \A v \in Workers : v # w => worker'[v] = worker[v]
      /\ worker'[w] = None \/ (worker'[w] \in Job /\ worker'[w].u = worker[w].u)
  BY HandlerJob, HandlerFrame
<1>2. \A p \in Ops : Asked(u, p)' <=> Asked(u, p)
  BY <1>1 DEF Asked
<1>3. \A x \in Workers : AtWork(u, x)' => AtWork(u, x)
  BY <1>1 DEF AtWork
<1>4. worker'[w] # None =>
         \/ worker[w].pc \in Completing /\ worker'[w].pc \in Completing
         \/ worker[w].pc \in Discarding /\ worker'[w].pc \in Discarding
  BY HandlerKind
<1>5. \A x \in Workers : AtWork(u, x)' =>
         /\ worker[x].pc \in Completing => worker'[x].pc \in Completing
         /\ worker'[x].pc = "commitBind" <=> worker[x].pc = "commitBind"
  BY <1>1, <1>4 DEF AtWork, Completing, Copied, Discarding
<1>6. ASSUME client'[u] = client[u], u \in bound' => u \in bound PROVE Traffic(u)'
  BY <1>2, <1>3, <1>5, <1>6, LessTraffic
<1>7. CASE u # worker[w].u
  BY <1>6, <1>7, HandlerElsewhere
<1>8. CASE u = worker[w].u
  <2>1. AtWork(u, w)
    BY <1>1, <1>8 DEF AtWork
  <2>2. CASE CompleteCommit(w)
    <3>1. /\ worker[w].pc = "commitComplete" /\ bound' = bound
          /\ client' = [client EXCEPT ![u] =
                           IF @ = "completing" THEN "completed" ELSE @]
          /\ Finish(w)
      BY <1>8, <2>2 DEF CompleteCommit, At
    <3>2. CASE client[u] = "completing"
      <4>1. client'[u] = "completed" /\ u \notin bound'
        BY <3>1, <3>2 DEF TypeOK, Traffic
      <4>2. \A op \in Ops : ~Asked(u, op)
        BY <1>8, <2>1, <3>2 DEF Traffic, Lone
      <4>3. ~AtWork(u, w)' /\ \A x \in Workers : AtWork(u, x)' => x = w
        <5>1. worker'[w] = None
          BY <3>1 DEF Finish, TypeOK
        <5>2. \A x \in Workers : AtWork(u, x) => x = w
          BY <2>1, <3>2 DEF Traffic, Lone
        <5> QED  BY <1>3, <5>1, <5>2 DEF AtWork
      <4>4. Idle(u)'
        BY <1>2, <4>2, <4>3 DEF Idle
      <4> QED  BY <4>1, <4>4 DEF Traffic
    <3>3. CASE client[u] # "completing"
      BY <1>6, <3>1, <3>3 DEF TypeOK
    <3> QED  BY <3>2, <3>3
  <2>3. CASE BindCommit(w)
    <3>1. worker[w].pc = "commitBind" /\ client' = client /\ Finish(w)
      BY <2>3 DEF BindCommit, At
    <3>2. client[u] = "binding"
      BY <2>1, <3>1 DEF Traffic, TypeOK, Completing, Copied, Idle
    <3>3. \A op \in Ops : ~Asked(u, op)
      BY <2>1, <3>2 DEF Traffic, Lone
    <3>4. \A x \in Workers : ~AtWork(u, x)'
      <4>1. worker'[w] = None
        BY <3>1 DEF Finish, TypeOK
      <4>2. \A x \in Workers : AtWork(u, x) => x = w
        BY <2>1, <3>2 DEF Traffic, Lone
      <4> QED  BY <1>3, <4>1, <4>2 DEF AtWork
    <3>5. Idle(u)' /\ Lone(u)'
      BY <1>2, <3>3, <3>4 DEF Idle, Lone
    <3> QED  BY <1>2, <3>1, <3>2, <3>3, <3>4, <3>5 DEF Traffic, Ops
  <2>4. CASE ~CompleteCommit(w) /\ ~BindCommit(w)
    <3>1. client' = client /\ bound' = bound
      BY <2>4 DEF HandlerStep, Abort, CompleteStatFinal, CompleteStatPending, CompleteCheckContent,
         CompleteDropPending, CompleteCopy, CompleteStatCopy,
         CompleteRemovePending, DiscardMark, DiscardRemoveFinal,
         DiscardRemovePending, DiscardCommit
    <3> QED  BY <1>6, <3>1
  <2> QED  BY <2>2, <2>3, <2>4
<1> QED  BY <1>7, <1>8

\* No step brings about traffic that does not belong to where the client is.
LEMMA TrafficKept ==
    ASSUME TypeOK, Next, redeliveries' = redeliveries, NEW u \in Uploads, Traffic(u)
    PROVE  Traffic(u)'
<1> USE DEF store, clientVars
<1>1. ASSUME UNCHANGED <<worker, bound>>, client'[u] = client[u],
             \A op \in Ops : Asked(u, op)' => Asked(u, op)
      PROVE  Traffic(u)'
  <2>1. \A w \in Workers : AtWork(u, w)' <=> AtWork(u, w)
    BY <1>1 DEF AtWork
  <2> QED  BY <1>1, <2>1, LessTraffic
<1>2. ASSUME NEW r \in Requests, LoseRequest(r) PROVE Traffic(u)'
  BY <1>1, <1>2 DEF LoseRequest, Asked
<1>3. CASE SweepStep
  <2>1. UNCHANGED <<worker, bound>>
    BY <1>3, OthersFrame
  <2>2. UNCHANGED <<client, inbox>>
    BY <1>3 DEF SweepStep, SweepSelect, SweepCommit, SweepAbort, SweepRemoveFinal,
       SweepRemovePending, SweepRemoveFails
  <2> QED  BY <1>1, <2>1, <2>2 DEF Asked
<1> QED  BY <1>2, <1>3, ClientTraffic, RequestTraffic, HandlerTraffic DEF Next

\* A row whose cleanup is not due, and that the job has not loaded, is left
\* alone by everybody but its own handlers, and so is its object.
LEMMA ParkedKept ==
    ASSUME TypeOK, Next, NEW u \in Uploads, row[u].cleanup # "due", u \notin sweep.batch,
           ~CleanupFallsDue(u), ~CreateUpload(u),
           \A w \in Workers : HandlerStep(w) \/ Abort(w) => ~AtWork(u, w)
    PROVE  row'[u] = row[u] /\ u \notin sweep'.batch /\ final'[u] = final[u]
<1> USE DEF store, clientVars
<1>1. /\ row \in [Uploads -> Row] /\ final \in [Uploads -> Objects]
  BY DEF TypeOK
<1>2. ASSUME UNCHANGED <<row, final, sweep>>
      PROVE  row'[u] = row[u] /\ u \notin sweep'.batch /\ final'[u] = final[u]
  BY <1>2
<1>3. ASSUME NEW v \in Uploads, ClientStep(v) \/ TimeStep(v)
      PROVE  row'[u] = row[u] /\ u \notin sweep'.batch /\ final'[u] = final[u]
  <2>1. UNCHANGED <<final, sweep>>
    BY <1>3 DEF ClientStep, TimeStep, CreateUpload, SendComplete, GiveUp,
       PublishAcknowledged, PublishUnacknowledged, Redeliver,
       LeaveConversation, PutObject, Age, CleanupFallsDue
  <2>2. CASE CreateUpload(v)
    BY <1>1, <2>1, <2>2 DEF CreateUpload
  <2>3. CASE CleanupFallsDue(v)
    <3>1. v # u /\ row' = [row EXCEPT ![v].cleanup = "due"]
      BY <2>3 DEF CleanupFallsDue
    <3> QED  BY <1>1, <2>1, <3>1
  <2>4. CASE ~CreateUpload(v) /\ ~CleanupFallsDue(v)
    <3>1. UNCHANGED row
      BY <1>3, <2>4 DEF ClientStep, TimeStep, SendComplete, GiveUp,
         PublishAcknowledged, PublishUnacknowledged, Redeliver,
         LeaveConversation, PutObject, Age
    <3> QED  BY <2>1, <3>1
  <2> QED  BY <2>2, <2>3, <2>4
<1>4. ASSUME NEW r \in Requests, LoseRequest(r) PROVE UNCHANGED <<row, final, sweep>>
  BY <1>4 DEF LoseRequest
<1>5. ASSUME NEW w \in Workers, NEW v \in Uploads, RequestStep(w, v)
      PROVE  UNCHANGED <<row, final, sweep>>
  BY <1>5 DEF RequestStep, CompleteBegin, BindBegin, DiscardBegin, Refuse
<1>6. ASSUME NEW w \in Workers, HandlerStep(w) \/ Abort(w)
      PROVE  row'[u] = row[u] /\ u \notin sweep'.batch /\ final'[u] = final[u]
  <2>1. u # worker[w].u
    BY <1>6, HandlerJob DEF AtWork
  <2>2. UNCHANGED sweep
    BY <1>6, HandlerFrame
  <2> QED  BY <1>6, <2>1, <2>2, HandlerElsewhere
<1>7. CASE SweepStep
  <2>1. CASE SweepSelect
    BY <2>1 DEF SweepSelect, Sweepable
  <2>2. CASE SweepCommit
    BY <1>1, <2>2 DEF SweepCommit, IdleSweep
  <2>3. CASE SweepAbort
    BY <2>3 DEF SweepAbort, IdleSweep
  <2>4. ASSUME NEW v \in Uploads,
               SweepRemoveFinal(v) \/ SweepRemovePending(v) \/ SweepRemoveFails(v)
        PROVE  row'[u] = row[u] /\ u \notin sweep'.batch /\ final'[u] = final[u]
    <3>1. row' = row /\ sweep'.batch = sweep.batch
      <4>1. \E o : sweep' = [sweep EXCEPT !.out[v] = o] /\ row' = row
        BY <2>4 DEF SweepRemoveFinal, SweepRemovePending, SweepRemoveFails
      <4>2. sweep \in Sweep
        BY DEF TypeOK
      <4> QED  BY <4>1, <4>2 DEF Sweep
    <3>2. CASE SweepRemoveFinal(v)
      BY <1>1, <3>1, <3>2 DEF SweepRemoveFinal
    <3>3. CASE SweepRemovePending(v) \/ SweepRemoveFails(v)
      BY <3>1, <3>3 DEF SweepRemovePending, SweepRemoveFails
    <3> QED  BY <2>4, <3>2, <3>3
  <2> QED  BY <1>7, <2>1, <2>2, <2>3, <2>4 DEF SweepStep
<1> QED  BY <1>2, <1>3, <1>4, <1>5, <1>6, <1>7 DEF Next

\* Where the client and the credentials of an upload may come from.
LEMMA ClientFrom ==
    ASSUME TypeOK, Next, NEW u \in Uploads
    PROVE  /\ client'[u] \in {"uploading", "uploaded", "completing"} =>
                 client[u] \in {"new", "uploading", "uploaded", "completing"}
           /\ client'[u] \in {"uploading", "uploaded", "completing"} /\ client[u] = "new" =>
                 CreateUpload(u)
           /\ age'[u] # "expired" => age[u] # "expired"
<1> USE DEF store, clientVars
<1>1. /\ client \in [Uploads -> {"new", "uploading", "uploaded", "completing",
                                 "completed", "binding", "discarding"}]
      /\ age \in [Uploads -> {"url", "ticket", "expired"}]
  BY DEF TypeOK
<1>2. ASSUME client' = client, age' = age
      PROVE  client'[u] = client[u] /\ age'[u] = age[u]
  BY <1>2
<1>3. ASSUME NEW v \in Uploads, ClientStep(v) \/ TimeStep(v)
      PROVE  /\ client'[u] \in {"uploading", "uploaded", "completing"} =>
                   client[u] \in {"new", "uploading", "uploaded", "completing"}
             /\ client'[u] \in {"uploading", "uploaded", "completing"} /\ client[u] = "new" =>
                   CreateUpload(u)
             /\ age'[u] # "expired" => age[u] # "expired"
  <2>1. CASE CreateUpload(v)
    BY <1>1, <2>1 DEF CreateUpload
  <2>2. ASSUME NEW c \in Contents, PutObject(v, c)
        PROVE  /\ age' = age /\ client[v] # "new"
               /\ client' = [client EXCEPT ![v] = IF @ = "uploading" THEN "uploaded" ELSE @]
    BY <2>2 DEF PutObject
  <2>3. CASE \E c \in Contents : PutObject(v, c)
    BY <1>1, <2>2, <2>3
  <2>4. CASE \/ SendComplete(v) \/ GiveUp(v)
             \/ PublishAcknowledged(v) \/ PublishUnacknowledged(v)
    <3>1. \E c \in {"completing", "discarding", "binding"} :
             /\ age' = age /\ client' = [client EXCEPT ![v] = c]
             /\ client[v] # "new" /\ (c = "completing" => client[v] = "uploaded")
      BY <2>4 DEF SendComplete, GiveUp, PublishAcknowledged, PublishUnacknowledged
    <3> QED  BY <1>1, <3>1
  <2>5. CASE Redeliver(v) \/ LeaveConversation(v) \/ CleanupFallsDue(v)
    <3>1. client' = client /\ age' = age
      BY <2>5 DEF Redeliver, LeaveConversation, CleanupFallsDue
    <3> QED  BY <1>1, <3>1
  <2>6. CASE Age(v)
    <3>1. client' = client /\ age[v] # "expired"
          /\ age' = [age EXCEPT ![v] = IF @ = "url" THEN "ticket" ELSE "expired"]
      BY <2>6 DEF Age
    <3>2. age'[u] # "expired" => age[u] # "expired"
      BY <1>1, <3>1
    <3> QED  BY <1>1, <3>1, <3>2
  <2> QED  BY <1>3, <2>1, <2>3, <2>4, <2>5, <2>6 DEF ClientStep, TimeStep
<1>4. ASSUME NEW r \in Requests, LoseRequest(r) PROVE client' = client /\ age' = age
  BY <1>4 DEF LoseRequest
<1>5. ASSUME NEW w \in Workers, NEW v \in Uploads, RequestStep(w, v)
      PROVE  client' = client /\ age' = age
  BY <1>5 DEF RequestStep, CompleteBegin, BindBegin, DiscardBegin, Refuse
<1>6. ASSUME NEW w \in Workers, HandlerStep(w) \/ Abort(w)
      PROVE  /\ age' = age
             /\ client'[u] = client[u] \/ (client[u] = "completing" /\ client'[u] = "completed")
  <2>1. age' = age
    BY <1>6, HandlerFrame
  <2>2. CASE CompleteCommit(w)
    <3>1. \E x : client' = [client EXCEPT ![x] = IF @ = "completing" THEN "completed" ELSE @]
      BY <2>2 DEF CompleteCommit
    <3> QED  BY <1>1, <2>1, <3>1
  <2>3. CASE ~CompleteCommit(w)
    <3>1. client' = client
      BY <1>6, <2>3 DEF HandlerStep, Abort, CompleteStatFinal, CompleteStatPending, CompleteCheckContent,
         CompleteDropPending, CompleteCopy, CompleteStatCopy, BindCommit,
         CompleteRemovePending, DiscardMark, DiscardRemoveFinal,
         DiscardRemovePending, DiscardCommit
    <3> QED  BY <2>1, <3>1
  <2> QED  BY <2>2, <2>3
<1>7. SweepStep => client' = client /\ age' = age
  BY DEF SweepStep, SweepSelect, SweepCommit, SweepAbort, SweepRemoveFinal,
     SweepRemovePending, SweepRemoveFails
<1>8. CASE \E v \in Uploads : ClientStep(v) \/ TimeStep(v)
  BY <1>3, <1>8
<1>9. CASE ~ \E v \in Uploads : ClientStep(v) \/ TimeStep(v)
  <2>1. /\ age'[u] = age[u]
        /\ client'[u] = client[u] \/ (client[u] = "completing" /\ client'[u] = "completed")
    BY <1>2, <1>4, <1>5, <1>6, <1>7, <1>9 DEF Next
  <2> QED  BY <2>1
<1> QED  BY <1>8, <1>9

\* A completion that goes on keeps the row it loaded, and has an object once
\* the copy is made.
LEMMA CompletionGoesOn ==
    ASSUME IInv, NEW w \in Workers, HandlerStep(w) \/ Abort(w), ~CompleteCommit(w),
           worker[w].pc \in Completing,
           worker[w].pc \in Copied => final[worker[w].u] # None
    PROVE  /\ row' = row
           /\ worker'[w] # None => worker'[w].seen = worker[w].seen
           /\ worker'[w] # None /\ worker'[w].pc \in Copied => final'[worker[w].u] # None
<1> USE DEF store, clientVars
<1> DEFINE x == worker[w].u
<1>1. /\ worker \in [Workers -> Job \cup {None}] /\ worker[w] \in Job /\ worker[w] # None
      /\ final \in [Uploads -> Objects] /\ x \in Uploads
      /\ JobInv(worker[w])
  BY HandlerJob DEF IInv, TypeOK
<1>2. ASSUME NEW step \in Steps, Goto(w, step)
      PROVE  worker'[w].pc = step /\ worker'[w].seen = worker[w].seen
  BY <1>1, <1>2 DEF Goto, Job
<1>3. ASSUME Finish(w) PROVE worker'[w] = None
  BY <1>1, <1>3 DEF Finish
<1>4. CASE CompleteStatFinal(w)
  <2>1. /\ row' = row /\ final' = final
        /\ \/ Finish(w) \/ Goto(w, "statPending")
           \/ final[x] \in Fitting /\ Goto(w, "removePending")
    BY <1>4 DEF CompleteStatFinal
  <2>2. CASE final[x] \in Fitting
    <3>1. final'[x] # None
      BY <2>1, <2>2, NoneAssumption, ContentsAssumption
    <3> QED  BY <1>2, <1>3, <2>1, <3>1 DEF Steps
  <2>3. CASE Finish(w) \/ Goto(w, "statPending")
    BY <1>2, <1>3, <2>1, <2>3 DEF Steps, Copied
  <2> QED  BY <2>1, <2>2, <2>3
<1>5. CASE CompleteStatPending(w)
  <2>1. row' = row
    BY <1>5 DEF CompleteStatPending
  <2>2. \/ Finish(w) \/ Goto(w, "dropPending")
        \/ \E e \in Fitting : worker' = [worker EXCEPT ![w] =
                               [@ EXCEPT !.pc = "content", !.etag = e]]
    BY <1>5 DEF CompleteStatPending
  <2>3. CASE Finish(w) \/ Goto(w, "dropPending")
    BY <1>2, <1>3, <2>1, <2>3 DEF Steps, Copied
  <2>4. ASSUME NEW e \in Fitting, worker' = [worker EXCEPT ![w] =
                                   [@ EXCEPT !.pc = "content", !.etag = e]]
        PROVE  worker'[w].pc = "content" /\ worker'[w].seen = worker[w].seen
    BY <1>1, <2>4 DEF Job
  <2> QED  BY <2>1, <2>2, <2>3, <2>4 DEF Copied
<1>6. CASE CompleteCopy(w)
  <2>1. row' = row /\ worker[w].pc = "copy"
    BY <1>6 DEF CompleteCopy, At
  <2>2. \/ Finish(w)
        \/ /\ pending[x] = worker[w].etag /\ Goto(w, "statCopy")
           /\ final' = [final EXCEPT ![x] = pending[x]]
    BY <1>6 DEF CompleteCopy
  <2>3. worker[w].etag # None
    BY <1>1, <2>1, NoneAssumption, ContentsAssumption DEF JobInv
  <2>4. CASE Finish(w)
    BY <1>3, <2>1, <2>4
  <2>5. CASE ~Finish(w)
    <3>1. final'[x] # None
      BY <1>1, <2>2, <2>3, <2>5
    <3> QED  BY <1>2, <2>1, <2>2, <2>5, <3>1 DEF Steps
  <2> QED  BY <2>4, <2>5
<1>7. CASE CompleteStatCopy(w)
  <2>1. row' = row
    BY <1>7 DEF CompleteStatCopy
  <2>2. \/ Finish(w)
        \/ final[x] \in Fitting /\ Goto(w, "removePending") /\ final' = final
    BY <1>7 DEF CompleteStatCopy
  <2>3. final[x] \in Fitting => final[x] # None
    BY NoneAssumption, ContentsAssumption
  <2> QED  BY <1>2, <1>3, <2>1, <2>2, <2>3 DEF Steps
<1>8. CASE CompleteRemovePending(w)
  <2>1. /\ row' = row /\ final' = final /\ Goto(w, "commitComplete")
        /\ worker[w].pc = "removePending"
    BY <1>8 DEF CompleteRemovePending, At
  <2> QED  BY <1>2, <2>1 DEF Steps, Copied
<1>9. CASE CompleteDropPending(w) \/ Abort(w)
  <2>1. row' = row /\ Finish(w)
    BY <1>9 DEF CompleteDropPending, Abort
  <2> QED  BY <1>3, <2>1
<1>10. CASE CompleteCheckContent(w)
  <2>1. row' = row /\ (Goto(w, "copy") \/ Goto(w, "dropPending"))
    BY <1>10 DEF CompleteCheckContent
  <2> QED  BY <1>2, <2>1 DEF Steps, Copied
<1>11. ~(BindCommit(w) \/ DiscardMark(w) \/ DiscardRemoveFinal(w)
           \/ DiscardRemovePending(w) \/ DiscardCommit(w))
  BY DEF BindCommit, DiscardMark, DiscardRemoveFinal, DiscardRemovePending,
     DiscardCommit, At, Completing, Copied
<1> QED  BY <1>4, <1>5, <1>6, <1>7, <1>8, <1>9, <1>10, <1>11 DEF HandlerStep

\* The commit of a completion and of a bind whose handler loaded the row as it
\* still is.
LEMMA CommitsInTime ==
    ASSUME TypeOK, NEW w \in Workers, NEW u \in Uploads, AtWork(u, w), NEW state,
           Waits(u, state), worker[w].seen = row[u]
    PROVE  /\ CompleteCommit(w) /\ state = "PENDING_UPLOAD" =>
                 Waits(u, "PENDING_MESSAGE")' /\ final' = final
           /\ BindCommit(w) /\ state = "PENDING_MESSAGE" =>
                 /\ row'[u] = [state |-> "BOUND", deleted |-> FALSE, cleanup |-> "null"]
                 /\ u \notin sweep'.batch /\ final' = final
<1> USE DEF store, clientVars
<1>1. /\ row \in [Uploads -> Row] /\ worker[w].u = u /\ u \notin sweep.batch
      /\ row[u] = [state |-> state, deleted |-> FALSE, cleanup |-> "ttl"]
  BY DEF TypeOK, AtWork, Waits
<1>2. ASSUME CompleteCommit(w), state = "PENDING_UPLOAD"
      PROVE  Waits(u, "PENDING_MESSAGE")' /\ final' = final
  <2>1. PICK same \in BOOLEAN :
           /\ row' = [row EXCEPT ![u] = Flush(@, row[u],
                 [row[u] EXCEPT !.state = "PENDING_MESSAGE", !.cleanup = "ttl"], same)]
           /\ sweep' = sweep /\ final' = final
    BY <1>1, <1>2 DEF CompleteCommit, Write
  <2>2. row'[u] = [state |-> "PENDING_MESSAGE", deleted |-> FALSE, cleanup |-> "ttl"]
    BY <1>1, <1>2, <2>1 DEF Flush
  <2> QED  BY <1>1, <2>1, <2>2 DEF Waits
<1>3. ASSUME BindCommit(w), state = "PENDING_MESSAGE"
      PROVE  /\ row'[u] = [state |-> "BOUND", deleted |-> FALSE, cleanup |-> "null"]
             /\ u \notin sweep'.batch /\ final' = final
  <2>1. PICK same \in BOOLEAN :
           /\ row' = [row EXCEPT ![u] = Flush(@, row[u],
                         [row[u] EXCEPT !.state = "BOUND", !.cleanup = "null"], same)]
           /\ sweep' = sweep /\ final' = final
    BY <1>1, <1>3 DEF BindCommit, Write
  <2>2. row'[u] = [state |-> "BOUND", deleted |-> FALSE, cleanup |-> "null"]
    BY <1>1, <1>3, <2>1 DEF Flush
  <2> QED  BY <1>1, <2>1, <2>2
<1> QED  BY <1>2, <1>3

\* A completion writes no row before its commit.
LEMMA CompletionOnlyCommits ==
    ASSUME TypeOK, NEW w \in Workers, HandlerStep(w) \/ Abort(w), ~CompleteCommit(w),
           worker[w].pc \in Completing
    PROVE  row' = row
<1> USE DEF store, clientVars
<1>1. ~(BindCommit(w) \/ DiscardMark(w) \/ DiscardRemoveFinal(w)
           \/ DiscardRemovePending(w) \/ DiscardCommit(w))
  BY DEF BindCommit, DiscardMark, DiscardRemoveFinal, DiscardRemovePending,
     DiscardCommit, At, Completing, Copied
<1> QED  BY <1>1 DEF HandlerStep, Abort, CompleteStatFinal, CompleteStatPending, CompleteCheckContent,
     CompleteDropPending, CompleteCopy, CompleteStatCopy, CompleteRemovePending

\* Until the ticket expires the row waits for its completion.
LEMMA InTimeKept ==
    ASSUME IInv, Next, NEW u \in Uploads, Traffic(u), Traffic(u)', InTime(u)
    PROVE  InTime(u)'
<1> USE DEF store, clientVars
<1> SUFFICES ASSUME client'[u] \in {"uploading", "uploaded", "completing"},
                    age'[u] # "expired"
             PROVE  Waits(u, "PENDING_UPLOAD")'
  BY DEF InTime
<1>1. TypeOK /\ BatchInv /\ row \in [Uploads -> Row]
  BY DEF IInv, TypeOK
<1>2. /\ client[u] \in {"new", "uploading", "uploaded", "completing"}
      /\ client[u] = "new" => CreateUpload(u)
      /\ age[u] # "expired"
  BY <1>1, ClientFrom
<1>3. CASE client[u] = "new"
  <2>1. /\ row' = [row EXCEPT ![u] = [state |-> "PENDING_UPLOAD",
                                      deleted |-> FALSE, cleanup |-> "ttl"]]
        /\ sweep' = sweep
    BY <1>2, <1>3 DEF CreateUpload
  <2>2. u \notin sweep.batch
    BY <1>1, <1>3 DEF BatchInv
  <2> QED  BY <1>1, <2>1, <2>2 DEF Waits
<1>4. CASE client[u] # "new"
  <2>1. Waits(u, "PENDING_UPLOAD")
    BY <1>2, <1>4 DEF InTime
  <2>2. ASSUME NEW w \in Workers, HandlerStep(w) \/ Abort(w), AtWork(u, w)
        PROVE  Waits(u, "PENDING_UPLOAD")'
    <3>1. client[u] = "completing" /\ worker[w].pc \in Completing
      BY <1>2, <1>4, <2>2 DEF Traffic, Idle
    <3>2. sweep' = sweep /\ worker[w].u = u
      BY <1>1, <2>2, HandlerFrame DEF AtWork
    <3>3. ~CompleteCommit(w)
      <4>1. CompleteCommit(w) => client'[u] = "completed"
        BY <1>1, <3>1, <3>2 DEF CompleteCommit, TypeOK
      <4> QED  BY <4>1
    <3> QED  BY <1>1, <2>1, <2>2, <3>1, <3>2, <3>3, CompletionOnlyCommits DEF Waits
  <2>3. ~CleanupFallsDue(u) /\ ~CreateUpload(u)
    BY <1>2, <1>4, <2>1 DEF CleanupFallsDue, CreateUpload, Waits
  <2>4. row[u].cleanup # "due" /\ u \notin sweep.batch
    BY <2>1 DEF Waits
  <2>5. CASE \A w \in Workers : HandlerStep(w) \/ Abort(w) => ~AtWork(u, w)
    <3>1. row'[u] = row[u] /\ u \notin sweep'.batch
      BY <1>1, <2>3, <2>4, <2>5, ParkedKept
    <3> QED  BY <2>1, <3>1 DEF Waits
  <2> QED  BY <2>2, <2>5
<1> QED  BY <1>3, <1>4

\* Nothing happens to the course of an upload while only requests vanish.
LEMMA CourseSame ==
    ASSUME NEW u, Course(u), client'[u] = client[u], u \in bound' => u \in bound,
           \A op \in Ops : Asked(u, op)' => Asked(u, op),
           \A w \in Workers : AtWork(u, w)' => worker'[w] = worker[w],
           row[u].cleanup # "due" /\ u \notin sweep.batch =>
              row'[u] = row[u] /\ u \notin sweep'.batch /\ final'[u] = final[u]
    PROVE  Course(u)'
<1>1. ASSUME NEW state, Waits(u, state)
      PROVE  Waits(u, state)' /\ row'[u] = row[u] /\ final'[u] = final[u]
  BY <1>1 DEF Waits
<1>2. \A w \in Workers : AtWork(u, w)' => AtWork(u, w)
  BY DEF AtWork
<1>3. ASSUME client'[u] = "completing", NEW w \in Workers, AtWork(u, w)'
      PROVE  /\ Waits(u, "PENDING_UPLOAD")' /\ worker'[w].seen = row'[u]
             /\ worker'[w].pc \in Copied => final'[u] # None
  <2>1. /\ Waits(u, "PENDING_UPLOAD") /\ worker[w].seen = row[u]
        /\ worker[w].pc \in Copied => final[u] # None
    BY <1>2, <1>3 DEF Course
  <2> QED  BY <1>1, <1>3, <2>1
<1>4. ASSUME client'[u] = "completed"
      PROVE  Waits(u, "PENDING_MESSAGE")' /\ final'[u] # None
  BY <1>1, <1>4 DEF Course
<1>5. ASSUME client'[u] = "binding", Asked(u, "bind")'
      PROVE  Waits(u, "PENDING_MESSAGE")' /\ final'[u] # None
  BY <1>1, <1>5 DEF Course, Ops
<1>6. ASSUME client'[u] = "binding", NEW w \in Workers, AtWork(u, w)'
      PROVE  /\ Waits(u, "PENDING_MESSAGE")' /\ worker'[w].seen = row'[u]
             /\ final'[u] # None
  <2>1. /\ Waits(u, "PENDING_MESSAGE") /\ worker[w].seen = row[u]
        /\ final[u] # None
    BY <1>2, <1>6 DEF Course
  <2> QED  BY <1>1, <1>6, <2>1
<1>7. ASSUME u \in bound'
      PROVE  /\ row'[u] = [state |-> "BOUND", deleted |-> FALSE, cleanup |-> "null"]
             /\ u \notin sweep'.batch /\ final'[u] # None
  <2>1. /\ row[u] = [state |-> "BOUND", deleted |-> FALSE, cleanup |-> "null"]
        /\ u \notin sweep.batch /\ final[u] # None
    BY <1>7 DEF Course
  <2> QED  BY <2>1
<1> QED  BY <1>3, <1>4, <1>5, <1>6, <1>7 DEF Course

\* A handler works on the upload whose course it is.
LEMMA CourseHandler ==
    ASSUME IInv, NEW w \in Workers, HandlerStep(w) \/ Abort(w), NEW u \in Uploads,
           AtWork(u, w), Traffic(u), Course(u)
    PROVE  Course(u)'
<1> USE DEF store, clientVars
<1>1. /\ TypeOK /\ worker[w].u = u /\ inbox' = inbox
      /\ \A v \in Workers : v # w => worker'[v] = worker[v]
      /\ worker \in [Workers -> Job \cup {None}]
      /\ client \in [Uploads -> {"new", "uploading", "uploaded", "completing",
                                 "completed", "binding", "discarding"}]
  BY HandlerFrame DEF IInv, TypeOK, AtWork
<1>2. u \notin bound /\ client[u] \in {"completing", "binding", "discarding"}
  BY <1>1 DEF Traffic, Idle
<1>3. ~BindCommit(w) => bound' = bound
  BY DEF HandlerStep, Abort, CompleteStatFinal, CompleteStatPending, CompleteCheckContent,
     CompleteDropPending, CompleteCopy, CompleteStatCopy, CompleteRemovePending,
     CompleteCommit, DiscardMark, DiscardRemoveFinal, DiscardRemovePending,
     DiscardCommit
<1>4. ~CompleteCommit(w) => client' = client
  BY DEF HandlerStep, Abort, CompleteStatFinal, CompleteStatPending, CompleteCheckContent,
     CompleteDropPending, CompleteCopy, CompleteStatCopy, CompleteRemovePending,
     BindCommit, DiscardMark, DiscardRemoveFinal, DiscardRemovePending,
     DiscardCommit
<1>5. BindCommit(w) => worker[w].pc = "commitBind"
  BY DEF BindCommit, At
<1>6. CompleteCommit(w) => /\ worker[w].pc = "commitComplete"
                           /\ client' = [client EXCEPT ![u] =
                                 IF @ = "completing" THEN "completed" ELSE @]
  BY <1>1 DEF CompleteCommit, At
<1>7. ASSUME Lone(u), NEW v \in Workers, AtWork(u, v)' PROVE v = w
  <2>1. v # w => AtWork(u, v)
    BY <1>1, <1>7 DEF AtWork
  <2> QED  BY <1>7, <2>1 DEF Lone
<1>8. CASE client[u] = "completing"
  <2>1. /\ Lone(u) /\ worker[w].pc \in Completing
        /\ Waits(u, "PENDING_UPLOAD") /\ worker[w].seen = row[u]
        /\ worker[w].pc \in Copied => final[u] # None
    BY <1>8 DEF Traffic, Course
  <2>2. ~BindCommit(w)
    BY <1>5, <2>1 DEF Completing, Copied
  <2>3. CASE CompleteCommit(w)
    <3>1. client'[u] = "completed"
      BY <1>1, <1>6, <1>8, <2>3
    <3>2. Waits(u, "PENDING_MESSAGE")' /\ final'[u] # None
      BY <1>1, <1>6, <2>1, <2>3, CommitsInTime DEF Copied
    <3> QED  BY <1>2, <1>3, <2>2, <3>1, <3>2 DEF Course
  <2>4. CASE ~CompleteCommit(w)
    <3>1. /\ row' = row
          /\ worker'[w] # None => worker'[w].seen = worker[w].seen
          /\ worker'[w] # None /\ worker'[w].pc \in Copied => final'[u] # None
      BY <1>1, <2>1, <2>4, CompletionGoesOn
    <3>2. Waits(u, "PENDING_UPLOAD")'
      BY <1>1, <2>1, <3>1, HandlerFrame DEF Waits
    <3>3. ASSUME NEW v \in Workers, AtWork(u, v)'
          PROVE  /\ worker'[v].seen = row'[u]
                 /\ worker'[v].pc \in Copied => final'[u] # None
      <4>1. v = w /\ worker'[w] # None
        BY <1>7, <2>1, <3>3 DEF AtWork
      <4> QED  BY <2>1, <3>1, <4>1
    <3>4. client'[u] = "completing" /\ u \notin bound'
      BY <1>2, <1>3, <1>4, <1>8, <2>2, <2>4
    <3> QED  BY <3>2, <3>3, <3>4 DEF Course
  <2> QED  BY <2>3, <2>4
<1>9. CASE client[u] = "binding"
  <2>1. /\ Lone(u) /\ ~Asked(u, "bind") /\ worker[w].pc = "commitBind"
        /\ Waits(u, "PENDING_MESSAGE") /\ worker[w].seen = row[u]
        /\ final[u] # None
    BY <1>9 DEF Traffic, Course, Lone, Ops
  <2>2. worker'[w] = None
    BY <1>1, <2>1, HandlerKind DEF Completing, Copied, Discarding
  <2>3. ~Asked(u, "bind")' /\ \A v \in Workers : ~AtWork(u, v)'
    BY <1>1, <1>7, <2>1, <2>2 DEF Asked, AtWork
  <2>4. client'[u] = "binding"
    BY <1>4, <1>6, <1>9, <2>1
  <2>5. ASSUME u \in bound'
        PROVE  /\ row'[u] = [state |-> "BOUND", deleted |-> FALSE, cleanup |-> "null"]
               /\ u \notin sweep'.batch /\ final'[u] # None
    <3>1. BindCommit(w)
      BY <1>2, <1>3, <2>5
    <3> QED  BY <1>1, <2>1, <3>1, CommitsInTime
  <2> QED  BY <2>3, <2>4, <2>5 DEF Course
<1>10. CASE client[u] = "discarding"
  <2>1. worker[w].pc # "commitBind"
    BY <1>10 DEF Traffic
  <2>2. u \notin bound'
    BY <1>2, <1>3, <1>5, <2>1
  <2>3. client'[u] = "discarding"
    BY <1>1, <1>4, <1>6, <1>10
  <2> QED  BY <2>2, <2>3 DEF Course
<1> QED  BY <1>2, <1>8, <1>9, <1>10

\* Nobody moves a parked row, or its object.
Calm(u) == row[u].cleanup # "due" /\ u \notin sweep.batch =>
              row'[u] = row[u] /\ u \notin sweep'.batch /\ final'[u] = final[u]

\* The client goes on, or time passes, without the cleanup falling due.
LEMMA CourseClient ==
    ASSUME TypeOK, redeliveries' = redeliveries, NEW v \in Uploads,
           ClientStep(v) \/ TimeStep(v), NEW u \in Uploads, Calm(u),
           Traffic(u), Course(u), ~CreateUpload(u)
    PROVE  Course(u)'
<1> USE DEF store, clientVars
<1>1. /\ client \in [Uploads -> {"new", "uploading", "uploaded", "completing",
                                 "completed", "binding", "discarding"}]
      /\ redeliveries \in Nat
  BY RedeliveriesAssumption DEF TypeOK
<1>2. UNCHANGED <<worker, bound>>
  BY OthersFrame
<1>3. \A w \in Workers : AtWork(u, w)' <=> AtWork(u, w)
  BY <1>2 DEF AtWork
<1>4. ASSUME client'[u] = client[u], \A op \in Ops : Asked(u, op)' => Asked(u, op)
      PROVE  Course(u)'
  BY <1>2, <1>4, CourseSame DEF Calm
<1>5. ~Redeliver(v)
  BY <1>1 DEF Redeliver
<1>6. CASE LeaveConversation(v) \/ Age(v) \/ CleanupFallsDue(v)
  <2>1. UNCHANGED <<client, inbox>>
    BY <1>6 DEF LeaveConversation, Age, CleanupFallsDue
  <2> QED  BY <1>4, <2>1 DEF Asked
<1>7. CASE CreateUpload(v)
  <2>1. v # u /\ inbox' = inbox /\ client' = [client EXCEPT ![v] = "uploading"]
    BY <1>7 DEF CreateUpload
  <2>2. client'[u] = client[u]
    BY <1>1, <2>1
  <2> QED  BY <1>4, <2>1, <2>2 DEF Asked
<1>8. ASSUME NEW c \in Contents, PutObject(v, c) PROVE Course(u)'
  <2>1. /\ inbox' = inbox
        /\ client' = [client EXCEPT ![v] = IF @ = "uploading" THEN "uploaded" ELSE @]
    BY <1>8 DEF PutObject
  <2>2. CASE client'[u] = client[u]
    BY <1>4, <2>1, <2>2 DEF Asked
  <2>3. CASE client'[u] # client[u]
    <3>1. client[u] = "uploading" /\ client'[u] = "uploaded"
      BY <1>1, <2>1, <2>3
    <3>2. u \notin bound'
      BY <1>2, <3>1 DEF Traffic
    <3> QED  BY <3>1, <3>2 DEF Course
  <2> QED  BY <2>2, <2>3
<1>9. ASSUME NEW op \in Ops, NEW c \in {"completing", "discarding", "binding"},
             inbox' = inbox \cup {[op |-> op, u |-> v]}, client' = [client EXCEPT ![v] = c],
             \/ client[v] = "uploaded" /\ c = "completing" /\ op = "complete"
             \/ client[v] \in {"uploading", "completing", "completed"}
                   /\ c = "discarding" /\ op = "discard"
             \/ client[v] = "completed" /\ c = "binding" /\ op = "bind"
      PROVE  Course(u)'
  <2>1. CASE u # v
    <3>1. client'[u] = client[u] /\ \A p \in Ops : Asked(u, p)' => Asked(u, p)
      BY <1>1, <1>9, <2>1 DEF Asked
    <3> QED  BY <1>4, <3>1
  <2>2. CASE u = v
    <3>1. client'[u] = c
      BY <1>1, <1>9, <2>2
    <3>2. u \notin bound'
      BY <1>2, <1>9, <2>2 DEF Traffic
    <3>3. CASE c = "completing"
      <4>1. \A w \in Workers : ~AtWork(u, w)'
        BY <1>3, <1>9, <2>2, <3>3 DEF Traffic, Idle
      <4> QED  BY <3>1, <3>2, <3>3, <4>1 DEF Course
    <3>4. CASE c = "binding"
      <4>1. \A w \in Workers : ~AtWork(u, w)'
        BY <1>3, <1>9, <2>2, <3>4 DEF Traffic, Idle
      <4>2. Waits(u, "PENDING_MESSAGE") /\ final[u] # None
        BY <1>9, <2>2, <3>4 DEF Course
      <4>3. Waits(u, "PENDING_MESSAGE")' /\ final'[u] # None
        BY <4>2 DEF Waits, Calm
      <4> QED  BY <3>1, <3>2, <3>4, <4>1, <4>3 DEF Course
    <3>5. CASE c = "discarding"
      BY <3>1, <3>2, <3>5 DEF Course
    <3> QED  BY <3>3, <3>4, <3>5
  <2> QED  BY <2>1, <2>2
<1>10. CASE \/ SendComplete(v) \/ GiveUp(v)
            \/ PublishAcknowledged(v) \/ PublishUnacknowledged(v)
  <2>1. CASE SendComplete(v)
    BY <1>9, <2>1 DEF SendComplete, Send, Ops
  <2>2. CASE GiveUp(v)
    BY <1>9, <2>2 DEF GiveUp, Send, Ops
  <2>3. CASE PublishAcknowledged(v)
    BY <1>9, <2>3 DEF PublishAcknowledged, Send, Ops
  <2>4. CASE PublishUnacknowledged(v)
    BY <1>9, <2>4 DEF PublishUnacknowledged, Send, Ops
  <2> QED  BY <1>10, <2>1, <2>2, <2>3, <2>4
<1> QED  BY <1>5, <1>6, <1>7, <1>8, <1>10 DEF ClientStep, TimeStep

\* A completion is begun before the ticket expires, a bind on a row that waits.
LEMMA CourseRequest ==
    ASSUME TypeOK, NEW w \in Workers, NEW v \in Uploads, RequestStep(w, v),
           NEW u \in Uploads, Calm(u), Traffic(u), InTime(u), Course(u)
    PROVE  Course(u)'
<1> USE DEF store, clientVars
<1>1. worker \in [Workers -> Job \cup {None}]
  BY DEF TypeOK
<1>2. UNCHANGED <<client, bound>>
  BY DEF RequestStep, CompleteBegin, BindBegin, DiscardBegin, Refuse
<1>3. PICK op \in Ops : Take(w, op, v)
  BY DEF RequestStep, CompleteBegin, BindBegin, DiscardBegin, Refuse, Ops
<1>4. /\ worker[w] = None /\ Asked(v, op)
      /\ inbox' = inbox \ {[op |-> op, u |-> v]}
  BY <1>3 DEF Take, Asked
<1>5. \A p \in Ops : Asked(u, p)' => Asked(u, p)
  BY <1>4 DEF Asked
<1>6. ASSUME \A x \in Workers : AtWork(u, x)' => worker'[x] = worker[x]
      PROVE  Course(u)'
  BY <1>2, <1>5, <1>6, CourseSame DEF Calm
<1>7. CASE Refuse(w, v)
  BY <1>6, <1>7 DEF Refuse
<1>8. CASE ~Refuse(w, v)
  <2>1. PICK step \in Steps : /\ Begin(w, v, step)
                    /\ \/ step = "statFinal" /\ CompleteBegin(w, v)
                       \/ step = "commitBind" /\ BindBegin(w, v)
                       \/ step = "markDelete" /\ DiscardBegin(w, v)
    BY <1>8 DEF RequestStep, CompleteBegin, BindBegin, DiscardBegin, Steps
  <2>2. /\ worker'[w] = [u |-> v, pc |-> step, seen |-> row[v], etag |-> None]
        /\ \A x \in Workers : x # w => worker'[x] = worker[x]
    BY <1>1, <2>1 DEF Begin
  <2>3. CASE u # v
    BY <1>6, <2>2, <2>3 DEF AtWork
  <2>4. CASE u = v
    <3>1. ~Idle(u) /\ u \notin bound
      BY <1>4, <2>4 DEF Idle, Traffic
    <3>2. worker'[w].pc = step /\ worker'[w].seen = row[u]
      BY <2>2, <2>4
    <3>3. ASSUME client[u] \in {"completing", "binding"}, NEW x \in Workers, AtWork(u, x)'
          PROVE  x = w
      <4>1. x # w => AtWork(u, x)
        BY <2>2, <3>3 DEF AtWork
      <4> QED  BY <1>4, <2>4, <3>3, <4>1 DEF Traffic, Lone
    <3>4. CASE client[u] = "completing"
      <4>1. CompleteBegin(w, u) /\ step = "statFinal"
        BY <2>1, <2>4, <3>4 DEF Traffic, BindBegin, DiscardBegin, Take, Asked
      <4>2. age[u] # "expired"
        BY <4>1 DEF CompleteBegin
      <4>3. Waits(u, "PENDING_UPLOAD")
        BY <3>4, <4>2 DEF InTime
      <4>4. Waits(u, "PENDING_UPLOAD")' /\ row'[u] = row[u]
        BY <4>3 DEF Waits, Calm
      <4>5. worker'[w].pc \notin Copied
        BY <3>2, <4>1 DEF Copied
      <4>6. client'[u] = "completing" /\ u \notin bound'
        BY <1>2, <3>1, <3>4
      <4>7. ASSUME NEW x \in Workers, AtWork(u, x)'
            PROVE  worker'[x].seen = row'[u] /\ worker'[x].pc \notin Copied
        BY <3>2, <3>3, <3>4, <4>4, <4>5, <4>7
      <4> QED  BY <4>4, <4>6, <4>7 DEF Course
    <3>6. CASE client[u] = "binding"
      <4>1. BindBegin(w, u)
        BY <2>1, <2>4, <3>6 DEF Traffic, CompleteBegin, DiscardBegin, Take, Asked
      <4>2. Asked(u, "bind")
        BY <4>1 DEF BindBegin, Take, Asked
      <4>3. Waits(u, "PENDING_MESSAGE") /\ final[u] # None
        BY <3>6, <4>2 DEF Course
      <4>4. Waits(u, "PENDING_MESSAGE")' /\ row'[u] = row[u] /\ final'[u] # None
        BY <4>3 DEF Waits, Calm
      <4>5. client'[u] = "binding" /\ u \notin bound'
        BY <1>2, <3>1, <3>6
      <4>6. ASSUME NEW x \in Workers, AtWork(u, x)' PROVE worker'[x].seen = row'[u]
        BY <3>2, <3>3, <3>6, <4>4, <4>6
      <4> QED  BY <4>4, <4>5, <4>6 DEF Course
    <3>5. CASE client[u] = "discarding"
      BY <1>2, <3>1, <3>5 DEF Course
    <3> QED  BY <3>1, <3>4, <3>5, <3>6 DEF TypeOK, Traffic
  <2> QED  BY <2>3, <2>4
<1> QED  BY <1>7, <1>8

\* The way of an upload to its message goes on, whoever steps, until the
\* cleanup falls due on it.
LEMMA CourseKept ==
    ASSUME IInv, Next, redeliveries' = redeliveries, NEW u \in Uploads, u \notin late',
           Traffic(u), InTime(u), Course(u)
    PROVE  Course(u)'
<1> USE DEF store, clientVars
<1>1. TypeOK /\ row \in [Uploads -> Row]
  BY DEF IInv, TypeOK
<1>2. ASSUME NEW w \in Workers, HandlerStep(w) \/ Abort(w), AtWork(u, w)
      PROVE  Course(u)'
  BY <1>2, CourseHandler
<1>3. CASE CreateUpload(u)
  <2>1. client[u] = "new" /\ client'[u] = "uploading" /\ bound' = bound
    BY <1>1, <1>3 DEF CreateUpload, TypeOK
  <2>2. u \notin bound
    BY <2>1 DEF Traffic
  <2> QED  BY <2>1, <2>2 DEF Course
<1>4. CASE CleanupFallsDue(u)
  <2>1. /\ ~Underway(u) /\ row[u].cleanup # "null"
        /\ UNCHANGED <<client, inbox, worker, bound>>
    BY <1>1, <1>4 DEF CleanupFallsDue
  <2>2. client[u] \notin {"completing", "completed"} /\ ~Asked(u, "bind")
    BY <2>1 DEF Underway, Asked, Requests
  <2>3. ASSUME client[u] = "binding", NEW w \in Workers PROVE ~AtWork(u, w)
    <3>1. AtWork(u, w) => worker[w].pc = "commitBind"
      BY <2>3 DEF Traffic
    <3> QED  BY <2>1, <3>1 DEF Underway, AtWork
  <2>4. u \notin bound
    BY <2>1 DEF Course
  <2> QED  BY <2>1, <2>2, <2>3, <2>4 DEF Course, Asked, AtWork
<1>5. CASE /\ ~CreateUpload(u) /\ ~CleanupFallsDue(u)
           /\ \A w \in Workers : HandlerStep(w) \/ Abort(w) => ~AtWork(u, w)
  <2>1. Calm(u)
    BY <1>1, <1>5, ParkedKept DEF Calm
  <2>2. ASSUME NEW v \in Uploads, ClientStep(v) \/ TimeStep(v) PROVE Course(u)'
    BY <1>1, <1>5, <2>1, <2>2, CourseClient
  <2>3. ASSUME NEW r \in Requests, LoseRequest(r) PROVE Course(u)'
    <3>1. UNCHANGED <<client, bound, worker>> /\ inbox' = inbox \ {r}
      BY <2>3 DEF LoseRequest
    <3> QED  BY <2>1, <3>1, CourseSame DEF Calm, Asked
  <2>4. ASSUME NEW w \in Workers, NEW v \in Uploads, RequestStep(w, v) PROVE Course(u)'
    BY <1>1, <2>1, <2>4, CourseRequest
  <2>5. ASSUME NEW w \in Workers, HandlerStep(w) \/ Abort(w) PROVE Course(u)'
    <3>1. /\ worker[w] # None /\ inbox' = inbox
          /\ \A v \in Workers : v # w => worker'[v] = worker[v]
          /\ worker'[w] = None \/ (worker'[w] \in Job /\ worker'[w].u = worker[w].u)
      BY <1>1, <2>5, HandlerJob, HandlerFrame
    <3>2. u # worker[w].u
      BY <1>5, <2>5, <3>1 DEF AtWork
    <3>3. client'[u] = client[u] /\ (u \in bound' <=> u \in bound)
      BY <1>1, <2>5, <3>2, HandlerElsewhere
    <3>4. \A x \in Workers : AtWork(u, x)' => worker'[x] = worker[x]
      BY <3>1, <3>2 DEF AtWork
    <3> QED  BY <2>1, <3>1, <3>3, <3>4, CourseSame DEF Calm, Asked
  <2>6. CASE SweepStep
    <3>1. UNCHANGED <<worker, bound>>
      BY <1>1, <2>6, OthersFrame
    <3>2. UNCHANGED <<client, inbox>>
      BY <2>6 DEF SweepStep, SweepSelect, SweepCommit, SweepAbort, SweepRemoveFinal,
         SweepRemovePending, SweepRemoveFails
    <3> QED  BY <2>1, <3>1, <3>2, CourseSame DEF Calm, Asked
  <2> QED  BY <2>2, <2>3, <2>4, <2>5, <2>6 DEF Next
<1> QED  BY <1>2, <1>3, <1>4, <1>5

\* Only the commit of its bind writes the row of an upload that was bound, and
\* a cleanup job that had loaded it before, which schedules it again.
LEMMA BoundRowKept ==
    ASSUME IInv, Next, NEW u \in Uploads, Traffic(u), Kept(u)
    PROVE  Kept(u)'
<1> SUFFICES ASSUME u \in bound'
             PROVE  \/ row'[u].state = "BOUND" \/ row'[u].deleted
                    \/ row'[u].cleanup # "null"
  BY DEF Kept
<1>1. TypeOK /\ row \in [Uploads -> Row]
  BY DEF IInv, TypeOK
<1>2. CASE u \notin bound
  <2>1. PICK w \in Workers : BindCommit(w) /\ worker[w].u = u
    <3>0. ASSUME NEW w \in Workers, NEW v \in Uploads, RequestStep(w, v)
          PROVE  bound' = bound
      BY <3>0 DEF RequestStep, CompleteBegin, BindBegin, DiscardBegin, Refuse
    <3>1. PICK w \in Workers : (HandlerStep(w) \/ Abort(w)) /\ bound' # bound
      BY <1>1, <1>2, <3>0, OthersFrame DEF Next
    <3>2. BindCommit(w)
      BY <3>1 DEF HandlerStep, Abort, CompleteStatFinal, CompleteStatPending,
         CompleteCheckContent, CompleteDropPending, CompleteCopy,
         CompleteStatCopy, CompleteRemovePending, CompleteCommit, DiscardMark,
         DiscardRemoveFinal, DiscardRemovePending, DiscardCommit, store, clientVars
    <3> QED  BY <1>2, <3>2 DEF BindCommit
  <2>2. worker[w] # None /\ worker[w].seen \in Row /\ worker[w].pc = "commitBind"
    BY <1>1, <2>1 DEF BindCommit, At, TypeOK, Job
  <2>3. worker[w].seen.state = "PENDING_MESSAGE"
    BY <2>2 DEF IInv, JobInv
  <2>4. PICK same \in BOOLEAN :
           row' = [row EXCEPT ![u] = Flush(@, worker[w].seen,
              [worker[w].seen EXCEPT !.state = "BOUND", !.cleanup = "null"], same)]
    BY <2>1 DEF BindCommit, Write
  <2>5. row'[u].state = "BOUND"
    BY <1>1, <2>2, <2>3, <2>4 DEF Flush, Row
  <2> QED  BY <2>5
<1>3. CASE u \in bound
  <2>1. /\ client[u] = "binding" /\ \A w \in Workers : ~AtWork(u, w)
        /\ row[u].state = "BOUND" \/ row[u].deleted \/ row[u].cleanup # "null"
    BY <1>3 DEF Traffic, Idle, Kept
  <2>2. CASE UNCHANGED row
    BY <2>1, <2>2
  <2>3. ASSUME NEW v \in Uploads, CreateUpload(v) PROVE row'[u] = row[u]
    BY <1>1, <2>1, <2>3 DEF CreateUpload
  <2>4. ASSUME NEW v \in Uploads, CleanupFallsDue(v)
        PROVE  row'[u] = row[u] \/ row'[u].cleanup # "null"
    <3>1. row' = [row EXCEPT ![v].cleanup = "due"]
      BY <2>4 DEF CleanupFallsDue
    <3> QED  BY <1>1, <3>1 DEF Row
  <2>5. ASSUME NEW w \in Workers, RegistryCommit(w) PROVE row'[u] = row[u]
    <3>1. HandlerStep(w)
      BY <2>5 DEF RegistryCommit, HandlerStep
    <3>2. worker[w] # None
      BY <1>1, <3>1, HandlerJob
    <3> QED  BY <1>1, <2>1, <3>1, <3>2, HandlerElsewhere DEF AtWork
  <2>6. CASE SweepCommit
    BY <2>1, <2>6, SweepCommitFacts
  <2> QED  BY <2>1, <2>2, <2>3, <2>4, <2>5, <2>6, WhoWritesRows
<1> QED  BY <1>2, <1>3

\* A step that repeats no completion keeps the ways of all uploads.
LEMMA BindInvNext ==
    ASSUME IInv, BindInv, Next
    PROVE  BindInv'
<1> USE DEF store, clientVars
<1> SUFFICES ASSUME redeliveries' = 0 PROVE BindInv'
  BY DEF BindInv
<1>1. redeliveries \in Nat /\ TypeOK
  BY RedeliveriesAssumption DEF IInv, TypeOK
<1>2. redeliveries' = redeliveries \/ redeliveries' = redeliveries + 1
  <2>1. ASSUME NEW u \in Uploads, ClientStep(u) \/ TimeStep(u)
        PROVE  redeliveries' = redeliveries \/ redeliveries' = redeliveries + 1
    BY <2>1 DEF ClientStep, TimeStep, CreateUpload, SendComplete, GiveUp,
       PublishAcknowledged, PublishUnacknowledged, Redeliver,
       LeaveConversation, PutObject, Age, CleanupFallsDue
  <2>2. ASSUME NEW r \in Requests, LoseRequest(r) PROVE redeliveries' = redeliveries
    BY <2>2 DEF LoseRequest
  <2>3. ASSUME NEW w \in Workers, NEW u \in Uploads, RequestStep(w, u)
        PROVE  redeliveries' = redeliveries
    BY <2>3 DEF RequestStep, CompleteBegin, BindBegin, DiscardBegin, Refuse
  <2>4. ASSUME NEW w \in Workers, HandlerStep(w) \/ Abort(w)
        PROVE  redeliveries' = redeliveries
    BY <1>1, <2>4, HandlerFrame
  <2>5. SweepStep => redeliveries' = redeliveries
    BY DEF SweepStep, SweepSelect, SweepCommit, SweepAbort, SweepRemoveFinal,
       SweepRemovePending, SweepRemoveFails
  <2> QED  BY <2>1, <2>2, <2>3, <2>4, <2>5 DEF Next
<1>3. redeliveries = 0 /\ redeliveries' = redeliveries
  BY <1>1, <1>2
<1>4. late \subseteq late'
  <2>1. ASSUME NEW u \in Uploads, ClientStep(u) \/ TimeStep(u)
        PROVE  late' = late \/ late' = late \cup {u}
    BY <2>1 DEF ClientStep, TimeStep, CreateUpload, SendComplete, GiveUp,
       PublishAcknowledged, PublishUnacknowledged, Redeliver,
       LeaveConversation, PutObject, Age, CleanupFallsDue
  <2>2. ASSUME NEW r \in Requests, LoseRequest(r) PROVE late' = late
    BY <2>2 DEF LoseRequest
  <2>3. ASSUME NEW w \in Workers, NEW u \in Uploads, RequestStep(w, u)
        PROVE  late' = late
    BY <2>3 DEF RequestStep, CompleteBegin, BindBegin, DiscardBegin, Refuse
  <2>4. ASSUME NEW w \in Workers, HandlerStep(w) \/ Abort(w) PROVE late' = late
    BY <1>1, <2>4, HandlerFrame
  <2>5. SweepStep => late' = late
    BY DEF SweepStep, SweepSelect, SweepCommit, SweepAbort, SweepRemoveFinal,
       SweepRemovePending, SweepRemoveFails
  <2> QED  BY <2>1, <2>2, <2>3, <2>4, <2>5 DEF Next
<1>5. ASSUME NEW u \in Uploads PROVE Traffic(u)' /\ InTime(u)' /\ Kept(u)'
  <2>1. Traffic(u) /\ InTime(u) /\ Kept(u)
    BY <1>3 DEF BindInv
  <2>2. Traffic(u)'
    BY <1>1, <1>3, <2>1, TrafficKept
  <2> QED  BY <2>1, <2>2, InTimeKept, BoundRowKept
<1>6. ASSUME NEW u \in Uploads, u \notin late' PROVE Course(u)'
  <2>1. Traffic(u) /\ InTime(u) /\ Course(u)
    BY <1>3, <1>4, <1>6 DEF BindInv
  <2> QED  BY <1>3, <1>6, <2>1, CourseKept
<1> QED  BY <1>5, <1>6 DEF BindInv

\* The way of every upload to its message is kept.
THEOREM BindInvariance == Spec => []BindInv
<1>1. Init => BindInv
  <2> SUFFICES ASSUME Init, NEW u \in Uploads
               PROVE  Traffic(u) /\ InTime(u) /\ Kept(u) /\ Course(u)
    BY DEF BindInv
  <2>1. client[u] = "new" /\ u \notin bound
    BY DEF Init
  <2>2. Idle(u)
    BY DEF Init, Idle, Asked, AtWork
  <2> QED  BY <2>1, <2>2 DEF Traffic, InTime, Kept, Course
<1>2. IInv /\ BindInv /\ [Next]_vars => BindInv'
  <2> SUFFICES ASSUME IInv, BindInv, [Next]_vars PROVE BindInv'
    OBVIOUS
  <2>1. CASE Next
    BY <2>1, BindInvNext
  <2>2. CASE UNCHANGED vars
    BY <2>2 DEF vars, BindInv, Traffic, InTime, Kept, Course, Idle, Lone, Waits, Asked,
         AtWork
  <2> QED  BY <2>1, <2>2
<1> QED  BY <1>1, <1>2, Invariance, PTL DEF Spec

\* No interleaving of handlers, crashes and cleanup loses track of an upload
\* that was never bound, nor of any upload of a run without repeated completions.
THEOREM NoUploadForgotten == Spec => []NeverForgotten
<1>1. IInv /\ BindInv => NeverForgotten
  <2> SUFFICES ASSUME IInv, BindInv, NEW u \in Uploads, Registered(u),
                      row[u].state # "BOUND", u \notin bound \/ redeliveries = 0
               PROVE  row[u].cleanup # "null"
    BY DEF NeverForgotten
  <2>1. client[u] # "new" /\ ~row[u].deleted
    BY DEF IInv, Registered, NoRow
  <2>2. CASE u \notin bound
    BY <2>1, <2>2 DEF IInv, Scheduled
  <2>3. CASE u \in bound
    BY <2>1, <2>3 DEF BindInv, Kept
  <2> QED  BY <2>2, <2>3
<1> QED  BY <1>1, Invariance, BindInvariance, PTL

\* If no completion is repeated, an object that was bound to its message stays
\* and its row stays bound, unless the cleanup fell due during the completion
\* or the bind: no discard, handler or sweep that is still under way undoes it.
THEOREM BoundObjectsKept == Spec => []BoundMediaKept
<1>1. IInv /\ BindInv => BoundMediaKept
  <2> SUFFICES ASSUME IInv, BindInv, redeliveries = 0, NEW u \in bound \ late
               PROVE  /\ final[u] # None
                      /\ Registered(u) /\ row[u].state = "BOUND"
    BY DEF BoundMediaKept
  <2>1. u \in Uploads \ late
    BY DEF IInv, TypeOK
  <2>2. Course(u)
    BY <2>1 DEF BindInv
  <2> QED  BY <2>2 DEF Course, Registered
<1> QED  BY <1>1, Invariance, BindInvariance, PTL
=============================================================================
