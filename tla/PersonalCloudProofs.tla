------------------------ MODULE PersonalCloudProofs -------------------------
(***************************************************************************)
(* Theorems about PersonalCloud, for any number of files and workers, any  *)
(* sizes and any number of faults.                                         *)
(*                                                                         *)
(* Whether or not completions are prompt: type correctness, and that a     *)
(* deletion, once accepted, is final.  The states of a client order what   *)
(* may happen to its row: an insertion belongs to a client that is         *)
(* creating, a completion to one that is completing, each at most to one   *)
(* worker, and only rows of clients past both are listed or deleted        *)
(* (Phases).                                                               *)
(*                                                                         *)
(* If completions are prompt: what is listed is stored and stays, and no   *)
(* object is left behind.  Deletions and the cleanup job touch only what   *)
(* is deleted or expired (Gone), and completions only what is neither, so  *)
(* that what each of them has read or removed is still so when it commits  *)
(* (Kept).                                                                 *)
(*                                                                         *)
(* The quota: a file that passed the check is claimed until its row is     *)
(* deleted or its request dies, and what is claimed stays within the quota *)
(* and one largest file for every further worker (ClaimBounded).  The sum  *)
(* is a fold over a set: Induct, from the principle of the least number,   *)
(* gives the facts about it, by induction over the number of files.        *)
(***************************************************************************)
EXTENDS PersonalCloud, FiniteSetTheorems, WellFoundedInduction, TLAPS

\* The steps of delete_personal_cloud_file.
DeleteSteps == {"mark", "removeFinal", "removePending", "commitDeleted",
                "commitRetry"}

\* What a client is that waits for no ticket and no completion.
Past == {"completed", "stopped"}

\* A client that waits for its completion.
Midway == {"completing", "completingBad"}

\* How far a client is tells which requests of its file a worker may be at.
Phases ==
    /\ \A w \in Workers :
          /\ job[w].at = "insert" => client[job[w].up] = "creating"
          /\ job[w].at \in CompleteSteps => client[job[w].up] \in Midway
          /\ job[w].at \in DeleteSteps => client[job[w].up] \in Past
    /\ \A v, w \in Workers :
          /\ v # w /\ job[v].at \in CompleteSteps \cup {"insert"}
          /\ job[w].at \in CompleteSteps \cup {"insert"}
          => job[v].up # job[w].up
    /\ \A u \in Uploads :
          u \in asked \/ row[u].state = "ACTIVE" => client[u] \in Past

\* The inductive invariant.
IInv == TypeOK /\ Phases /\ DeletedForEver

\* The uploads that nobody completes any more.
Gone == asked \cup expired

\* For prompt completions: the job and the deletions only touch what is gone,
\* a listed file is not, and what they have removed stays removed.
Kept ==
    /\ \A w \in Workers :
          /\ job[w].at \in CompleteSteps => job[w].up \notin expired
          /\ job[w].at \in {"dropPending", "commitActive"} =>
                job[w].up \in final
          /\ job[w].at \in DeleteSteps \ {"mark"} => job[w].up \in asked
          /\ job[w].at \in {"removePending", "commitDeleted"} =>
                job[w].up \notin final
          /\ job[w].at = "commitDeleted" => job[w].up \notin pending
    /\ \A u \in Uploads :
          /\ row[u].state = "ACTIVE" =>
                u \in final \ Gone /\ row[u].cleanup = "null"
          /\ row[u].state \in {"PENDING_DELETE", "RETRY"} => u \in Gone
          /\ row[u].state = "PENDING_UPLOAD" /\ row[u].cleanup = "due" =>
                u \in Gone
          /\ row[u].deleted => u \in Gone \ (pending \cup final)
          /\ client[u] = "completed" /\ u \notin asked =>
                row[u].state = "ACTIVE"
    /\ sweep.todo \cup sweep.cleaned \cup sweep.failed \subseteq Gone
    /\ sweep.half \subseteq sweep.todo \ final
    /\ sweep.cleaned \cap (pending \cup final) = {}

-----------------------------------------------------------------------------

\* What the handlers write are rows.
LEMMA RowsAreRows ==
    ASSUME NEW r \in Row
    PROVE  /\ Completed(r) \in Row /\ Marked(r) \in Row
           /\ Deleted(r) \in Row /\ Retried(r) \in Row
BY DEF Completed, Marked, Deleted, Retried, Row, States

\* What the job's commit makes of a row.
LEMMA SweptRows ==
    ASSUME NEW u \in Uploads, row[u] \in Row
    PROVE  \/ u \in sweep.cleaned /\ Swept(u).state = "DELETED"
           \/ /\ u \notin sweep.cleaned
              /\ Swept(u).deleted = row[u].deleted
              /\ Swept(u).state \in {row[u].state, "RETRY"}
<1>1. CASE u \in sweep.cleaned BY <1>1 DEF Swept, Deleted, Row
<1>2. CASE u \notin sweep.cleaned BY <1>2 DEF Swept, Retried, Row
<1> QED BY <1>1, <1>2

\* The initial states are typed and have neither rows nor requests.
LEMMA InitHolds == Init => IInv
BY FaultsAssumption
   DEF Init, IInv, TypeOK, Phases, DeletedForEver, NoRow, Row, States, Job,
       Idle, Steps, NoSweep, Sweep, CompleteSteps, DeleteSteps, Listed

\* The requests a worker takes up, and what the client does by itself.
LEMMA TakenUp ==
    ASSUME IInv, NEW u \in Uploads, NEW w \in Workers,
           Create(w, u) \/ Complete(w, u) \/ Delete(w, u)
    PROVE  IInv'
<1> USE DEF IInv, TypeOK, Free, Idle, Take, Stops, Job, Steps, CompleteSteps
<1>1. CASE Create(w, u)
  <2>1. TypeOK' BY <1>1 DEF Create
  <2>2. Phases' BY <1>1 DEF Create, Phases, CompleteSteps, DeleteSteps, Past, Midway
  <2>3. DeletedForEver' BY <1>1 DEF Create, DeletedForEver, Listed, Exists
  <2> QED BY <2>1, <2>2, <2>3
<1>2. CASE Complete(w, u)
  <2>1. TypeOK' BY <1>2 DEF Complete
  <2>2. Phases' BY <1>2 DEF Complete, Phases, CompleteSteps, DeleteSteps, Past, Midway
  <2>3. DeletedForEver' BY <1>2 DEF Complete, DeletedForEver, Listed, Exists
  <2> QED BY <2>1, <2>2, <2>3
<1>3. CASE Delete(w, u)
  <2>1. TypeOK' BY <1>3 DEF Delete
  <2>2. Phases'
    BY <1>3 DEF Delete, Listed, Phases, CompleteSteps, DeleteSteps, Past, Midway
  <2>3. DeletedForEver' BY <1>3 DEF Delete, DeletedForEver, Listed, Exists
  <2> QED BY <2>1, <2>2, <2>3
<1> QED BY <1>1, <1>2, <1>3

\* What happens outside the workers: the PUT, and the time that passes.
LEMMA OutsideWorkers ==
    ASSUME IInv, NEW u \in Uploads, Put(u) \/ PassTime(u)
    PROVE  IInv'
<1> USE DEF IInv, TypeOK
<1>1. CASE Put(u)
  <2>1. TypeOK' BY <1>1, FaultsAssumption DEF Put, Well, Fault
  <2>2. Phases'
    BY <1>1 DEF Put, Phases, CompleteSteps, DeleteSteps, Past, Midway, Job, Idle, Steps
  <2>3. DeletedForEver' BY <1>1 DEF Put, DeletedForEver, Listed, Exists
  <2> QED BY <2>1, <2>2, <2>3
<1>2. CASE PassTime(u)
  <2>1. TypeOK' BY <1>2 DEF PassTime, Set, Row
  <2>2. Phases' BY <1>2 DEF PassTime, Set, Row, Phases
  <2>3. DeletedForEver'
    BY <1>2 DEF PassTime, Set, Row, DeletedForEver, Listed, Exists
  <2> QED BY <2>1, <2>2, <2>3
<1> QED BY <1>1, <1>2

\* What a worker does next for the request it is at.
LEMMA Handled ==
    ASSUME IInv, NEW w \in Workers, Handle(w)
    PROVE  IInv'
<1> DEFINE u == job[w].up
<1>1. job[w].at \in Steps /\ u \in Uploads
  BY DEF Handle, Insert, StatFinal, StatPending, CheckContent, Missing, Copy,
         StatCopy, DropBad, DropPending, CommitActive, CompleteSteps, Mark,
         RemoveFinal, RemovePending, CommitDeleted, CommitRetry, Crash, At,
         Free, IInv, TypeOK, Job, Idle, Steps
<1> USE <1>1, FaultsAssumption
    DEF IInv, TypeOK, Done, Goto, Set, Stops, Answer, Well, Fault, Job, Idle,
        Steps, CompleteSteps, At
<1>2. CASE Insert(w)
  <2>1. TypeOK' BY <1>2 DEF Insert, Row, States
  <2>2. Phases'
    BY <1>2 DEF Insert, Phases, CompleteSteps, DeleteSteps, Past, Midway
  <2>3. DeletedForEver'
    BY <1>2 DEF Insert, DeletedForEver, Listed, Exists
  <2> QED BY <2>1, <2>2, <2>3
<1>3. CASE StatPending(w)
  <2>1. TypeOK' BY <1>3 DEF StatPending, Missing
  <2>2. Phases'
    BY <1>3 DEF StatPending, Missing, Phases, DeleteSteps, Past, Midway
  <2>3. DeletedForEver'
    BY <1>3 DEF StatPending, Missing, DeletedForEver, Listed, Exists
  <2> QED BY <2>1, <2>2, <2>3
<1>4. CASE Copy(w)
  <2>1. TypeOK' BY <1>4 DEF Copy, Missing
  <2>2. Phases'
    BY <1>4 DEF Copy, Missing, Phases, DeleteSteps, Past, Midway
  <2>3. DeletedForEver'
    BY <1>4 DEF Copy, Missing, DeletedForEver, Listed, Exists
  <2> QED BY <2>1, <2>2, <2>3
<1>5. CASE DropBad(w)
  <2>1. pending' \subseteq Uploads /\ faults' \in 0..MaxFaults
    BY <1>5 DEF DropBad, RemovesIfItCan
  <2>2. TypeOK' BY <1>5, <2>1 DEF DropBad
  <2>3. Phases' BY <1>5 DEF DropBad, Phases, CompleteSteps, DeleteSteps, Past, Midway
  <2>4. DeletedForEver' BY <1>5 DEF DropBad, DeletedForEver, Listed, Exists
  <2> QED BY <2>2, <2>3, <2>4
<1>6. CASE DropPending(w)
  <2>1. TypeOK' BY <1>6 DEF DropPending, RemovesIfItCan
  <2>2. Phases' BY <1>6 DEF DropPending, Phases, CompleteSteps, DeleteSteps
  <2>3. DeletedForEver' BY <1>6 DEF DropPending, DeletedForEver, Listed, Exists
  <2> QED BY <2>1, <2>2, <2>3
<1>7. CASE CommitActive(w)
  <2>1. Completed(row[u]) \in Row BY RowsAreRows
  <2>2. row' \in [Uploads -> Row] BY <1>7, <2>1 DEF CommitActive
  <2>3. TypeOK' BY <1>7, <2>2 DEF CommitActive
  <2>4. Phases'
    BY <1>7 DEF CommitActive, Phases, CompleteSteps, DeleteSteps, Past, Midway
  <2>5. DeletedForEver'
    BY <1>7 DEF CommitActive, Phases, CompleteSteps, Past, Midway, DeletedForEver,
                Listed, Exists
  <2> QED BY <2>3, <2>4, <2>5
<1>8. CASE Mark(w)
  <2>1. Marked(row[u]) \in Row BY RowsAreRows
  <2>2. row' \in [Uploads -> Row] BY <1>8, <2>1 DEF Mark
  <2>3. TypeOK' BY <1>8, <2>2 DEF Mark
  <2>4. Phases'
    BY <1>8 DEF Mark, Marked, Row, Phases, CompleteSteps, DeleteSteps
  <2>5. DeletedForEver'
    BY <1>8 DEF Mark, Marked, Row, DeletedForEver, Listed, Exists
  <2> QED BY <2>3, <2>4, <2>5
<1>9. CASE RemoveFinal(w)
  <2>1. TypeOK' BY <1>9 DEF RemoveFinal, AfterFailure
  <2>2. Phases'
    BY <1>9 DEF RemoveFinal, AfterFailure, Phases, CompleteSteps, DeleteSteps
  <2>3. DeletedForEver' BY <1>9 DEF RemoveFinal, DeletedForEver, Listed, Exists
  <2> QED BY <2>1, <2>2, <2>3
<1>10. CASE RemovePending(w)
  <2>1. TypeOK' BY <1>10 DEF RemovePending, AfterFailure
  <2>2. Phases'
    BY <1>10 DEF RemovePending, AfterFailure, Phases, CompleteSteps,
                 DeleteSteps
  <2>3. DeletedForEver'
    BY <1>10 DEF RemovePending, DeletedForEver, Listed, Exists
  <2> QED BY <2>1, <2>2, <2>3
<1>11. CASE CommitDeleted(w)
  <2>1. TypeOK' BY <1>11, ZenonT(60) DEF CommitDeleted, Deleted, Row, States
  <2>2. Phases'
    BY <1>11 DEF CommitDeleted, Deleted, Row, Phases, CompleteSteps,
                 DeleteSteps
  <2>3. DeletedForEver'
    BY <1>11 DEF CommitDeleted, Deleted, Row, DeletedForEver, Listed, Exists
  <2> QED BY <2>1, <2>2, <2>3
<1>12. CASE CommitRetry(w)
  <2>1. TypeOK' BY <1>12, ZenonT(60) DEF CommitRetry, Retried, Row, States
  <2>2. Phases'
    BY <1>12 DEF CommitRetry, Retried, Row, Phases, CompleteSteps, DeleteSteps
  <2>3. DeletedForEver'
    BY <1>12 DEF CommitRetry, Retried, Row, DeletedForEver, Listed, Exists
  <2> QED BY <2>1, <2>2, <2>3
<1>13. CASE Crash(w)
  <2>1. TypeOK' BY <1>13 DEF Crash
  <2>2. Phases' BY <1>13 DEF Crash, Phases, CompleteSteps, DeleteSteps, Past, Midway
  <2>3. DeletedForEver' BY <1>13 DEF Crash, DeletedForEver, Listed, Exists
  <2> QED BY <2>1, <2>2, <2>3
<1>14. CASE StatFinal(w)
  <2>1. TypeOK' BY <1>14 DEF StatFinal
  <2>2. Phases'
    BY <1>14 DEF StatFinal, Phases, DeleteSteps, Past, Midway
  <2>3. DeletedForEver'
    BY <1>14 DEF StatFinal, DeletedForEver, Listed, Exists
  <2> QED BY <2>1, <2>2, <2>3
<1>15. CASE CheckContent(w)
  <2>1. TypeOK' BY <1>15 DEF CheckContent, Missing, Bad
  <2>2. Phases'
    BY <1>15 DEF CheckContent, Missing, Bad, Phases, DeleteSteps, Past, Midway
  <2>3. DeletedForEver'
    BY <1>15 DEF CheckContent, Missing, Bad, DeletedForEver, Listed, Exists
  <2> QED BY <2>1, <2>2, <2>3
<1>16. CASE StatCopy(w)
  <2>1. TypeOK' BY <1>16 DEF StatCopy
  <2>2. Phases'
    BY <1>16 DEF StatCopy, Phases, DeleteSteps, Past, Midway
  <2>3. DeletedForEver'
    BY <1>16 DEF StatCopy, DeletedForEver, Listed, Exists
  <2> QED BY <2>1, <2>2, <2>3
<1> QED
  BY <1>2, <1>3, <1>4, <1>5, <1>6, <1>7, <1>8, <1>9, <1>10, <1>11, <1>12,
     <1>13, <1>14, <1>15, <1>16 DEF Handle

\* The job writes a row only on its commit, and never to list a file.
LEMMA Cleaned ==
    ASSUME IInv, SweepStep
    PROVE  IInv'
<1> USE FaultsAssumption DEF IInv, TypeOK, Fault
<1>1. CASE Begin
  BY <1>1 DEF Begin, Due, Sweep, NoSweep, Phases, DeletedForEver, Listed,
              Exists
<1>2. CASE SweepAbort
  BY <1>2 DEF SweepAbort, Sweep, NoSweep, Phases, DeletedForEver, Listed,
              Exists
<1>3. ASSUME NEW u \in Uploads,
             SweepFinal(u) \/ SweepPending(u) \/ SweepFails(u)
      PROVE  IInv'
  <2>1. sweep' \in Sweep
    <3>1. CASE SweepFinal(u) BY <3>1 DEF SweepFinal, Sweep
    <3>2. CASE SweepPending(u) BY <3>2 DEF SweepPending, Sweep
    <3>3. CASE SweepFails(u) BY <3>3 DEF SweepFails, Sweep
    <3> QED BY <1>3, <3>1, <3>2, <3>3
  <2>2. TypeOK' BY <1>3, <2>1 DEF SweepFinal, SweepPending, SweepFails
  <2>3. Phases' BY <1>3 DEF SweepFinal, SweepPending, SweepFails, Phases
  <2>4. DeletedForEver'
    BY <1>3 DEF SweepFinal, SweepPending, SweepFails, DeletedForEver, Listed,
                Exists
  <2> QED BY <2>2, <2>3, <2>4
<1>4. CASE SweepCommit
  <2>1. \A u \in Uploads :
           /\ row'[u] = Swept(u)
           /\ row'[u] \in Row
           /\ row'[u].state = "ACTIVE" => row[u].state = "ACTIVE"
           /\ row[u].deleted => row'[u].deleted
    BY <1>4, ZenonT(60) DEF SweepCommit, Swept, Deleted, Retried, Row, States
  <2>2. TypeOK'
    BY <1>4, <2>1 DEF SweepCommit, Sweep, NoSweep
  <2>3. Phases' BY <1>4, <2>1 DEF SweepCommit, Phases
  <2>4. DeletedForEver'
    <3> SUFFICES ASSUME NEW u \in Uploads, u \in asked,
                        row'[u].state = "ACTIVE"
                 PROVE  row'[u].deleted
      BY <1>4 DEF SweepCommit, DeletedForEver, Listed, Exists
    <3> QED BY <2>1 DEF DeletedForEver, Listed, Exists, Row
  <2> QED BY <2>2, <2>3, <2>4
<1> QED BY <1>1, <1>2, <1>3, <1>4 DEF SweepStep

-----------------------------------------------------------------------------

\* Every step preserves the invariant, and so does a stutter.
LEMMA StepHolds == IInv /\ [Next]_vars => IInv'
<1> SUFFICES ASSUME IInv, [Next]_vars PROVE IInv'
  OBVIOUS
<1>1. CASE Next
  BY <1>1, TakenUp, OutsideWorkers, Handled, Cleaned DEF Next
<1>2. CASE UNCHANGED vars
  BY <1>2 DEF vars, IInv, TypeOK, Phases, DeletedForEver, Listed, Exists
<1> QED BY <1>1, <1>2

\* Every reachable state satisfies the inductive invariant.
THEOREM AlwaysIInv == Spec => []IInv
BY InitHolds, StepHolds, PTL DEF Spec

\* Type correctness of the rows, the requests and the cleanup job.
THEOREM TypeCorrect == Spec => []TypeOK
BY AlwaysIInv, PTL DEF IInv

\* A file whose deletion was accepted is never listed again, whatever the
\* other devices, the completions of other workers and the job do.
THEOREM DeletionIsFinal == Spec => []DeletedForEver
BY AlwaysIInv, PTL DEF IInv

-----------------------------------------------------------------------------
(* What holds if completions are prompt *)

\* Initially nothing is stored, listed or under way.
LEMMA InitKept == Init => Kept
BY DEF Init, Kept, Idle, NoRow, NoSweep, CompleteSteps, DeleteSteps, Gone

\* A request that begins has removed and read nothing yet.
LEMMA TakenUpKept ==
    ASSUME IInv, Kept, NEW u \in Uploads, NEW w \in Workers,
           Create(w, u) \/ Complete(w, u) \/ Delete(w, u)
    PROVE  Kept'
<1> USE DEF IInv, TypeOK, Kept, Gone, Free, Idle, Take, Stops, Job, Steps,
            CompleteSteps, DeleteSteps
<1>1. CASE Create(w, u) BY <1>1 DEF Create
<1>2. CASE Complete(w, u) BY <1>2 DEF Complete
<1>3. CASE Delete(w, u) BY <1>3 DEF Delete
<1> QED BY <1>1, <1>2, <1>3

\* The client puts its file before the ticket expires; the ticket of a
\* completion that is under way does not expire.
LEMMA OutsideKept ==
    ASSUME Prompt, IInv, Kept, NEW u \in Uploads, Put(u) \/ PassTime(u)
    PROVE  Kept'
<1> USE DEF IInv, TypeOK, Kept, Gone, Idle, Job, Steps, CompleteSteps,
            DeleteSteps
<1>1. CASE Put(u)
  BY <1>1 DEF Put, Phases, Past
<1>2. CASE PassTime(u)
  <2>1. \A w \in Workers : job[w].at \in CompleteSteps => job[w].up # u
    BY <1>2 DEF PassTime, Completing, Free
  <2>2. row[u] \in Row /\ row[u].state # "ACTIVE"
    BY <1>2 DEF PassTime
  <2> QED BY <1>2, <2>1, <2>2 DEF PassTime, Set, Row
<1> QED BY <1>1, <1>2

\* A worker commits what is still so.
LEMMA HandledKept ==
    ASSUME IInv, Kept, NEW w \in Workers, Handle(w)
    PROVE  Kept'
<1> DEFINE u == job[w].up
<1>1. job[w].at \in Steps /\ u \in Uploads
  BY DEF Handle, Insert, StatFinal, StatPending, CheckContent, Missing, Copy,
         StatCopy, DropBad, DropPending, CommitActive, CompleteSteps, Mark,
         RemoveFinal, RemovePending, CommitDeleted, CommitRetry, Crash, At,
         Free, IInv, TypeOK, Job, Idle, Steps
<1>2. job[w].at \in CompleteSteps => u \notin Gone
  BY <1>1 DEF IInv, Phases, Kept, Gone, Past, Midway
<1> USE <1>1, <1>2
    DEF IInv, TypeOK, Kept, Gone, Done, Goto, Set, Stops, Answer, Job, Idle,
        Steps, At, CompleteSteps, DeleteSteps
<1>3. CASE Insert(w)
  <2>1. client[u] = "creating" BY <1>3 DEF Insert, Phases
  <2>2. row[u] \in Row BY DEF TypeOK
  <2> QED BY <1>3, <2>1, <2>2 DEF Insert, Phases, Past
<1>4. CASE StatPending(w) BY <1>4 DEF StatPending, Missing
<1>5. CASE Copy(w) BY <1>5 DEF Copy, Missing
<1>6. CASE DropBad(w) BY <1>6 DEF DropBad, RemovesIfItCan
<1>7. CASE DropPending(w) BY <1>7 DEF DropPending, RemovesIfItCan
<1>8. CASE CommitActive(w)
  BY <1>8 DEF CommitActive, Completed, Row
<1>9. CASE Mark(w) BY <1>9 DEF Mark, Marked, Row
<1>10. CASE RemoveFinal(w)
  <2>1. CASE final' = final /\ Goto(w, AfterFailure)
    BY <1>10, <2>1 DEF RemoveFinal, AfterFailure
  <2>2. CASE final' = final \ {u} /\ Goto(w, "removePending")
    <3>1. u \in asked BY <1>10 DEF RemoveFinal
    <3>2. \A v \in Workers : job'[v] = IF v = w
                               THEN [job[w] EXCEPT !.at = "removePending"]
                               ELSE job[v]
      BY <2>2
    <3>3. \A v \in Workers :
             job[v].at \in {"dropPending", "commitActive"} => job[v].up # u
      BY <3>1 DEF Phases, Past, Midway
    <3> QED BY <1>10, <2>2, <3>1, <3>2, <3>3 DEF RemoveFinal
  <2> QED BY <1>10, <2>1, <2>2 DEF RemoveFinal
<1>11. CASE RemovePending(w) BY <1>11 DEF RemovePending, AfterFailure
<1>12. CASE CommitDeleted(w) BY <1>12 DEF CommitDeleted, Deleted, Row
<1>13. CASE CommitRetry(w) BY <1>13 DEF CommitRetry, Retried, Row
<1>14. CASE Crash(w) BY <1>14 DEF Crash
<1>15. CASE StatFinal(w) BY <1>15 DEF StatFinal
<1>16. CASE CheckContent(w) BY <1>16 DEF CheckContent, Missing
<1>17. CASE StatCopy(w) BY <1>17 DEF StatCopy, Phases, Past, Midway
<1> QED
  BY <1>3, <1>4, <1>5, <1>6, <1>7, <1>8, <1>9, <1>10, <1>11, <1>12, <1>13,
     <1>14, <1>15, <1>16, <1>17 DEF Handle

\* The cleanup job touches only what is gone, and commits a row as deleted
\* only when both of its objects are removed.
LEMMA CleanedKept ==
    ASSUME IInv, Kept, SweepStep
    PROVE  Kept'
<1> USE DEF IInv, TypeOK, Kept, Gone
<1>1. CASE Begin BY <1>1 DEF Begin, Due, Sweep, NoSweep
<1>2. CASE SweepAbort BY <1>2 DEF SweepAbort, NoSweep
<1>3. ASSUME NEW u \in Uploads, SweepFinal(u) PROVE Kept'
  BY <1>3 DEF SweepFinal, Sweep, CompleteSteps, Phases, Past, Midway
<1>4. ASSUME NEW u \in Uploads, SweepPending(u) PROVE Kept'
  BY <1>4 DEF SweepPending, Sweep
<1>5. ASSUME NEW u \in Uploads, SweepFails(u) PROVE Kept'
  BY <1>5 DEF SweepFails, Sweep
<1>6. CASE SweepCommit
  <2>1. \A u \in Uploads :
           /\ row'[u] = Swept(u)
           /\ row[u] \in Row
    BY <1>6 DEF SweepCommit
  <2>2. \A u \in Uploads \ Gone : row'[u] = row[u]
    BY <2>1 DEF Swept
  <2>3. ASSUME NEW u \in Uploads, row'[u].state = "ACTIVE"
        PROVE  row'[u] = row[u]
    <3>1. row[u].state = "ACTIVE" BY <2>1, <2>3, SweptRows
    <3> QED BY <2>2, <3>1
  <2>4. ASSUME NEW u \in Uploads, row'[u].deleted
        PROVE  u \in Gone \ (pending \cup final)
    BY <2>1, <2>4, SweptRows
  <2>5. \A u \in Uploads : row[u].state = "ACTIVE" => row'[u] = row[u]
    BY <2>2
  <2>6. \A u \in Uploads : row'[u] # row[u] => u \in Gone
    BY <2>2
  <2> QED BY <1>6, <2>3, <2>4, <2>5, <2>6 DEF SweepCommit, NoSweep
<1> QED BY <1>1, <1>2, <1>3, <1>4, <1>5, <1>6 DEF SweepStep

\* Every step preserves what holds for prompt completions.
LEMMA StepKept == Prompt /\ IInv /\ Kept /\ [Next]_vars => Kept'
<1> SUFFICES ASSUME Prompt, IInv, Kept, [Next]_vars PROVE Kept'
  OBVIOUS
<1>1. CASE Next
  BY <1>1, TakenUpKept, OutsideKept, HandledKept, CleanedKept DEF Next
<1>2. CASE UNCHANGED vars
  BY <1>2 DEF vars, Kept, Gone
<1> QED BY <1>1, <1>2

\* If completions are prompt, no deletion and no cleanup meets a completion.
THEOREM AlwaysKept == ASSUME Prompt PROVE Spec => []Kept
<1>1. IInv /\ Kept /\ [Next]_vars => Kept'
  BY StepKept
<1> QED BY <1>1, InitKept, AlwaysIInv, PTL DEF Spec

\* A listed file can be downloaded.
THEOREM ListsWhatIsStored == ASSUME Prompt PROVE Spec => []ListedIsStored
<1>1. Kept => ListedIsStored BY DEF Kept, ListedIsStored, Listed
<1> QED BY <1>1, AlwaysKept, PTL

\* A completed file stays listed until its owner deletes it.
THEOREM CompletedIsKept == ASSUME Prompt PROVE Spec => []CompletedStays
<1>1. Kept => CompletedStays
  BY DEF Kept, CompletedStays, Listed, Exists
<1> QED BY <1>1, AlwaysKept, PTL

\* A row that no cleanup looks at any more has left no object behind.
THEOREM NoObjectLeft == ASSUME Prompt PROVE Spec => []NothingLeft
<1>1. Kept => NothingLeft BY DEF Kept, NothingLeft
<1> QED BY <1>1, AlwaysKept, PTL

-----------------------------------------------------------------------------
(* Sums of sizes.  Used is a fold over a set, and so a recursive function. *)

\* A set of natural numbers that is not empty has a least element.
LEMMA Least ==
  ASSUME NEW T, T \subseteq Nat, T # {}
  PROVE  \E m \in T : \A k \in T : m <= k
<1> DEFINE R == OpToRel(<, Nat)
<1>1. IsWellFoundedOn(R, Nat)
  BY NatLessThanWellFounded
<1>2. \A k, m \in Nat : k < m => <<k, m>> \in R
  BY DEF OpToRel
<1> HIDE DEF R
<1>3. PICK m \in T : \A k \in T : ~ (<<k, m>> \in R)
  BY <1>1, WFMin
<1>4. ASSUME NEW k \in T
      PROVE  m <= k
  <2>1. k \in Nat /\ m \in Nat
    OBVIOUS
  <2>2. ~ (k < m)
    BY <1>2, <1>3, <2>1
  <2> HIDE DEF R
  <2> QED
    BY <2>1, <2>2
<1> QED
  BY <1>3, <1>4

\* What holds of 0 and is handed on from each number to the next one holds of
\* every number up to N.
LEMMA Induct ==
  ASSUME NEW N \in Nat, NEW T, 0 \in T,
         \A n \in 1..N : n - 1 \in T => n \in T
  PROVE  \A n \in 0..N : n \in T
<1> DEFINE Left == {n \in 0..N : n \notin T}
<1>1. SUFFICES ASSUME Left # {}
               PROVE  FALSE
  OBVIOUS
<1>2. Left \subseteq Nat
  OBVIOUS
<1>3. PICK m \in Left : \A k \in Left : m <= k
  BY <1>1, <1>2, Least
<1>4. m \in 1..N /\ m - 1 \in 0..N
  BY <1>3
<1>5. m - 1 \notin Left
  BY <1>3, <1>4
<1> QED
  BY <1>3, <1>4, <1>5

\* The sizes of a set of files, as Used adds them up.
Total(S) == MapThenSumSet(LAMBDA u : Size[u], S)

\* The file the fold takes next.
Any(s) == CHOOSE x \in s : TRUE

\* f adds up the sizes of the sets in D.
AddsUp(f, D) ==
    f = [s \in D |-> IF s = {} THEN 0 ELSE Size[Any(s)] + f[s \ {Any(s)}]]

\* The fold, written out.
LEMMA FoldForm ==
    ASSUME NEW S
    PROVE  Total(S) = (CHOOSE f : AddsUp(f, SUBSET S))[S]
BY DEF Total, MapThenSumSet, MapThenFoldSet, AddsUp, Any

\* One file less.
LEMMA OneLess ==
    ASSUME NEW S, S \subseteq Uploads, NEW x \in S
    PROVE  /\ S \ {x} \subseteq Uploads
           /\ Cardinality(S) \in Nat /\ Cardinality(S \ {x}) \in Nat
           /\ Cardinality(S \ {x}) = Cardinality(S) - 1
<1>1. IsFiniteSet(S)
  BY InstanceAssumption, FS_Subset
<1>2. IsFiniteSet(S \ {x}) /\ Cardinality(S \ {x}) = Cardinality(S) - 1
  BY <1>1, FS_RemoveElement
<1> QED BY <1>1, <1>2, FS_CardinalityType

\* The number of some files.
LEMMA Counted ==
    ASSUME NEW S, S \subseteq Uploads
    PROVE  /\ Cardinality(S) \in 0..Cardinality(Uploads)
           /\ Cardinality(Uploads) \in Nat
           /\ Cardinality(S) = 0 <=> S = {}
<1>1. IsFiniteSet(S) /\ Cardinality(S) <= Cardinality(Uploads)
  BY InstanceAssumption, FS_Subset
<1> QED
  BY <1>1, InstanceAssumption, FS_CardinalityType, FS_EmptySet

\* The file the fold takes next is one of the set.
LEMMA AnyOf ==
    ASSUME NEW s, s # {}
    PROVE  Any(s) \in s
BY DEF Any

\* There is a function that adds up the sizes of every set of files.
LEMMA Adding ==
    \E F \in [SUBSET Uploads -> Nat] : AddsUp(F, SUBSET Uploads)
<1> DEFINE N == Cardinality(Uploads)
           UpTo(n) == {s \in SUBSET Uploads : Cardinality(s) <= n}
           T == {n \in 0..N : \E f \in [UpTo(n) -> Nat] : AddsUp(f, UpTo(n))}
<1>1. N \in Nat
  BY Counted
<1>2. 0 \in T
  <2>1. UpTo(0) = {{}}
    BY Counted
  <2> DEFINE f == [s \in UpTo(0) |-> 0]
  <2>2. f \in [UpTo(0) -> Nat]
    OBVIOUS
  <2>3. AddsUp(f, UpTo(0))
    BY <2>1 DEF AddsUp
  <2> QED BY <1>1, <2>2, <2>3
<1>3. ASSUME NEW n \in 1..N, n - 1 \in T
      PROVE  n \in T
  <2>1. PICK f \in [UpTo(n - 1) -> Nat] : AddsUp(f, UpTo(n - 1))
    BY <1>3
  <2> DEFINE g == [s \in UpTo(n) |->
                      IF s = {} THEN 0 ELSE Size[Any(s)] + f[s \ {Any(s)}]]
  <2>2. ASSUME NEW s \in UpTo(n), s # {}
        PROVE  Any(s) \in Uploads /\ s \ {Any(s)} \in UpTo(n - 1)
    BY <1>1, <2>2, AnyOf, OneLess
  <2>3. UpTo(n - 1) \subseteq UpTo(n)
    <3>1. \A s \in SUBSET Uploads : Cardinality(s) \in Nat
      BY Counted
    <3> QED BY <1>1, <3>1
  <2> HIDE DEF UpTo
  <2>4. \A s \in UpTo(n - 1) : g[s] = f[s]
    BY <2>1, <2>3 DEF AddsUp
  <2>5. g \in [UpTo(n) -> Nat]
    BY <2>1, <2>2, SizeAssumption
  <2>6. AddsUp(g, UpTo(n))
    BY <2>2, <2>4 DEF AddsUp
  <2>7. n \in 0..N
    BY <1>1
  <2> HIDE DEF g
  <2> QED BY <2>5, <2>6, <2>7
<1> HIDE DEF T
<1>4. \A n \in 0..N : n \in T
  BY <1>1, <1>2, <1>3, Induct
<1>5. UpTo(N) = SUBSET Uploads
  BY Counted
<1> HIDE DEF UpTo
<1>6. N \in T
  BY <1>1, <1>4
<1>7. PICK f \in [UpTo(N) -> Nat] : AddsUp(f, UpTo(N))
  BY <1>6 DEF T
<1> QED BY <1>5, <1>7

\* What such a function says of a set is its total.
LEMMA TotalIs ==
    ASSUME NEW F \in [SUBSET Uploads -> Nat], AddsUp(F, SUBSET Uploads),
           NEW S, S \subseteq Uploads
    PROVE  Total(S) = F[S]
<1> DEFINE f == CHOOSE f : AddsUp(f, SUBSET S)
           N == Cardinality(Uploads)
           T == {n \in 0..N : \A s \in SUBSET S : Cardinality(s) = n => f[s] = F[s]}
<1>1. ASSUME NEW s \in SUBSET S, s # {}
      PROVE  /\ Any(s) \in s /\ s \ {Any(s)} \in SUBSET S
             /\ Cardinality(s \ {Any(s)}) = Cardinality(s) - 1
  BY <1>1, AnyOf, OneLess
<1>2. \E e : AddsUp(e, SUBSET S)
  <2> DEFINE e == [s \in SUBSET S |-> F[s]]
  <2>1. AddsUp(e, SUBSET S)
    BY <1>1 DEF AddsUp
  <2> QED BY <2>1
<1>3. AddsUp(f, SUBSET S)
  BY <1>2
<1>4. Total(S) = f[S]
  BY FoldForm
<1> HIDE DEF f
<1>5. N \in Nat
  BY Counted
<1>6. 0 \in T
  <2>1. \A s \in SUBSET S : Cardinality(s) = 0 => s = {}
    BY Counted
  <2>2. f[{}] = 0 /\ F[{}] = 0
    BY <1>3 DEF AddsUp
  <2>3. \A s \in SUBSET S : Cardinality(s) = 0 => f[s] = F[s]
    BY <2>1, <2>2
  <2>4. 0 \in 0..N
    BY <1>5
  <2> QED BY <2>3, <2>4
<1>7. ASSUME NEW n \in 1..N, n - 1 \in T
      PROVE  n \in T
  <2>1. ASSUME NEW s \in SUBSET S, Cardinality(s) = n
        PROVE  f[s] = F[s]
    <3>1. s # {}
      BY <1>5, <2>1, Counted
    <3> DEFINE t == s \ {Any(s)}
    <3>2. t \in SUBSET S /\ Cardinality(t) = n - 1
      BY <1>1, <2>1, <3>1
    <3>3. f[t] = F[t]
      BY <1>7, <3>2
    <3>4. f[s] = Size[Any(s)] + f[t] /\ F[s] = Size[Any(s)] + F[t]
      BY <1>3, <3>1 DEF AddsUp
    <3> QED BY <3>3, <3>4
  <2> QED BY <1>5, <2>1
<1> HIDE DEF T
<1>8. \A n \in 0..N : n \in T
  BY <1>5, <1>6, <1>7, Induct
<1>9. Cardinality(S) \in 0..N
  BY Counted
<1>10. f[S] = F[S]
  BY <1>8, <1>9 DEF T
<1> QED BY <1>4, <1>10

\* The total of no file, of some files, and what the fold's next file adds.
LEMMA TotalSteps ==
    ASSUME NEW S, S \subseteq Uploads
    PROVE  /\ Total({}) = 0 /\ Total(S) \in Nat
           /\ S # {} => Total(S) = Size[Any(S)] + Total(S \ {Any(S)})
<1>1. PICK F \in [SUBSET Uploads -> Nat] : AddsUp(F, SUBSET Uploads)
  BY Adding
<1>2. \A R \in SUBSET Uploads : Total(R) = F[R]
  BY <1>1, TotalIs
<1>3. F[{}] = 0 /\ (S # {} => F[S] = Size[Any(S)] + F[S \ {Any(S)}])
  BY <1>1 DEF AddsUp
<1>4. {} \in SUBSET Uploads /\ S \in SUBSET Uploads /\ S \ {Any(S)} \in SUBSET Uploads
  OBVIOUS
<1> QED BY <1>2, <1>3, <1>4

\* In whatever order they are added up, each file counts once.
LEMMA TotalRemove ==
    ASSUME NEW R, R \subseteq Uploads, NEW y \in R
    PROVE  Total(R) = Size[y] + Total(R \ {y})
<1> DEFINE N == Cardinality(Uploads)
           T == {n \in 0..N : \A S \in SUBSET Uploads : Cardinality(S) = n =>
                    \A x \in S : Total(S) = Size[x] + Total(S \ {x})}
<1>1. N \in Nat
  BY Counted
<1>2. 0 \in T
  <2>1. \A S \in SUBSET Uploads : Cardinality(S) = 0 => S = {}
    BY Counted
  <2> QED BY <1>1, <2>1
<1>3. ASSUME NEW n \in 1..N, n - 1 \in T
      PROVE  n \in T
  <2>1. ASSUME NEW S \in SUBSET Uploads, Cardinality(S) = n, NEW x \in S
        PROVE  Total(S) = Size[x] + Total(S \ {x})
    <3> DEFINE a == Any(S)
    <3>1. a \in S
      BY AnyOf
    <3>2. Total(S) = Size[a] + Total(S \ {a})
      BY TotalSteps
    <3> HIDE DEF a
    <3>3. CASE x = a
      BY <3>2, <3>3
    <3>4. CASE x # a
      <4> DEFINE P == S \ {a}
                 Q == S \ {x}
      <4>1. P \in SUBSET Uploads /\ Q \in SUBSET Uploads /\ x \in P /\ a \in Q
        BY <3>1, <3>4
      <4>2. Cardinality(P) = n - 1 /\ Cardinality(Q) = n - 1
        BY <2>1, <3>1, OneLess
      <4>3. P \ {x} = Q \ {a}
        OBVIOUS
      <4>4. P \ {x} \subseteq Uploads
        BY <4>1
      <4> HIDE DEF P, Q
      <4>5. Total(P) = Size[x] + Total(P \ {x}) /\ Total(Q) = Size[a] + Total(Q \ {a})
        BY <1>3, <4>1, <4>2
      <4>6. Size[x] \in Nat /\ Size[a] \in Nat /\ Total(P \ {x}) \in Nat
        BY <4>1, <4>4, SizeAssumption, TotalSteps
      <4>7. Total(S) = Size[a] + Total(P)
        BY <3>2 DEF P
      <4> DEFINE rest == Total(P \ {x})
      <4>8. rest \in Nat /\ Total(P) = Size[x] + rest /\ Total(Q) = Size[a] + rest
        BY <4>3, <4>5, <4>6
      <4> HIDE DEF rest
      <4>9. Total(S) = Size[x] + Total(Q)
        BY <4>6, <4>7, <4>8
      <4> QED BY <4>9 DEF Q
    <3> QED BY <3>3, <3>4
  <2>2. n \in 0..N
    BY <1>1
  <2> QED BY <2>1, <2>2
<1> HIDE DEF T
<1>4. \A n \in 0..N : n \in T
  BY <1>1, <1>2, <1>3, Induct
<1>5. Cardinality(R) \in 0..N
  BY Counted
<1> QED BY <1>4, <1>5 DEF T

\* More files take more space.
LEMMA TotalMonotone ==
    ASSUME NEW A, NEW B, B \subseteq Uploads, A \subseteq B
    PROVE  Total(A) <= Total(B)
<1> DEFINE N == Cardinality(Uploads)
           T == {n \in 0..N : \A S \in SUBSET Uploads : Cardinality(S) = n =>
                    \A R \in SUBSET S : Total(R) <= Total(S)}
<1>1. N \in Nat
  BY Counted
<1>2. 0 \in T
  <2>1. \A S \in SUBSET Uploads : Cardinality(S) = 0 => S = {}
    BY Counted
  <2>2. Total({}) \in Nat
    BY TotalSteps
  <2> QED BY <1>1, <2>1, <2>2
<1>3. ASSUME NEW n \in 1..N, n - 1 \in T
      PROVE  n \in T
  <2>1. ASSUME NEW S \in SUBSET Uploads, Cardinality(S) = n, NEW R \in SUBSET S
        PROVE  Total(R) <= Total(S)
    <3>1. PICK x \in S : TRUE
      BY <1>1, <2>1, Counted
    <3> DEFINE Q == S \ {x}
    <3>2. Q \in SUBSET Uploads /\ Cardinality(Q) = n - 1
      BY <2>1, <3>1, OneLess
    <3>3. R \ {x} \in SUBSET Q
      OBVIOUS
    <3>4. Total(S) = Size[x] + Total(Q)
      BY <3>1, TotalRemove
    <3> HIDE DEF Q
    <3>5. Total(R \ {x}) <= Total(Q)
      BY <1>3, <3>2, <3>3
    <3>6. x \in Uploads /\ Size[x] \in Nat
      BY <3>1, SizeAssumption
    <3>7. Total(R \ {x}) \in Nat /\ Total(Q) \in Nat /\ Total(R) \in Nat
      BY <3>2, <3>3, TotalSteps
    <3>8. CASE x \in R
      <4>1. Total(R) = Size[x] + Total(R \ {x})
        BY <3>8, TotalRemove
      <4> QED BY <3>4, <3>5, <3>6, <3>7, <4>1
    <3>9. CASE x \notin R
      <4>1. R \ {x} = R
        BY <3>9
      <4>2. Total(R) <= Total(Q)
        BY <3>5, <4>1
      <4> QED BY <3>4, <3>6, <3>7, <4>2
    <3> QED BY <3>8, <3>9
  <2>2. n \in 0..N
    BY <1>1
  <2> QED BY <2>1, <2>2
<1> HIDE DEF T
<1>4. \A n \in 0..N : n \in T
  BY <1>1, <1>2, <1>3, Induct
<1>5. Cardinality(B) \in 0..N
  BY Counted
<1> QED BY <1>4, <1>5 DEF T

\* The size of the largest file.
Largest == Max({0} \cup {Size[u] : u \in Uploads})

\* There is a largest file, or none at all.
LEMMA LargestIs == Largest \in Nat /\ \A u \in Uploads : Size[u] <= Largest
<1> DEFINE S == {0} \cup {Size[u] : u \in Uploads}
           Above == {b \in Nat : \A x \in S : x <= b}
<1>1. S \subseteq Nat
  BY SizeAssumption
<1>2. Total(Uploads) \in Above
  <2>1. Total(Uploads) \in Nat
    BY TotalSteps
  <2>2. ASSUME NEW u \in Uploads
        PROVE  Size[u] <= Total(Uploads)
    <3>1. Total(Uploads) = Size[u] + Total(Uploads \ {u})
      BY TotalRemove
    <3>2. Total(Uploads \ {u}) \in Nat /\ Size[u] \in Nat
      BY TotalSteps, SizeAssumption
    <3> QED BY <3>1, <3>2
  <2> QED BY <2>1, <2>2
<1>3. PICK b \in Above : \A c \in Above : b <= c
  <2>1. Above # {} /\ Above \subseteq Nat
    BY <1>2
  <2> QED BY <2>1, Least
<1>4. b \in Nat /\ \A x \in S : x <= b
  BY <1>3
<1>5. b \in S
  <2> SUFFICES ASSUME b \notin S
               PROVE  FALSE
    OBVIOUS
  <2>1. b # 0 /\ 0 \in S
    OBVIOUS
  <2>2. b - 1 \in Nat /\ \A x \in S : x <= b - 1
    BY <1>1, <1>4, <2>1
  <2>3. b - 1 \in Above
    BY <2>2
  <2> QED BY <1>3, <1>4, <2>3
<1>6. \A x \in S : b >= x
  BY <1>1, <1>4
<1> HIDE DEF S, Above
<1>7. Max(S) \in S /\ \A x \in S : Max(S) >= x
  BY <1>5, <1>6 DEF Max
<1>8. Largest = Max(S)
  BY DEF Largest, S
<1>9. \A u \in Uploads : Size[u] \in S
  BY DEF S
<1> HIDE DEF Largest
<1> QED BY <1>1, <1>7, <1>8, <1>9

\* Some more files take at most the space of as many files of the largest size.
LEMMA TotalUnion ==
    ASSUME NEW A, A \subseteq Uploads, NEW B, B \subseteq Uploads
    PROVE  Total(A \cup B) <= Total(A) + Cardinality(B) * Largest
<1> DEFINE N == Cardinality(Uploads)
           L == Largest
           T == {n \in 0..N : \A S \in SUBSET Uploads : Cardinality(S) = n =>
                                 Total(A \cup S) <= Total(A) + n * L}
<1>1. N \in Nat /\ L \in Nat /\ Total(A) \in Nat
  BY Counted, LargestIs, TotalSteps
<1> HIDE DEF L
<1>2. 0 \in T
  <2>1. \A S \in SUBSET Uploads : Cardinality(S) = 0 => A \cup S = A
    BY Counted
  <2>2. Total(A) <= Total(A) + 0 * L
    BY <1>1
  <2> QED BY <1>1, <2>1, <2>2
<1>3. ASSUME NEW n \in 1..N, n - 1 \in T
      PROVE  n \in T
  <2>1. ASSUME NEW S \in SUBSET Uploads, Cardinality(S) = n
        PROVE  Total(A \cup S) <= Total(A) + n * L
    <3>1. PICK x \in S : TRUE
      BY <1>1, <2>1, Counted
    <3> DEFINE Q == S \ {x}
               C == A \cup S
               D == A \cup Q
    <3>2. Q \in SUBSET Uploads /\ Cardinality(Q) = n - 1
      BY <2>1, <3>1, OneLess
    <3>3. Total(D) <= Total(A) + (n - 1) * L
      BY <1>3, <3>2
    <3>4. C \subseteq Uploads /\ D \subseteq Uploads /\ x \in C /\ C \ {x} \subseteq D
      BY <3>1
    <3> HIDE DEF C, D, Q
    <3>5. Total(C) = Size[x] + Total(C \ {x}) /\ Total(C \ {x}) <= Total(D)
      BY <3>4, TotalRemove, TotalMonotone
    <3>6. C \ {x} \subseteq Uploads /\ x \in Uploads
      BY <3>1, <3>4
    <3>7. Total(C) \in Nat /\ Total(C \ {x}) \in Nat /\ Total(D) \in Nat
      BY <3>4, <3>6, TotalSteps
    <3>8. Size[x] \in Nat /\ Size[x] <= L
      BY <3>6, LargestIs, SizeAssumption DEF L
    <3>9. (n - 1) * L + L = n * L /\ (n - 1) * L \in Int /\ n * L \in Int
      BY <1>1
    <3>10. Total(C) <= Total(A) + n * L
      BY <1>1, <3>3, <3>5, <3>7, <3>8, <3>9
    <3> QED BY <3>10 DEF C
  <2>2. n \in 0..N
    BY <1>1
  <2> QED BY <2>1, <2>2
<1> HIDE DEF T
<1>4. \A n \in 0..N : n \in T
  BY <1>1, <1>2, <1>3, Induct
<1>5. Cardinality(B) \in 0..N
  BY Counted
<1> QED BY <1>4, <1>5 DEF T, L

-----------------------------------------------------------------------------
(* The quota *)

\* A worker that is past the insertion of a file, and the cleanup job, work on
\* rows only.
Entered ==
    /\ \A w \in Workers : job[w].at \in CompleteSteps \cup DeleteSteps =>
          row[job[w].up].state # "NO_ROW"
    /\ \A u \in sweep.todo \cup sweep.cleaned \cup sweep.failed :
          row[u].state # "NO_ROW"

\* The files that have a row, and those that are to be inserted.
Present == {u \in Uploads : Exists(u)}

Claimed == Present \cup {job[w].up : w \in {v \in Workers : job[v].at = "insert"}}

\* What is claimed may exceed the quota by one file per further worker.
ClaimBounded ==
    Total(Claimed) <= Quota + (Cardinality(Workers) - 1) * Largest

\* Outside of Create no file is claimed, and no row is written for a file that
\* has none but by the insertion of a claimed file.
Claims == Entered' /\ Claimed' \subseteq Claimed

\* A worker's request but the one that asks for a ticket, ...
LEMMA TakenUpClaims ==
    ASSUME IInv, Entered, NEW u \in Uploads, NEW w \in Workers,
           Complete(w, u) \/ Delete(w, u)
    PROVE  Claims
<1> USE DEF IInv, TypeOK, Entered, Claimed, Present, Claims, Free, Idle, Take,
            Stops, Job, Steps, CompleteSteps, DeleteSteps, Exists
<1>1. CASE Complete(w, u)
  <2>1. Entered' BY <1>1 DEF Complete
  <2>2. Claimed' \subseteq Claimed BY <1>1 DEF Complete
  <2> QED BY <2>1, <2>2
<1>2. CASE Delete(w, u)
  <2>1. Entered' BY <1>2 DEF Delete, Listed
  <2>2. Claimed' \subseteq Claimed BY <1>2 DEF Delete
  <2> QED BY <2>1, <2>2
<1> QED BY <1>1, <1>2

\* ... the client and the time ...
LEMMA OutsideClaims ==
    ASSUME IInv, Entered, NEW u \in Uploads, Put(u) \/ PassTime(u)
    PROVE  Claims
<1> USE DEF IInv, TypeOK, Entered, Claimed, Present, Claims, Exists
<1>1. CASE Put(u) BY <1>1 DEF Put
<1>2. CASE PassTime(u)
  <2>1. row' = [row EXCEPT ![u] = [row[u] EXCEPT !.cleanup = "due"]]
    BY <1>2 DEF PassTime, Set
  <2>2. \A v \in Uploads : row'[v].state = row[v].state /\ row'[v].deleted = row[v].deleted
    BY <2>1 DEF Row
  <2>3. job' = job /\ sweep' = sweep
    BY <1>2 DEF PassTime
  <2>4. \A w \in Workers : job[w].at \in CompleteSteps \cup DeleteSteps => job[w].up \in Uploads
    BY DEF Job, Idle, CompleteSteps, DeleteSteps
  <2>5. sweep.todo \cup sweep.cleaned \cup sweep.failed \subseteq Uploads
    BY DEF Sweep
  <2> QED BY <2>2, <2>3, <2>4, <2>5
<1> QED BY <1>1, <1>2

\* A step of a handler that writes no row.
LEMMA LeavesRows ==
    ASSUME IInv, Entered, NEW w \in Workers, NEW r,
           row' = row, sweep' = sweep, job' = [job EXCEPT ![w] = r],
           r.at # "insert",
           r.at \in CompleteSteps \cup DeleteSteps => row[r.up].state # "NO_ROW"
    PROVE  Claims
BY DEF IInv, TypeOK, Entered, Claimed, Present, Claims, Exists

\* A step of a handler that rewrites the row it works on.
LEMMA WritesRow ==
    ASSUME IInv, Entered, NEW w \in Workers, NEW r, NEW n \in Row,
           job[w].up \in Uploads, row' = [row EXCEPT ![job[w].up] = n],
           row[job[w].up].state # "NO_ROW",
           n.state # "NO_ROW", row[job[w].up].deleted => n.deleted,
           sweep' = sweep, job' = [job EXCEPT ![w] = r],
           r.at # "insert",
           r.at \in CompleteSteps \cup DeleteSteps => r.up = job[w].up
    PROVE  Claims
<1> DEFINE u == job[w].up
<1>1. \A v \in Uploads : row'[v] = IF v = u THEN n ELSE row[v]
  BY DEF IInv, TypeOK
<1>2. Entered'
  BY <1>1 DEF IInv, TypeOK, Entered, Sweep, Job, Idle, CompleteSteps, DeleteSteps
<1>3. Present' \subseteq Present
  BY <1>1 DEF Present, Exists
<1>4. \A v \in Workers : job'[v].at = "insert" => v # w /\ job'[v] = job[v]
  BY DEF IInv, TypeOK
<1> QED BY <1>2, <1>3, <1>4 DEF Claims, Claimed

\* ... and a request that is under way claim no further file.
LEMMA HandledClaims ==
    ASSUME IInv, Entered, NEW w \in Workers, Handle(w)
    PROVE  Claims
<1> DEFINE u == job[w].up
           to(step) == [job[w] EXCEPT !.at = step]
<1>1. /\ job[w] \in [at : Steps, up : Uploads] /\ job[w].at \in Steps /\ u \in Uploads
      /\ row[u] \in Row
  BY DEF Handle, Insert, StatFinal, StatPending, CheckContent, Missing, Copy,
         StatCopy, DropBad, DropPending, CommitActive, CompleteSteps, Mark,
         RemoveFinal, RemovePending, CommitDeleted, CommitRetry, Crash, At,
         Free, IInv, TypeOK, Job, Idle, Steps
<1>2. ASSUME row' = row, sweep' = sweep, Done(w)
      PROVE  Claims
  <2>1. Idle.at # "insert" /\ Idle.at \notin CompleteSteps \cup DeleteSteps
    BY DEF Idle, CompleteSteps, DeleteSteps
  <2> QED BY <1>2, <2>1, LeavesRows DEF Done
<1>3. ASSUME row' = row, sweep' = sweep, job[w].at # "insert",
             NEW step \in CompleteSteps \cup DeleteSteps, Goto(w, step)
      PROVE  Claims
  <2>1. row[u].state # "NO_ROW"
    BY <1>1, <1>3 DEF Entered, CompleteSteps, DeleteSteps, Steps
  <2>2. to(step).at = step /\ to(step).up = u /\ step # "insert"
    BY <1>1, <1>3 DEF CompleteSteps, DeleteSteps
  <2>3. job' = [job EXCEPT ![w] = to(step)]
    BY <1>3 DEF Goto
  <2> HIDE DEF to
  <2> QED BY <1>3, <2>1, <2>2, <2>3, LeavesRows
<1>4. ASSUME NEW n \in Row, Set(u, n), n.state # "NO_ROW", row[u].deleted => n.deleted,
             job[w].at # "insert", sweep' = sweep,
             NEW r, job' = [job EXCEPT ![w] = r], r.at # "insert",
             r.at \in CompleteSteps \cup DeleteSteps => r.up = u
      PROVE  Claims
  <2>1. row[u].state # "NO_ROW"
    BY <1>1, <1>4 DEF Entered, CompleteSteps, DeleteSteps, Steps
  <2>2. row' = [row EXCEPT ![u] = n]
    BY <1>4 DEF Set
  <2> QED BY <1>1, <1>4, <2>1, <2>2, WritesRow
<1>5. CASE Insert(w)
  <2>1. /\ job[w].at = "insert" /\ job' = [job EXCEPT ![w] = Idle] /\ sweep' = sweep
        /\ row' = [row EXCEPT ![u] = [state |-> "PENDING_UPLOAD", deleted |-> FALSE,
                                      cleanup |-> "ahead"]]
    BY <1>5 DEF Insert, At, Done, Set
  <2>2. \A v \in Uploads : v # u => row'[v] = row[v]
    BY <2>1 DEF IInv, TypeOK
  <2>3. row'[u].state = "PENDING_UPLOAD"
    BY <1>1, <2>1 DEF IInv, TypeOK
  <2>4. \A v \in Workers : IF v = w THEN job'[v].at = "idle" ELSE job'[v] = job[v]
    BY <2>1 DEF IInv, TypeOK, Idle
  <2>5. Entered'
    <3>1. \A v \in Workers : job[v].at \in CompleteSteps \cup DeleteSteps =>
             job[v].up \in Uploads
      BY DEF IInv, TypeOK, Job, Idle, CompleteSteps, DeleteSteps
    <3>2. sweep.todo \cup sweep.cleaned \cup sweep.failed \subseteq Uploads
      BY DEF IInv, TypeOK, Sweep
    <3>3. "idle" \notin CompleteSteps \cup DeleteSteps
      BY DEF CompleteSteps, DeleteSteps
    <3> QED BY <2>1, <2>2, <2>3, <2>4, <3>1, <3>2, <3>3 DEF Entered
  <2>6. Present' \subseteq Present \cup {u}
    BY <2>2 DEF Present, Exists
  <2>7. u \in Claimed
    BY <2>1 DEF Claimed
  <2>8. \A v \in Workers : job'[v].at = "insert" => job[v].at = "insert" /\ job'[v] = job[v]
    BY <2>4
  <2> HIDE DEF u
  <2> QED BY <2>5, <2>6, <2>7, <2>8 DEF Claims, Claimed
<1>6. CASE StatPending(w)
  <2>1. {"check", "dropBad"} \subseteq CompleteSteps /\ job[w].at # "insert"
    BY <1>6 DEF StatPending, At, CompleteSteps
  <2> QED BY <1>2, <1>3, <1>6, <2>1 DEF StatPending, Missing
<1>7. CASE Copy(w)
  <2>1. "statCopy" \in CompleteSteps /\ job[w].at # "insert"
    BY <1>7 DEF Copy, At, CompleteSteps
  <2> QED BY <1>2, <1>3, <1>7, <2>1 DEF Copy, Missing
<1>8. CASE DropBad(w) BY <1>2, <1>8 DEF DropBad
<1>9. CASE DropPending(w)
  <2>1. "commitActive" \in CompleteSteps /\ job[w].at # "insert"
    BY <1>9 DEF DropPending, At, CompleteSteps
  <2> QED BY <1>3, <1>9, <2>1 DEF DropPending
<1>10. Idle.at # "insert" /\ Idle.at \notin CompleteSteps \cup DeleteSteps
  BY DEF Idle, CompleteSteps, DeleteSteps
<1>11. CASE CommitActive(w)
  <2>1. /\ Completed(row[u]) \in Row /\ Completed(row[u]).state # "NO_ROW"
        /\ Completed(row[u]).deleted = row[u].deleted
    BY <1>1 DEF Completed, Row, States
  <2>2. job[w].at # "insert" /\ job' = [job EXCEPT ![w] = Idle] /\ sweep' = sweep
    BY <1>11 DEF CommitActive, At, Done
  <2>3. Set(u, Completed(row[u]))
    BY <1>11 DEF CommitActive
  <2> QED BY <1>4, <1>10, <2>1, <2>2, <2>3
<1>12. CASE Mark(w)
  <2>1. /\ Marked(row[u]) \in Row /\ Marked(row[u]).state # "NO_ROW"
        /\ Marked(row[u]).deleted = row[u].deleted
    BY <1>1 DEF Marked, Row, States
  <2>2. /\ job[w].at # "insert" /\ job' = [job EXCEPT ![w] = to("removeFinal")]
        /\ sweep' = sweep
    BY <1>12 DEF Mark, At, Goto
  <2>3. Set(u, Marked(row[u]))
    BY <1>12 DEF Mark
  <2>4. to("removeFinal").at = "removeFinal" /\ to("removeFinal").up = u
    BY <1>1
  <2> HIDE DEF to
  <2> QED BY <1>4, <2>1, <2>2, <2>3, <2>4
<1>13. CASE RemoveFinal(w)
  <2>1. /\ "removePending" \in DeleteSteps /\ AfterFailure \in DeleteSteps
        /\ job[w].at # "insert"
    BY <1>13 DEF RemoveFinal, At, DeleteSteps, AfterFailure
  <2> QED BY <1>3, <1>13, <2>1 DEF RemoveFinal
<1>14. CASE RemovePending(w)
  <2>1. /\ "commitDeleted" \in DeleteSteps /\ AfterFailure \in DeleteSteps
        /\ job[w].at # "insert"
    BY <1>14 DEF RemovePending, At, DeleteSteps, AfterFailure
  <2> QED BY <1>3, <1>14, <2>1 DEF RemovePending
<1>15. CASE CommitDeleted(w)
  <2>1. /\ Deleted(row[u]) \in Row /\ Deleted(row[u]).state # "NO_ROW"
        /\ Deleted(row[u]).deleted
    BY <1>1 DEF Deleted, Row, States
  <2>2. job[w].at # "insert" /\ job' = [job EXCEPT ![w] = Idle] /\ sweep' = sweep
    BY <1>15 DEF CommitDeleted, At, Done
  <2>3. Set(u, Deleted(row[u]))
    BY <1>15 DEF CommitDeleted
  <2> QED BY <1>4, <1>10, <2>1, <2>2, <2>3
<1>16. CASE CommitRetry(w)
  <2>1. /\ Retried(row[u]) \in Row /\ Retried(row[u]).state # "NO_ROW"
        /\ Retried(row[u]).deleted = row[u].deleted
    BY <1>1 DEF Retried, Row, States
  <2>2. job[w].at # "insert" /\ job' = [job EXCEPT ![w] = Idle] /\ sweep' = sweep
    BY <1>16 DEF CommitRetry, At, Done
  <2>3. Set(u, Retried(row[u]))
    BY <1>16 DEF CommitRetry
  <2> QED BY <1>4, <1>10, <2>1, <2>2, <2>3
<1>17. CASE Crash(w) BY <1>2, <1>17 DEF Crash
<1>18. CASE StatFinal(w)
  <2>1. {"dropPending", "statPending"} \subseteq CompleteSteps /\ job[w].at # "insert"
    BY <1>18 DEF StatFinal, At, CompleteSteps
  <2> QED BY <1>2, <1>3, <1>18, <2>1 DEF StatFinal
<1>19. CASE CheckContent(w)
  <2>1. {"dropBad", "copy"} \subseteq CompleteSteps /\ job[w].at # "insert"
    BY <1>19 DEF CheckContent, At, CompleteSteps
  <2> QED BY <1>2, <1>3, <1>19, <2>1 DEF CheckContent, Missing
<1>20. CASE StatCopy(w)
  <2>1. {"dropPending"} \subseteq CompleteSteps /\ job[w].at # "insert"
    BY <1>20 DEF StatCopy, At, CompleteSteps
  <2> QED BY <1>2, <1>3, <1>20, <2>1 DEF StatCopy
<1> QED
  BY <1>5, <1>6, <1>7, <1>8, <1>9, <1>11, <1>12, <1>13, <1>14, <1>15, <1>16,
     <1>17, <1>18, <1>19, <1>20 DEF Handle

\* Neither does the cleanup job.
LEMMA CleanedClaims ==
    ASSUME IInv, Entered, SweepStep
    PROVE  Claims
<1>1. ASSUME row' = row, job' = job,
             sweep'.todo \cup sweep'.cleaned \cup sweep'.failed
               \subseteq sweep.todo \cup sweep.cleaned \cup sweep.failed \cup Present
      PROVE  Claims
  <2>1. \A u \in Present : row[u].state # "NO_ROW"
    BY DEF Present, Exists
  <2> QED BY <1>1, <2>1 DEF Claims, Claimed, Present, Entered, Exists
<1>2. sweep \in Sweep
  BY DEF IInv, TypeOK
<1>3. CASE Begin
  <2>1. Due \subseteq Present
    BY DEF Due, Present
  <2>2. /\ sweep'.todo = Due /\ sweep'.cleaned = {} /\ sweep'.failed = {}
        /\ row' = row /\ job' = job
    BY <1>3 DEF Begin, NoSweep
  <2> QED BY <1>1, <2>1, <2>2
<1>4. CASE SweepAbort
  <2>1. /\ sweep'.todo = {} /\ sweep'.cleaned = {} /\ sweep'.failed = {}
        /\ row' = row /\ job' = job
    BY <1>4 DEF SweepAbort, NoSweep
  <2> QED BY <1>1, <2>1
<1>5. ASSUME NEW u \in Uploads,
             SweepFinal(u) \/ SweepPending(u) \/ SweepFails(u)
      PROVE  Claims
  <2>1. row' = row /\ job' = job
    BY <1>5 DEF SweepFinal, SweepPending, SweepFails
  <2>2. sweep'.todo \cup sweep'.cleaned \cup sweep'.failed
          \subseteq sweep.todo \cup sweep.cleaned \cup sweep.failed
    <3>1. CASE SweepFinal(u) BY <1>2, <3>1 DEF SweepFinal, Sweep
    <3>2. CASE SweepPending(u) BY <1>2, <3>2 DEF SweepPending, Sweep
    <3>3. CASE SweepFails(u) BY <1>2, <3>3 DEF SweepFails, Sweep
    <3> QED BY <1>5, <3>1, <3>2, <3>3
  <2> QED BY <1>1, <2>1, <2>2
<1>6. CASE SweepCommit
  <2>1. /\ sweep'.todo = {} /\ sweep'.cleaned = {} /\ sweep'.failed = {}
        /\ job' = job /\ row' = [u \in Uploads |-> Swept(u)]
    BY <1>6 DEF SweepCommit, NoSweep
  <2>2. \A u \in Uploads :
           /\ row[u].state # "NO_ROW" => row'[u].state # "NO_ROW"
           /\ row'[u].state # "NO_ROW" => row[u].state # "NO_ROW"
           /\ row[u].deleted => row'[u].deleted
    <3> SUFFICES ASSUME NEW u \in Uploads
                 PROVE  /\ row[u].state # "NO_ROW" <=> row'[u].state # "NO_ROW"
                        /\ row[u].deleted => row'[u].deleted
      OBVIOUS
    <3>1. row[u] \in Row /\ row'[u] = Swept(u)
      BY <2>1 DEF IInv, TypeOK
    <3>2. CASE u \in sweep.cleaned
      BY <3>1, <3>2 DEF Swept, Deleted, Row, Entered
    <3>3. CASE u \notin sweep.cleaned /\ u \in sweep.failed
      BY <3>1, <3>3 DEF Swept, Retried, Row, Entered
    <3>4. CASE u \notin sweep.cleaned /\ u \notin sweep.failed
      BY <3>1, <3>4 DEF Swept
    <3> QED BY <3>2, <3>3, <3>4
  <2>3. Present' \subseteq Present
    BY <2>2 DEF Present, Exists
  <2>4. \A w \in Workers : job[w].at \in CompleteSteps \cup DeleteSteps =>
           job[w].up \in Uploads
    BY DEF IInv, TypeOK, Job, Idle, CompleteSteps, DeleteSteps
  <2>5. Entered'
    BY <2>1, <2>2, <2>4 DEF Entered
  <2> QED BY <2>1, <2>3, <2>5 DEF Claims, Claimed
<1> QED BY <1>3, <1>4, <1>5, <1>6 DEF SweepStep

\* The other workers that are about to insert claim at most one file each.
LEMMA OthersClaim ==
    ASSUME IInv, NEW w \in Workers
    PROVE  LET B == {job[v].up : v \in {x \in Workers : x # w /\ job[x].at = "insert"}}
           IN  /\ B \subseteq Uploads
               /\ Cardinality(B) <= Cardinality(Workers) - 1
<1> DEFINE Others == {x \in Workers : x # w /\ job[x].at = "insert"}
           B == {job[v].up : v \in Others}
           up == [v \in Others |-> job[v].up]
<1>1. B \subseteq Uploads
  BY DEF IInv, TypeOK, Job, Idle
<1>2. IsFiniteSet(Workers) /\ IsFiniteSet(Others) /\ Others \subseteq Workers \ {w}
  BY InstanceAssumption, FS_Subset
<1>3. /\ IsFiniteSet(Workers \ {w})
      /\ Cardinality(Workers \ {w}) = Cardinality(Workers) - 1
  BY <1>2, FS_RemoveElement
<1>4. Cardinality(Others) <= Cardinality(Workers \ {w})
  BY <1>2, <1>3, FS_Subset
<1>5. up \in [Others -> B] /\ \A y \in B : \E v \in Others : up[v] = y
  OBVIOUS
<1> HIDE DEF B, up, Others
<1>6. up \in Surjection(Others, B)
  BY <1>5 DEF Surjection
<1>7. Cardinality(B) <= Cardinality(Others) /\ IsFiniteSet(B)
  BY <1>2, <1>6, FS_Surjection
<1>8. /\ Cardinality(B) \in Nat /\ Cardinality(Others) \in Nat
      /\ Cardinality(Workers \ {w}) \in Nat /\ Cardinality(Workers) \in Nat
  BY <1>2, <1>3, <1>7, FS_CardinalityType
<1>9. Cardinality(B) <= Cardinality(Workers) - 1
  BY <1>3, <1>4, <1>7, <1>8
<1> QED BY <1>1, <1>9 DEF B, Others

\* A file that passes the check is claimed with what the others then insert.
LEMMA CreateClaims ==
    ASSUME IInv, Entered, ClaimBounded, NEW u \in Uploads, NEW w \in Workers,
           Create(w, u)
    PROVE  Entered' /\ ClaimBounded'
<1>1. row' = row /\ sweep' = sweep
  BY DEF Create
<1>2. CASE job' = job
  <2>1. Claimed' = Claimed
    BY <1>1, <1>2 DEF Claimed, Present, Exists
  <2> QED BY <1>1, <1>2, <2>1 DEF Entered, ClaimBounded
<1>3. CASE Fits(u) /\ Take(w, "insert", u)
  <2>1. job' = [job EXCEPT ![w] = [at |-> "insert", up |-> u]]
    BY <1>3 DEF Take
  <2>2. \A v \in Workers : v # w => job'[v] = job[v]
    BY <2>1 DEF IInv, TypeOK
  <2>3. job'[w].at = "insert" /\ job'[w].up = u
    BY <2>1 DEF IInv, TypeOK
  <2>4. Entered'
    BY <1>1, <2>2, <2>3 DEF Entered, CompleteSteps, DeleteSteps
  <2> DEFINE B == {job[v].up : v \in {x \in Workers : x # w /\ job[x].at = "insert"}}
             E == Present \cup {u}
             L == Largest
             n == Cardinality(B)
             m == Cardinality(Workers) - 1
  <2>5. B \subseteq Uploads /\ n <= m
    BY OthersClaim
  <2>6. n \in Nat /\ m \in Int /\ L \in Nat
    BY <2>5, Counted, LargestIs, InstanceAssumption, FS_CardinalityType
  <2>7. Claimed' \subseteq E \cup B
    <3>1. Present' = Present
      BY <1>1 DEF Present, Exists
    <3>2. \A v \in Workers : job'[v].at = "insert" => job'[v].up \in B \cup {u}
      BY <2>2, <2>3
    <3> QED BY <3>1, <3>2 DEF Claimed
  <2>8. Present \subseteq Uploads /\ E \subseteq Uploads
    BY DEF Present
  <2> DEFINE C == Claimed'
  <2>9. C \subseteq E \cup B
    BY <2>7
  <2> HIDE DEF B, E, L, n, m, C
  <2>10. Total(C) <= Total(E \cup B)
    BY <2>5, <2>8, <2>9, TotalMonotone
  <2>11. Total(E \cup B) <= Total(E) + n * L
    BY <2>5, <2>8, TotalUnion DEF n, L
  <2>12. Total(E) <= Total(Present) + Size[u]
    <3>0. Total(Present) \in Nat /\ Size[u] \in Nat
      BY <2>8, TotalSteps, SizeAssumption
    <3>1. CASE u \in Present
      <4>1. E = Present
        BY <3>1 DEF E
      <4>2. Total(E) = Total(Present)
        BY <4>1
      <4> QED BY <3>0, <4>2
    <3>2. CASE u \notin Present
      <4>1. u \in E /\ E \ {u} = Present
        BY <3>2 DEF E
      <4>2. Total(E) = Size[u] + Total(Present)
        BY <2>8, <4>1, TotalRemove
      <4> QED BY <3>0, <4>2
    <3> QED BY <3>1, <3>2
  <2>13. Total(Present) + Size[u] <= Quota
    BY <1>3 DEF Fits, Used, Total, Present
  <2>14. n * L <= m * L
    BY <2>5, <2>6
  <2>15. /\ Total(C) \in Nat /\ Total(E \cup B) \in Nat /\ Total(E) \in Nat
         /\ Total(Present) \in Nat /\ Size[u] \in Nat
    BY <2>5, <2>8, <2>9, TotalSteps, SizeAssumption
  <2>16. n * L \in Int /\ m * L \in Int
    BY <2>6
  <2> DEFINE k == n * L
             l == m * L
  <2>17. k \in Int /\ l \in Int /\ k <= l /\ Total(E \cup B) <= Total(E) + k
    BY <2>11, <2>14, <2>16
  <2> HIDE DEF k, l
  <2>18. Total(C) <= Quota + l
    BY <2>10, <2>12, <2>13, <2>15, <2>17, QuotaAssumption
  <2>19. ClaimBounded'
    BY <2>18 DEF ClaimBounded, C, l, m, L
  <2> QED BY <2>4, <2>19
<1> QED BY <1>2, <1>3 DEF Create

\* Claimed files are files.
LEMMA ClaimedFiles == IInv => Claimed \subseteq Uploads
BY DEF IInv, TypeOK, Claimed, Present, Job, Idle

\* At first nothing is claimed.
LEMMA InitClaims == Init => Entered /\ ClaimBounded
<1> SUFFICES ASSUME Init PROVE Entered /\ ClaimBounded
  OBVIOUS
<1>1. Entered
  BY DEF Init, Entered, Idle, NoSweep, CompleteSteps, DeleteSteps
<1>2. Claimed = {}
  BY DEF Init, Claimed, Present, Exists, NoRow, Idle
<1>3. Total({}) = 0
  BY TotalSteps
<1>4. Cardinality(Workers) - 1 \in Nat
  BY InstanceAssumption, FS_CardinalityType, FS_EmptySet
<1>5. (Cardinality(Workers) - 1) * Largest \in Nat
  BY <1>4, LargestIs
<1>6. ClaimBounded
  BY <1>2, <1>3, <1>5, QuotaAssumption DEF ClaimBounded
<1> QED BY <1>1, <1>6

\* Every step keeps what is claimed within its bound.
LEMMA StepClaims == IInv /\ Entered /\ ClaimBounded /\ [Next]_vars
                      => Entered' /\ ClaimBounded'
<1> SUFFICES ASSUME IInv, Entered, ClaimBounded, [Next]_vars
             PROVE  Entered' /\ ClaimBounded'
  OBVIOUS
<1>1. ASSUME Claims
      PROVE  Entered' /\ ClaimBounded'
  <2> DEFINE before == Claimed
             after == Claimed'
             bound == Quota + (Cardinality(Workers) - 1) * Largest
  <2>1. before \subseteq Uploads /\ after \subseteq before
    BY <1>1, ClaimedFiles DEF Claims
  <2>2. bound \in Int
    BY QuotaAssumption, LargestIs, InstanceAssumption, FS_CardinalityType
  <2> HIDE DEF before, after, bound
  <2>3. Total(after) <= Total(before) /\ Total(after) \in Nat /\ Total(before) \in Nat
    BY <2>1, TotalMonotone, TotalSteps
  <2>4. Total(before) <= bound
    BY DEF ClaimBounded, before, bound
  <2>5. Total(after) <= bound
    BY <2>2, <2>3, <2>4
  <2>6. ClaimBounded'
    BY <2>5 DEF ClaimBounded, after, bound
  <2> QED BY <1>1, <2>6 DEF Claims
<1>2. CASE UNCHANGED vars
  <2>1. Claims
    BY <1>2 DEF vars, Claims, Entered, Claimed, Present, Exists
  <2> QED BY <1>1, <2>1
<1>3. CASE Next
  BY <1>1, <1>3, CreateClaims, TakenUpClaims, OutsideClaims, HandledClaims,
     CleanedClaims DEF Next
<1> QED BY <1>2, <1>3

\* The owner's rows exceed the quota by at most one file per further worker,
\* however the checks and the insertions of the workers interleave and
\* whatever is deleted, cleaned up or lost in between.
THEOREM QuotaHolds == Spec => []QuotaOvershoot
<1>1. IInv /\ ClaimBounded => QuotaOvershoot
  <2> SUFFICES ASSUME IInv, ClaimBounded PROVE QuotaOvershoot
    OBVIOUS
  <2>1. Present \subseteq Claimed /\ Claimed \subseteq Uploads
    BY ClaimedFiles DEF Claimed
  <2> DEFINE bound == Quota + (Cardinality(Workers) - 1) * Largest
  <2>2. bound \in Int
    BY QuotaAssumption, LargestIs, InstanceAssumption, FS_CardinalityType
  <2>3. Total(Claimed) <= bound
    BY DEF ClaimBounded
  <2> HIDE DEF bound
  <2>4. Total(Present) <= Total(Claimed)
    BY <2>1, TotalMonotone
  <2>5. Total(Present) \in Nat /\ Total(Claimed) \in Nat
    BY <2>1, TotalSteps
  <2>6. Total(Present) <= bound
    BY <2>2, <2>3, <2>4, <2>5
  <2>7. Total(Present) = Used
    BY DEF Total, Present, Used
  <2> QED BY <2>6, <2>7 DEF QuotaOvershoot, bound, Largest
<1> QED BY <1>1, InitClaims, StepClaims, AlwaysIInv, PTL DEF Spec
=============================================================================
