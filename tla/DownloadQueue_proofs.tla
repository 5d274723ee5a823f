------------------------ MODULE DownloadQueue_proofs ------------------------
(***************************************************************************)
(* Theorems about DownloadQueue, for any chapters, publications, requests  *)
(* and any number of faults.                                               *)
(*                                                                         *)
(* The argument: from the moment the worker has claimed a chapter until it *)
(* records the outcome, nothing but the deletion of the publication moves  *)
(* that chapter's row; so the worker alone decides what is under a         *)
(* `downloading` chapter's names, and it promotes a directory only when    *)
(* all of its pages were written.  Without a fault it never downloads what *)
(* is there; after one, a copy is under its name or staged aside.          *)
(***************************************************************************)
EXTENDS DownloadQueue, TLAPS

(* The row of the chapter the worker has in hand. *)
WorkerOnItsRow ==
    /\ wpc = "claim" => row[wunit] \in {"pending", "none", "gone"}
    /\ wpc \in Working => row[wunit] \in {"downloading", "gone"}
    /\ wpc = "discard" => row[wunit] = "gone"

(* Only a deleted publication's directory is purged. *)
PurgesOnlyGone ==
    \A r \in Requests : task[r] = "purge" => \A u \in todo[r] : row[u] = "gone"

(* What is about to be promoted is whole (or was deleted meanwhile). *)
StagedIsWhole ==
    wpc \in {"dropStale", "stage", "promote"} => partial[wunit] # "torn"

(* Between the promotion and the record, the copy is owed exactly when it is *)
(* still there.                                                              *)
PromotedIsOwed ==
    wpc = "dropOld" \/ (wpc = "record" /\ outcome = "downloaded") =>
        row[wunit] = "gone" \/ (wunit \in owed <=> dir[wunit] = "full")

IndInv ==
    /\ TypeOK
    /\ WorkerOnItsRow
    /\ PurgesOnlyGone
    /\ StagedIsWhole
    /\ PromotedIsOwed
    /\ DownloadedIsComplete
-----------------------------------------------------------------------------
USE DEF RowState, Copy, Working, WorkerPc, TaskPc, FaultKinds

(* The initial states satisfy the inductive invariant. *)
LEMMA InitIndInv == Init => IndInv
<1> SUFFICES ASSUME Init PROVE IndInv
  OBVIOUS
<1>1. TypeOK
  BY DEF Init, TypeOK
<1>2. WorkerOnItsRow /\ StagedIsWhole /\ PromotedIsOwed
  BY DEF Init, WorkerOnItsRow, StagedIsWhole, PromotedIsOwed
<1>3. PurgesOnlyGone
  BY DEF Init, PurgesOnlyGone
<1>4. DownloadedIsComplete
  BY DEF Init, DownloadedIsComplete
<1>5. QED
  BY <1>1, <1>2, <1>3, <1>4 DEF IndInv

(* Counting a fault keeps the counters' type. *)
LEMMA FaultType ==
    ASSUME TypeOK, NEW k \in FaultKinds, Fault(k)
    PROVE  spent' \in [FaultKinds -> Nat]
BY DEF TypeOK, Fault

(* Setting rows to a state of the column keeps their type. *)
LEMMA SetRowsType ==
    ASSUME TypeOK, NEW S, NEW st \in RowState, SetRows(S, st)
    PROVE  row' \in [Units -> RowState]
BY DEF TypeOK, SetRows

(* Every step keeps the types. *)
LEMMA TypeStep == TypeOK /\ [Next]_vars => TypeOK'
<1> SUFFICES ASSUME TypeOK, [Next]_vars PROVE TypeOK'
  OBVIOUS
<1> USE FaultAssumption, PubAssumption DEF TypeOK
<1>1. CASE Poll
  BY <1>1 DEF Poll, Pending, NextPending, disk, tasks
<1>2. CASE Claim
  BY <1>2 DEF Claim, SetRows, Listed, disk, tasks
<1>3. CASE Resolve \/ AskSource
  BY <1>3 DEF Resolve, AskSource, Return, disk, tasks
<1>4. CASE FetchDone \/ FetchFail \/ DropStale
  BY <1>4 DEF FetchDone, FetchFail, DropStale, Return, tasks
<1>5. CASE Stage
  <2>1. dir' \in [Units -> Copy] /\ old' \in [Units -> Copy]
    BY <1>5 DEF Stage
  <2>2. spent' \in [FaultKinds -> Nat]
    BY <1>5, FaultType DEF Stage
  <2>3. QED
    BY <1>5, <2>1, <2>2 DEF Stage, tasks
<1>6. CASE Promote
  <2>1. dir' \in [Units -> Copy] /\ partial' \in [Units -> Copy] /\ owed' \in SUBSET Units
    BY <1>6 DEF Promote
  <2>2. spent' \in [FaultKinds -> Nat]
    BY <1>6, FaultType DEF Promote
  <2>3. QED
    BY <1>6, <2>1, <2>2 DEF Promote, tasks
<1>7. CASE Restore
  <2>1. dir' \in [Units -> Copy] /\ old' \in [Units -> Copy]
    BY <1>7 DEF Restore
  <2>2. spent' \in [FaultKinds -> Nat]
    BY <1>7, FaultType DEF Restore
  <2>3. QED
    BY <1>7, <2>1, <2>2 DEF Restore, Return, tasks
<1>8. CASE DropOld \/ Record \/ Discard
  BY <1>8 DEF DropOld, Record, Discard, Return, SetRows, Listed, disk, tasks
<1>9. CASE WakeByNotify \/ WakeByTimer
  BY <1>9 DEF WakeByNotify, WakeByTimer, disk, tasks
<1>10. CASE WorkerDbError
  BY <1>10, FaultType DEF WorkerDbError, disk, tasks
<1>11. ASSUME NEW r \in Requests, NewRequest(r) PROVE TypeOK'
  <2>1. ASSUME NEW u \in Units, Download(r, u) PROVE TypeOK'
    BY <2>1 DEF Download, GoTo, disk, worker
  <2>2. ASSUME NEW S \in SUBSET Units, DownloadMany(r, S) PROVE TypeOK'
    <3>1. row' \in [Units -> RowState]
      BY <2>2, SetRowsType DEF DownloadMany, Queue
    <3>2. QED
      BY <2>2, <3>1 DEF DownloadMany, GoTo, disk, worker
  <2>3. ASSUME NEW S \in SUBSET Units, Retry(r, S) PROVE TypeOK'
    <3>1. row' \in [Units -> RowState]
      BY <2>3, SetRowsType DEF Retry
    <3>2. QED
      BY <2>3, <3>1 DEF Retry, GoTo, disk, worker
  <2>4. ASSUME NEW S \in SUBSET Units, Discover(r, S) PROVE TypeOK'
    BY <2>4 DEF Discover, SetRows, GoTo, disk, worker
  <2>5. ASSUME NEW S \in SUBSET Units, Remove(r, S) PROVE TypeOK'
    BY <2>5 DEF Remove, GoTo, disk, worker
  <2>6. ASSUME NEW p \in Pubs, Delete(r, p) PROVE TypeOK'
    BY <2>6 DEF Delete, SetRows, GoTo, disk, worker
  <2>7. QED
    BY <1>11, <2>1, <2>2, <2>3, <2>4, <2>5, <2>6 DEF NewRequest
<1>12. ASSUME NEW r \in Requests, TaskStep(r) PROVE TypeOK'
  <2>1. CASE QueueUser(r)
    <3>1. row' \in [Units -> RowState]
      BY <2>1, SetRowsType DEF QueueUser, Queue
    <3>2. QED
      BY <2>1, <3>1 DEF QueueUser, GoTo, disk, worker
  <2>6. CASE QueueAuto(r)
    <3>1. row' \in [Units -> RowState]
      BY <2>6, SetRowsType DEF QueueAuto, Queue
    <3>2. QED
      BY <2>6, <3>1 DEF QueueAuto, GoTo, disk, worker
  <2>4. CASE Notify(r)
    BY <2>4 DEF Notify, GoTo, Finish, disk, worker
  <2>5. CASE Purge(r)
    BY <2>5 DEF Purge, GoTo, Finish, disk, worker
  <2>2. ASSUME NEW u \in Units, ResetRow(r, u) PROVE TypeOK'
    BY <2>2 DEF ResetRow, SetRows, GoTo, disk, worker
  <2>3. ASSUME NEW u \in Units, RemoveFiles(r, u) PROVE TypeOK'
    BY <2>3 DEF RemoveFiles, GoTo, Listed, worker
  <2>7. QED
    BY <1>12, <2>1, <2>2, <2>3, <2>4, <2>5, <2>6 DEF TaskStep
<1>13. ASSUME NEW r \in Requests, Abandon(r) PROVE TypeOK'
  BY <1>13 DEF Abandon, Finish, GoTo, Fault, disk, worker
<1>14. ASSUME NEW S \in SUBSET Units, Dismiss(S) PROVE TypeOK'
  BY <1>14 DEF Dismiss, SetRows, disk, worker, tasks
<1>15. CASE Restart
  <2>1. row' \in [Units -> RowState]
    BY <1>15 DEF Restart, Requeue
  <2>2. dir' \in [Units -> Copy] /\ old' \in [Units -> Copy] /\ owed' \in SUBSET Units
    BY <1>15 DEF Restart
  <2>3. /\ task' \in [Requests -> TaskPc]
        /\ todo' \in [Requests -> SUBSET Units]
        /\ removed' \in [Requests -> SUBSET Units]
    BY <1>15 DEF Restart
  <2>4. spent' \in [FaultKinds -> Nat]
    BY <1>15 DEF Restart, Fault
  <2>5. QED
    BY <1>15, <2>1, <2>2, <2>3, <2>4 DEF Restart
<1>16. CASE UNCHANGED vars
  BY <1>16 DEF vars
<1>17. QED
  BY <1>1, <1>2, <1>3, <1>4, <1>5, <1>6, <1>7, <1>8, <1>9, <1>11, <1>12,
     <1>10, <1>13, <1>14, <1>15, <1>16 DEF Next
-----------------------------------------------------------------------------
(* What a handler, a dismissal or a dropped handler can do to a row: delete *)
(* it, queue it or dismiss it, but never start, finish or revive a download. *)
RowStep(u) ==
    /\ row[u] = "gone" => row'[u] = "gone"
    /\ row[u] = "downloading" => row'[u] \in {"downloading", "gone"}
    /\ row[u] \in {"pending", "none"} => row'[u] \in {"pending", "none", "gone"}
    /\ row'[u] \in {"downloading", "downloaded"} => row'[u] = row[u]

HandlerStep ==
    \/ \E r \in Requests : NewRequest(r) \/ TaskStep(r) \/ Abandon(r)
    \/ \E S \in SUBSET Units : Dismiss(S)

(* A handler leaves the worker alone, and does to rows only what RowStep says. *)
LEMMA HandlerRowStep ==
    ASSUME TypeOK, HandlerStep
    PROVE  worker' = worker /\ \A u \in Units : RowStep(u)
<1> USE DEF TypeOK, RowStep
<1>1. ASSUME NEW r \in Requests, NEW u \in Units, Download(r, u)
      PROVE  worker' = worker /\ row' = row
  BY <1>1 DEF Download
<1>2. ASSUME NEW r \in Requests, NEW S \in SUBSET Units,
             DownloadMany(r, S) \/ Retry(r, S) \/ Discover(r, S) \/ Remove(r, S)
      PROVE  worker' = worker /\ \A u \in Units : RowStep(u)
  <2>1. CASE DownloadMany(r, S)
    BY <2>1 DEF DownloadMany, Queue, Queueable, SetRows
  <2>2. CASE Retry(r, S)
    BY <2>2 DEF Retry, SetRows
  <2>3. CASE Discover(r, S)
    BY <2>3 DEF Discover, SetRows
  <2>4. CASE Remove(r, S)
    BY <2>4 DEF Remove
  <2>5. QED
    BY <1>2, <2>1, <2>2, <2>3, <2>4
<1>3. ASSUME NEW r \in Requests, NEW p \in Pubs, Delete(r, p)
      PROVE  worker' = worker /\ \A u \in Units : RowStep(u)
  BY <1>3 DEF Delete, SetRows
<1>4. ASSUME NEW r \in Requests, QueueUser(r) \/ QueueAuto(r)
      PROVE  worker' = worker /\ \A u \in Units : RowStep(u)
  BY <1>4 DEF QueueUser, QueueAuto, Queue, Queueable, SetRows
<1>5. ASSUME NEW r \in Requests, Notify(r) \/ Purge(r) \/ Abandon(r)
      PROVE  worker' = worker /\ row' = row
  BY <1>5 DEF Notify, Purge, Abandon
<1>6. ASSUME NEW r \in Requests, NEW v \in Units, ResetRow(r, v)
      PROVE  worker' = worker /\ \A u \in Units : RowStep(u)
  BY <1>6 DEF ResetRow, SetRows
<1>7. ASSUME NEW r \in Requests, NEW v \in Units, RemoveFiles(r, v)
      PROVE  worker' = worker /\ row' = row
  BY <1>7 DEF RemoveFiles
<1>8. ASSUME NEW S \in SUBSET Units, Dismiss(S)
      PROVE  worker' = worker /\ \A u \in Units : RowStep(u)
  BY <1>8 DEF Dismiss, SetRows
<1>9. row' = row => \A u \in Units : RowStep(u)
  OBVIOUS
<1>10. QED
  BY <1>1, <1>2, <1>3, <1>4, <1>5, <1>6, <1>7, <1>8, <1>9
  DEF HandlerStep, NewRequest, TaskStep

(* The chapter the worker has in hand keeps the row the worker expects. *)
LEMMA WorkerRowStep ==
    ASSUME IndInv, [Next]_vars
    PROVE  WorkerOnItsRow'
<1> USE DEF IndInv, WorkerOnItsRow
<1>1. CASE Poll
  BY <1>1 DEF Poll, Pending, NextPending
<1>2. CASE Claim
  BY <1>2 DEF Claim, SetRows, Listed, TypeOK
<1>3. CASE Resolve \/ AskSource \/ FetchDone \/ FetchFail \/ DropStale
  BY <1>3 DEF Resolve, AskSource, FetchDone, FetchFail, DropStale, Return
<1>4. CASE Stage \/ Promote \/ Restore \/ DropOld
  BY <1>4 DEF Stage, Promote, Restore, DropOld, Return
<1>5. CASE Record \/ Discard
  BY <1>5 DEF Record, Discard, SetRows, Listed
<1>6. CASE WakeByNotify \/ WakeByTimer \/ WorkerDbError
  BY <1>6 DEF WakeByNotify, WakeByTimer, WorkerDbError
<1>7. CASE HandlerStep
  BY <1>7, HandlerRowStep DEF RowStep, worker, TypeOK
<1>8. CASE Restart
  BY <1>8 DEF Restart
<1>9. CASE UNCHANGED vars
  BY <1>9 DEF vars
<1>10. QED
  BY <1>1, <1>2, <1>3, <1>4, <1>5, <1>6, <1>7, <1>8, <1>9
  DEF Next, HandlerStep

(* A deleted row stays deleted. *)
LEMMA GoneForGood ==
    ASSUME TypeOK, [Next]_vars, NEW u \in Units, row[u] = "gone"
    PROVE  row'[u] = "gone"
<1>1. CASE HandlerStep
  BY <1>1, HandlerRowStep DEF RowStep
<1>2. CASE Claim
  BY <1>2 DEF Claim, SetRows, Listed
<1>3. CASE Record
  BY <1>3 DEF Record, SetRows, Listed
<1>4. CASE Restart
  BY <1>4 DEF Restart, Requeue
<1>5. CASE row' = row
  BY <1>5
<1>6. CASE Poll \/ Resolve \/ AskSource \/ FetchDone \/ FetchFail
  BY <1>5, <1>6 DEF Poll, Resolve, AskSource, FetchDone, FetchFail
<1>7. CASE DropStale \/ Stage \/ Promote \/ Restore \/ DropOld
  BY <1>5, <1>7 DEF DropStale, Stage, Promote, Restore, DropOld
<1>8. CASE Discard \/ WakeByNotify \/ WakeByTimer \/ WorkerDbError \/ UNCHANGED vars
  BY <1>5, <1>8 DEF Discard, WakeByNotify, WakeByTimer, WorkerDbError, vars
<1>9. QED
  BY <1>1, <1>2, <1>3, <1>4, <1>6, <1>7, <1>8 DEF Next, HandlerStep

(* A handler that goes to any other step than the purge leaves those that *)
(* are at their purge as they were.                                       *)
LEMMA PurgeElsewhere ==
    ASSUME TypeOK, NEW q \in Requests, NEW r \in Requests,
           NEW step, NEW S, step # "purge", GoTo(q, step, S), task'[r] = "purge"
    PROVE  task[r] = "purge" /\ todo'[r] = todo[r]
<1>1. /\ task' = [task EXCEPT ![q] = step]
      /\ todo' = [todo EXCEPT ![q] = S]
  BY DEF GoTo
<1>2. DOMAIN task = Requests /\ DOMAIN todo = Requests
  BY DEF TypeOK
<1>3. r # q
  BY <1>1, <1>2
<1>4. QED
  BY <1>1, <1>2, <1>3

(* A handler is at its purge because it was there already, or because it has *)
(* just deleted the publication of the chapters it goes through.             *)
LEMMA PurgeOrigin ==
    ASSUME TypeOK, [Next]_vars, NEW r \in Requests, task'[r] = "purge"
    PROVE  \/ task[r] = "purge" /\ todo'[r] = todo[r]
           \/ \A u \in todo'[r] : u \in Units /\ row'[u] = "gone"
<1> DEFINE Stays == task[r] = "purge" /\ todo'[r] = todo[r]
<1>1. ASSUME NEW q \in Requests, NEW v \in Units, Download(q, v) PROVE Stays
  BY <1>1, PurgeElsewhere DEF Download
<1>2. ASSUME NEW q \in Requests, NEW S \in SUBSET Units, DownloadMany(q, S) PROVE Stays
  BY <1>2, PurgeElsewhere DEF DownloadMany
<1>3. ASSUME NEW q \in Requests, NEW S \in SUBSET Units, Retry(q, S) PROVE Stays
  BY <1>3, PurgeElsewhere DEF Retry
<1>4. ASSUME NEW q \in Requests, NEW S \in SUBSET Units, Discover(q, S) PROVE Stays
  BY <1>4, PurgeElsewhere DEF Discover
<1>5. ASSUME NEW q \in Requests, NEW S \in SUBSET Units, Remove(q, S) PROVE Stays
  BY <1>5, PurgeElsewhere DEF Remove
<1>6. ASSUME NEW q \in Requests, NEW p \in Pubs, Delete(q, p)
      PROVE  Stays \/ \A u \in todo'[r] : u \in Units /\ row'[u] = "gone"
  <2> DEFINE Doomed == {u \in Units : PubOf[u] = p}
  <2>1. SetRows(Doomed, "gone") /\ GoTo(q, "purge", Doomed)
    BY <1>6 DEF Delete
  <2>2. DOMAIN task = Requests /\ DOMAIN todo = Requests
    BY DEF TypeOK
  <2>3. CASE r = q
    <3>1. todo'[r] = Doomed
      BY <2>1, <2>2, <2>3 DEF GoTo
    <3>2. QED
      BY <2>1, <3>1 DEF SetRows
  <2>4. CASE r # q
    BY <2>1, <2>2, <2>4 DEF GoTo
  <2>5. QED
    BY <2>3, <2>4
<1>7. ASSUME NEW q \in Requests, QueueUser(q) PROVE Stays
  BY <1>7, PurgeElsewhere DEF QueueUser
<1>8. ASSUME NEW q \in Requests, QueueAuto(q) PROVE Stays
  BY <1>8, PurgeElsewhere DEF QueueAuto
<1>9. ASSUME NEW q \in Requests, Notify(q) PROVE Stays
  BY <1>9, PurgeElsewhere DEF Notify, Finish
<1>10. ASSUME NEW q \in Requests, Purge(q) PROVE Stays
  BY <1>10, PurgeElsewhere DEF Purge, Finish
<1>11. ASSUME NEW q \in Requests, Abandon(q) PROVE Stays
  BY <1>11, PurgeElsewhere DEF Abandon, Finish
<1>12. ASSUME NEW q \in Requests, NEW v \in Units, ResetRow(q, v) PROVE Stays
  BY <1>12, PurgeElsewhere DEF ResetRow
<1>13. ASSUME NEW q \in Requests, NEW v \in Units, RemoveFiles(q, v) PROVE Stays
  BY <1>13, PurgeElsewhere DEF RemoveFiles
<1>14. ASSUME NEW q \in Requests, NewRequest(q)
       PROVE  Stays \/ \A u \in todo'[r] : u \in Units /\ row'[u] = "gone"
  BY <1>14, <1>1, <1>2, <1>3, <1>4, <1>5, <1>6 DEF NewRequest
<1>15. ASSUME NEW q \in Requests, TaskStep(q) PROVE Stays
  BY <1>15, <1>7, <1>8, <1>9, <1>10, <1>12, <1>13 DEF TaskStep
<1>16. CASE Restart
  BY <1>16 DEF Restart
<1>17. ASSUME UNCHANGED tasks PROVE Stays
  BY <1>17 DEF tasks
<1>18. CASE Poll \/ Claim \/ Resolve \/ AskSource \/ FetchDone \/ FetchFail
  BY <1>17, <1>18 DEF Poll, Claim, Resolve, AskSource, FetchDone, FetchFail
<1>19. CASE DropStale \/ Stage \/ Promote \/ Restore \/ DropOld
  BY <1>17, <1>19 DEF DropStale, Stage, Promote, Restore, DropOld
<1>20. CASE Record \/ Discard \/ WakeByNotify \/ WakeByTimer \/ WorkerDbError
  BY <1>17, <1>20 DEF Record, Discard, WakeByNotify, WakeByTimer, WorkerDbError
<1>21. ASSUME NEW S \in SUBSET Units, Dismiss(S) PROVE Stays
  BY <1>17, <1>21 DEF Dismiss
<1>22. CASE UNCHANGED vars
  BY <1>17, <1>22 DEF vars, tasks
<1>23. CASE HandlerStep
  BY <1>11, <1>14, <1>15, <1>21, <1>23 DEF HandlerStep
<1>24. QED
  BY <1>16, <1>18, <1>19, <1>20, <1>22, <1>23 DEF Next, HandlerStep

(* A handler purges only what it has just deleted. *)
LEMMA PurgeStep ==
    ASSUME IndInv, [Next]_vars
    PROVE  PurgesOnlyGone'
<1>1. SUFFICES ASSUME NEW r \in Requests, task'[r] = "purge", NEW u \in todo'[r]
               PROVE  row'[u] = "gone"
  BY DEF PurgesOnlyGone
<1>2. TypeOK
  BY DEF IndInv
<1>3. CASE task[r] = "purge" /\ todo'[r] = todo[r]
  <2>1. u \in todo[r] /\ row[u] = "gone"
    BY <1>3 DEF IndInv, PurgesOnlyGone
  <2>2. u \in Units
    BY <1>2, <2>1 DEF TypeOK
  <2>3. QED
    BY <1>2, <2>1, <2>2, GoneForGood
<1>4. CASE \A w \in todo'[r] : w \in Units /\ row'[w] = "gone"
  BY <1>4
<1>5. QED
  BY <1>1, <1>2, <1>3, <1>4, PurgeOrigin
-----------------------------------------------------------------------------
(* What becomes of a chapter's directory and history while the worker is not *)
(* at the step that publishes it: they change together, or the row is gone.  *)
DiskStep(u) ==
    \/ dir'[u] = dir[u] /\ (u \in owed' <=> u \in owed)
    \/ dir'[u] # "full" /\ u \notin owed'
    \/ row'[u] \notin {"downloading", "downloaded"}

(* What a handler does to the files and rows of chapters keeps DiskStep.     *)
LEMMA HandlerDiskStep ==
    ASSUME IndInv, HandlerStep
    PROVE  \A u \in Units : DiskStep(u)
<1> USE DEF IndInv, TypeOK, DiskStep
<1>1. CASE UNCHANGED <<dir, owed>>
  BY <1>1
<1>2. ASSUME NEW r \in Requests, NEW v \in Units, ResetRow(r, v)
      PROVE  \A u \in Units : DiskStep(u)
  BY <1>2 DEF ResetRow, SetRows, disk
<1>3. ASSUME NEW r \in Requests, NEW v \in Units, RemoveFiles(r, v)
      PROVE  \A u \in Units : DiskStep(u)
  BY <1>3 DEF RemoveFiles
<1>4. ASSUME NEW r \in Requests, NEW p \in Pubs, Delete(r, p)
      PROVE  \A u \in Units : DiskStep(u)
  BY <1>4 DEF Delete, SetRows, disk
<1>5. ASSUME NEW r \in Requests, Purge(r)
      PROVE  \A u \in Units : DiskStep(u)
  BY <1>5 DEF Purge, PurgesOnlyGone
<1>6. QED
  BY <1>1, <1>2, <1>3, <1>4, <1>5
  DEF HandlerStep, NewRequest, TaskStep, Download, DownloadMany, Retry, Discover,
      Remove, QueueUser, QueueAuto, Notify, Abandon, Dismiss, disk

(* So does a restart.                                                        *)
LEMMA RestartDiskStep ==
    ASSUME IndInv, Restart
    PROVE  \A u \in Units : DiskStep(u)
BY DEF IndInv, TypeOK, DiskStep, Restart

(* The worker never promotes less than the whole chapter it staged.          *)
LEMMA StagedStep ==
    ASSUME IndInv, [Next]_vars
    PROVE  StagedIsWhole'
<1> USE DEF IndInv, TypeOK, StagedIsWhole
<1>1. CASE Poll \/ Claim \/ Resolve \/ AskSource
  BY <1>1 DEF Poll, Claim, Resolve, AskSource, Return
<1>2. CASE FetchDone \/ FetchFail \/ DropStale \/ Stage
  BY <1>2 DEF FetchDone, FetchFail, DropStale, Stage, Return
<1>3. CASE Promote \/ Restore \/ DropOld \/ Record \/ Discard
  BY <1>3 DEF Promote, Restore, DropOld, Record, Discard, Return
<1>4. CASE WakeByNotify \/ WakeByTimer \/ WorkerDbError
  BY <1>4 DEF WakeByNotify, WakeByTimer, WorkerDbError
<1>5. CASE HandlerStep
  <2>1. \A u \in Units : partial'[u] \in {partial[u], "absent"}
    <3>1. ASSUME NEW r \in Requests, Purge(r)
          PROVE  \A u \in Units : partial'[u] \in {partial[u], "absent"}
      BY <3>1 DEF Purge
    <3>2. CASE partial' = partial
      BY <3>2
    <3>3. QED
      BY <1>5, <3>1, <3>2
      DEF HandlerStep, NewRequest, TaskStep, Download, DownloadMany, Retry,
          Discover, Remove, Delete, QueueUser, QueueAuto, Notify, ResetRow,
          RemoveFiles, Abandon, Dismiss, disk
  <2>2. QED
    BY <1>5, <2>1, HandlerRowStep DEF worker
<1>6. CASE Restart
  BY <1>6 DEF Restart
<1>7. CASE UNCHANGED vars
  BY <1>7 DEF vars
<1>8. QED
  BY <1>1, <1>2, <1>3, <1>4, <1>5, <1>6, <1>7 DEF Next, HandlerStep

(* From the swap of the directories to the record of it, the copy is whole.  *)
LEMMA PromotedStep ==
    ASSUME IndInv, [Next]_vars
    PROVE  PromotedIsOwed'
<1> USE DEF IndInv, TypeOK, PromotedIsOwed
<1>1. CASE Poll \/ Claim \/ Resolve \/ AskSource
  BY <1>1 DEF Poll, Claim, Resolve, AskSource, Return
<1>2. CASE FetchDone \/ FetchFail \/ DropStale \/ Stage \/ Restore
  BY <1>2 DEF FetchDone, FetchFail, DropStale, Stage, Restore, Return
<1>3. CASE Promote
  BY <1>3 DEF Promote, Listed, StagedIsWhole, WorkerOnItsRow
<1>4. CASE DropOld \/ Record \/ Discard
  BY <1>4 DEF DropOld, Record, Discard, Return
<1>5. CASE WakeByNotify \/ WakeByTimer \/ WorkerDbError
  BY <1>5 DEF WakeByNotify, WakeByTimer, WorkerDbError
<1>6. CASE HandlerStep
  <2>1. worker' = worker /\ RowStep(wunit) /\ DiskStep(wunit)
    BY <1>6, HandlerRowStep, HandlerDiskStep
  <2>2. QED
    BY <2>1 DEF RowStep, DiskStep, WorkerOnItsRow, worker
<1>7. CASE Restart
  BY <1>7 DEF Restart
<1>8. CASE UNCHANGED vars
  BY <1>8 DEF vars
<1>9. QED
  BY <1>1, <1>2, <1>3, <1>4, <1>5, <1>6, <1>7, <1>8 DEF Next, HandlerStep

(* A chapter recorded as downloaded is there, or its removal is owed.        *)
LEMMA CompleteStep ==
    ASSUME IndInv, [Next]_vars
    PROVE  DownloadedIsComplete'
<1> USE DEF IndInv, TypeOK, DownloadedIsComplete
<1>1. CASE UNCHANGED <<row, dir, owed>>
  BY <1>1
<1>2. CASE Claim
  BY <1>2 DEF Claim, SetRows, disk
<1>3. CASE Stage \/ Promote \/ Restore \/ Discard
  BY <1>3 DEF Stage, Promote, Restore, Discard, WorkerOnItsRow
<1>4. CASE Record
  BY <1>4 DEF Record, SetRows, Listed, PromotedIsOwed, disk
<1>5. CASE HandlerStep
  BY <1>5, HandlerRowStep, HandlerDiskStep DEF RowStep, DiskStep
<1>6. CASE Restart
  BY <1>6, RestartDiskStep DEF Restart, Requeue, DiskStep
<1>7. QED
  BY <1>1, <1>2, <1>3, <1>4, <1>5, <1>6
  DEF Next, HandlerStep, Poll, Resolve, AskSource, FetchDone, FetchFail,
      DropStale, DropOld, WakeByNotify, WakeByTimer, WorkerDbError, vars, disk

(* Every step preserves the inductive invariant.                             *)
LEMMA IndInvStep == IndInv /\ [Next]_vars => IndInv'
BY TypeStep, WorkerRowStep, PurgeStep, StagedStep, PromotedStep, CompleteStep
DEF IndInv

(* The inductive invariant holds throughout.                                 *)
THEOREM SpecIndInv == Spec => []IndInv
<1>1. QED
  BY InitIndInv, IndInvStep, PTL DEF Spec
-----------------------------------------------------------------------------
(* The state of the queue is always a state the columns and the disk have.  *)
THEOREM TypeCorrect == Spec => []TypeOK
<1>1. IndInv => TypeOK
  BY DEF IndInv
<1>2. QED
  BY <1>1, SpecIndInv, PTL

(* Whatever fails and however often the process restarts, a chapter recorded *)
(* as downloaded has all its pages on disk exactly when no removal deleted   *)
(* them after the row had moved on.                                          *)
THEOREM DownloadedComplete == Spec => []DownloadedIsComplete
<1>1. IndInv => DownloadedIsComplete
  BY DEF IndInv
<1>2. QED
  BY <1>1, SpecIndInv, PTL
-----------------------------------------------------------------------------
(* A row marked downloading is the worker's own, or its record failed.       *)
LEMMA ActiveStep ==
    ASSUME IndInv, DownloadingIsActive, [Next]_vars
    PROVE  DownloadingIsActive'
<1> USE DEF IndInv, TypeOK, DownloadingIsActive
<1>1. CASE Poll \/ Resolve \/ AskSource \/ FetchDone \/ FetchFail \/ DropStale
  BY <1>1 DEF Poll, Resolve, AskSource, FetchDone, FetchFail, DropStale, Return
<1>2. CASE Claim
  BY <1>2 DEF Claim, SetRows
<1>3. CASE Stage \/ Promote \/ Restore
  BY <1>3 DEF Stage, Promote, Restore, Return, Fault
<1>4. CASE DropOld \/ Discard \/ WakeByNotify \/ WakeByTimer
  BY <1>4 DEF DropOld, Discard, WakeByNotify, WakeByTimer, Return
<1>5. CASE Record
  BY <1>5 DEF Record, SetRows, Listed
<1>6. CASE WorkerDbError
  BY <1>6 DEF WorkerDbError, Fault
<1>7. CASE HandlerStep
  <2>1. spent'["db"] = 0 => spent["db"] = 0
    BY <1>7 DEF HandlerStep, NewRequest, TaskStep, Download, DownloadMany, Retry,
       Discover, Remove, Delete, QueueUser, QueueAuto, Notify, Purge, ResetRow,
       RemoveFiles, Abandon, Dismiss, Fault
  <2>2. QED
    BY <1>7, <2>1, HandlerRowStep DEF RowStep, worker
<1>8. CASE Restart
  BY <1>8 DEF Restart, Requeue
<1>9. CASE UNCHANGED vars
  BY <1>9 DEF vars
<1>10. QED
  BY <1>1, <1>2, <1>3, <1>4, <1>5, <1>6, <1>7, <1>8, <1>9 DEF Next, HandlerStep

(* As long as the database answers, no chapter is left `downloading` with   *)
(* nobody downloading it.                                                   *)
THEOREM DownloadingActive == Spec => []DownloadingIsActive
<1>1. Init => DownloadingIsActive
  BY DEF Init, DownloadingIsActive
<1>2. IndInv /\ DownloadingIsActive /\ [Next]_vars => DownloadingIsActive'
  BY ActiveStep
<1>3. QED
  BY <1>1, <1>2, SpecIndInv, PTL DEF Spec
-----------------------------------------------------------------------------
(* What keeps the worker awake is not lost: the queue does not grow, the    *)
(* permit stays and whoever was about to give one still is.                 *)
StillWakes ==
    /\ Pending' \subseteq Pending
    /\ notified => notified'
    /\ \A q \in Requests : task[q] = "notify" => task'[q] = "notify"

(* A handler that goes elsewhere is not the one that is about to notify. *)
LEMMA NotifyElsewhere ==
    ASSUME TypeOK, NEW r \in Requests, NEW step, NEW S, GoTo(r, step, S),
           task[r] # "notify"
    PROVE  \A q \in Requests : task[q] = "notify" => task'[q] = "notify"
BY DEF GoTo, TypeOK

(* A row set to anything but pending leaves the queue no longer.            *)
LEMMA QueueNoLonger ==
    ASSUME TypeOK, NEW S, NEW st, st # "pending", SetRows(S, st)
    PROVE  Pending' \subseteq Pending
BY DEF SetRows, Pending

(* A handler that queues a chapter is about to notify; the others leave the *)
(* queue no longer and the wake-ups on their way.                           *)
LEMMA HandlerWakes ==
    ASSUME TypeOK, HandlerStep, spent'["drop"] = 0
    PROVE  StillWakes \/ notified' \/ \E r \in Requests : task'[r] = "notify"
<1> USE DEF StillWakes
<1>1. ASSUME NEW r \in Requests, NEW step, NEW S, GoTo(r, step, S)
      PROVE  task'[r] = step
  BY <1>1 DEF GoTo, TypeOK
<1>2. row' = row => Pending' = Pending
  BY DEF Pending
<1>3. ASSUME NEW r \in Requests, NewRequest(r)
      PROVE  StillWakes \/ task'[r] = "notify"
  <2>1. task[r] = "idle"
    BY <1>3 DEF NewRequest, Download, DownloadMany, Retry, Discover, Remove, Delete, Idle
  <2>2. ASSUME NEW u \in Units, Download(r, u) PROVE StillWakes
    BY <1>2, <2>1, <2>2, NotifyElsewhere DEF Download
  <2>3. ASSUME NEW S \in SUBSET Units, DownloadMany(r, S) \/ Retry(r, S)
        PROVE  task'[r] = "notify"
    BY <1>1, <2>3 DEF DownloadMany, Retry
  <2>4. ASSUME NEW S \in SUBSET Units, Discover(r, S) PROVE StillWakes
    BY <2>1, <2>4, NotifyElsewhere, QueueNoLonger DEF Discover
  <2>5. ASSUME NEW S \in SUBSET Units, Remove(r, S) PROVE StillWakes
    BY <1>2, <2>1, <2>5, NotifyElsewhere DEF Remove
  <2>6. ASSUME NEW p \in Pubs, Delete(r, p) PROVE StillWakes
    BY <2>1, <2>6, NotifyElsewhere, QueueNoLonger DEF Delete
  <2>7. QED
    BY <1>3, <2>2, <2>3, <2>4, <2>5, <2>6 DEF NewRequest
<1>4. ASSUME NEW r \in Requests, TaskStep(r)
      PROVE  StillWakes \/ notified' \/ task'[r] = "notify"
  <2>1. CASE QueueUser(r) \/ QueueAuto(r)
    BY <1>1, <2>1 DEF QueueUser, QueueAuto
  <2>2. CASE Notify(r)
    BY <2>2 DEF Notify
  <2>3. CASE Purge(r)
    BY <1>2, <2>3, NotifyElsewhere DEF Purge, Finish
  <2>4. ASSUME NEW u \in Units, ResetRow(r, u) PROVE StillWakes
    <3>1. Pending' \subseteq Pending
      BY <2>4, QueueNoLonger DEF ResetRow
    <3>2. \A q \in Requests : task[q] = "notify" => task'[q] = "notify"
      BY <2>4, NotifyElsewhere DEF ResetRow
    <3>3. QED
      BY <2>4, <3>1, <3>2 DEF ResetRow
  <2>5. ASSUME NEW u \in Units, RemoveFiles(r, u) PROVE StillWakes
    <3>1. \A q \in Requests : task[q] = "notify" => task'[q] = "notify"
      BY <2>5, NotifyElsewhere DEF RemoveFiles
    <3>2. QED
      BY <1>2, <2>5, <3>1 DEF RemoveFiles
  <2>6. QED
    BY <1>4, <2>1, <2>2, <2>3, <2>4, <2>5 DEF TaskStep
<1>5. ASSUME NEW r \in Requests, Abandon(r) PROVE FALSE
  BY <1>5 DEF Abandon, Fault, TypeOK
<1>6. ASSUME NEW S \in SUBSET Units, Dismiss(S) PROVE StillWakes
  BY <1>6, QueueNoLonger DEF Dismiss, tasks
<1>7. QED
  BY <1>3, <1>4, <1>5, <1>6 DEF HandlerStep

LEMMA WakeupStep ==
    ASSUME TypeOK, NoLostWakeup, [Next]_vars
    PROVE  NoLostWakeup'
<1> SUFFICES ASSUME wpc' = "idle", Pending' # {}, spent'["drop"] = 0, spent'["db"] = 0
             PROVE  notified' \/ \E r \in Requests : task'[r] = "notify"
  BY DEF NoLostWakeup
<1>1. CASE Poll
  BY <1>1 DEF Poll, Pending
<1>2. CASE Claim \/ Resolve \/ AskSource \/ FetchDone \/ FetchFail \/ DropStale
  BY <1>2 DEF Claim, Resolve, AskSource, FetchDone, FetchFail, DropStale, Return
<1>3. CASE Stage \/ Promote \/ Restore \/ DropOld \/ Record \/ Discard
  BY <1>3 DEF Stage, Promote, Restore, DropOld, Record, Discard, Return
<1>4. CASE WakeByNotify \/ WakeByTimer \/ Restart
  BY <1>4 DEF WakeByNotify, WakeByTimer, Restart
<1>5. CASE WorkerDbError
  BY <1>5 DEF WorkerDbError, Fault, TypeOK
<1>6. CASE HandlerStep
  <2>1. wpc = "idle"
    BY <1>6, HandlerRowStep DEF worker
  <2>2. spent["drop"] = 0 /\ spent["db"] = 0
    <3>1. ASSUME NEW r \in Requests PROVE ~Abandon(r)
      BY DEF Abandon, Fault, TypeOK
    <3>2. ASSUME NEW r \in Requests, NewRequest(r) PROVE spent' = spent
      BY <3>2 DEF NewRequest, Download, DownloadMany, Retry, Discover, Remove, Delete
    <3>3. ASSUME NEW r \in Requests, TaskStep(r) PROVE spent' = spent
      BY <3>3 DEF TaskStep, QueueUser, QueueAuto, Notify, Purge, ResetRow, RemoveFiles
    <3>4. ASSUME NEW S \in SUBSET Units, Dismiss(S) PROVE spent' = spent
      BY <3>4 DEF Dismiss
    <3>5. spent' = spent
      BY <1>6, <3>1, <3>2, <3>3, <3>4 DEF HandlerStep
    <3>6. QED
      BY <3>5
  <2>3. CASE StillWakes
    BY <2>1, <2>2, <2>3 DEF StillWakes, NoLostWakeup
  <2>4. QED
    BY <1>6, <2>3, HandlerWakes
<1>7. CASE UNCHANGED vars
  BY <1>7 DEF vars, NoLostWakeup, Pending
<1>8. QED
  BY <1>1, <1>2, <1>3, <1>4, <1>5, <1>6, <1>7 DEF Next, HandlerStep

(* As long as no request is dropped and the database answers, the worker    *)
(* never sleeps on a chapter nobody will wake it for: every handler that    *)
(* queues one is then about to give the permit, and the permit is kept.     *)
THEOREM WakeupsAreKept == Spec => []NoLostWakeup
<1>1. Init => NoLostWakeup
  BY DEF Init, NoLostWakeup
<1>2. TypeOK /\ NoLostWakeup /\ [Next]_vars => NoLostWakeup'
  BY WakeupStep
<1>3. QED
  BY <1>1, <1>2, TypeCorrect, PTL DEF Spec
-----------------------------------------------------------------------------
(* Nothing has failed so far. *)
NoFault == \A k \in FaultKinds : spent[k] = 0

(* A purge of the chapter's files is still to come. *)
Purging(u) == \E r \in Requests : task[r] = "purge" /\ u \in todo[r]

(* What the worker may still have on disk of a deleted chapter: the pages it *)
(* fetches, then the copy it has promoted and is about to record.            *)
Cleared(u) ==
    /\ old[u] = "absent"
    /\ partial[u] # "absent" =>
          wunit = u /\ wpc \in {"fetch", "dropStale", "stage", "promote"}
    /\ dir[u] # "absent" => wunit = u /\ wpc \in {"dropOld", "record", "discard"}

GoneIsClean ==
    NoFault => \A u \in Units : row[u] = "gone" /\ ~Purging(u) => Cleared(u)

(* A fault is remembered: where there is none after a step, the step was no *)
(* fault and there was none before it.                                      *)
LEMMA FaultsStay ==
    ASSUME TypeOK, [Next]_vars, NoFault'
    PROVE  /\ NoFault
           /\ ~Restart /\ ~WorkerDbError
           /\ \A k \in FaultKinds : ~Fault(k)
           /\ \A r \in Requests : ~Abandon(r)
<1>1. ASSUME NEW k \in FaultKinds PROVE ~Fault(k)
  BY <1>1 DEF Fault, NoFault, TypeOK
<1>2. ~Restart /\ ~WorkerDbError /\ \A r \in Requests : ~Abandon(r)
  BY <1>1 DEF Restart, WorkerDbError, Abandon, FaultKinds
<1>3. spent' = spent
  <2>1. CASE Poll \/ Claim \/ Resolve \/ AskSource \/ FetchDone \/ FetchFail
    BY <2>1 DEF Poll, Claim, Resolve, AskSource, FetchDone, FetchFail
  <2>2. CASE Stage \/ Promote \/ Restore
    BY <1>1, <2>2 DEF Stage, Promote, Restore, FaultKinds
  <2>3. CASE DropStale \/ DropOld \/ Record \/ Discard \/ WakeByNotify \/ WakeByTimer
    BY <2>3 DEF DropStale, DropOld, Record, Discard, WakeByNotify, WakeByTimer
  <2>4. ASSUME NEW r \in Requests, NewRequest(r) PROVE spent' = spent
    BY <2>4 DEF NewRequest, Download, DownloadMany, Retry, Discover, Remove, Delete
  <2>5. ASSUME NEW r \in Requests, TaskStep(r) PROVE spent' = spent
    BY <2>5 DEF TaskStep, QueueUser, QueueAuto, Notify, Purge, ResetRow, RemoveFiles
  <2>6. ASSUME NEW S \in SUBSET Units, Dismiss(S) PROVE spent' = spent
    BY <2>6 DEF Dismiss
  <2>7. CASE UNCHANGED vars
    BY <2>7 DEF vars
  <2>8. QED
    BY <1>2, <2>1, <2>2, <2>3, <2>4, <2>5, <2>6, <2>7 DEF Next
<1>4. QED
  BY <1>1, <1>2, <1>3 DEF NoFault

(* A handler that goes elsewhere from any step but the purge leaves the     *)
(* purges to come as they are.                                              *)
LEMMA PurgesToCome ==
    ASSUME TypeOK, NEW r \in Requests, NEW step, NEW S, GoTo(r, step, S),
           task[r] # "purge"
    PROVE  \A q \in Requests :
             task[q] = "purge" => task'[q] = "purge" /\ todo'[q] = todo[q]
BY DEF GoTo, TypeOK

(* A row becomes `gone` by Delete alone, which is about to purge it. *)
LEMMA GoneByDelete ==
    ASSUME TypeOK, NEW S, NEW state, state # "gone", SetRows(S, state),
           NEW u \in Units, row'[u] = "gone"
    PROVE  row[u] = "gone"
BY DEF SetRows

(* What a handler's step leaves of a deleted chapter that nobody is about   *)
(* to purge: no more than there was, or nothing.                            *)
LEMMA HandlerClears ==
    ASSUME TypeOK, HandlerStep, \A r \in Requests : ~Abandon(r),
           NEW u \in Units, row'[u] = "gone", ~Purging(u)'
    PROVE  \/ /\ row[u] = "gone" /\ ~Purging(u)
              /\ partial'[u] = partial[u] /\ old'[u] = old[u]
              /\ dir'[u] \in {dir[u], "absent"}
           \/ dir'[u] = "absent" /\ partial'[u] = "absent" /\ old'[u] = "absent"
<1>0. (\A q \in Requests :
         task[q] = "purge" => task'[q] = "purge" /\ todo'[q] = todo[q]) => ~Purging(u)
  BY DEF Purging
<1>1. ASSUME NEW r \in Requests, NewRequest(r)
      PROVE  row[u] = "gone" /\ ~Purging(u) /\ UNCHANGED disk
  <2>1. task[r] = "idle"
    BY <1>1 DEF NewRequest, Download, DownloadMany, Retry, Discover, Remove, Delete, Idle
  <2>2. ASSUME NEW v \in Units, Download(r, v)
        PROVE  row[u] = "gone" /\ ~Purging(u) /\ UNCHANGED disk
    BY <1>0, <2>1, <2>2, PurgesToCome DEF Download, disk
  <2>3. ASSUME NEW S \in SUBSET Units, DownloadMany(r, S)
        PROVE  row[u] = "gone" /\ ~Purging(u) /\ UNCHANGED disk
    BY <1>0, <2>1, <2>3, PurgesToCome, GoneByDelete DEF DownloadMany, Queue, disk
  <2>4. ASSUME NEW S \in SUBSET Units, Retry(r, S)
        PROVE  row[u] = "gone" /\ ~Purging(u) /\ UNCHANGED disk
    BY <1>0, <2>1, <2>4, PurgesToCome, GoneByDelete DEF Retry, disk
  <2>5. ASSUME NEW S \in SUBSET Units, Discover(r, S)
        PROVE  row[u] = "gone" /\ ~Purging(u) /\ UNCHANGED disk
    BY <1>0, <2>1, <2>5, PurgesToCome, GoneByDelete DEF Discover, disk
  <2>6. ASSUME NEW S \in SUBSET Units, Remove(r, S)
        PROVE  row[u] = "gone" /\ ~Purging(u) /\ UNCHANGED disk
    BY <1>0, <2>1, <2>6, PurgesToCome DEF Remove, disk
  <2>7. ASSUME NEW p \in Pubs, Delete(r, p)
        PROVE  row[u] = "gone" /\ ~Purging(u) /\ UNCHANGED disk
    <3>1. CASE PubOf[u] = p
      <4>1. task'[r] = "purge" /\ u \in todo'[r]
        BY <2>7, <3>1 DEF Delete, GoTo, TypeOK
      <4>2. QED
        BY <4>1 DEF Purging
    <3>2. CASE PubOf[u] # p
      <4>1. row[u] = "gone"
        BY <2>7, <3>2 DEF Delete, SetRows
      <4>2. QED
        BY <1>0, <2>1, <2>7, <4>1, PurgesToCome DEF Delete, disk
    <3>3. QED
      BY <3>1, <3>2
  <2>8. QED
    BY <1>1, <2>2, <2>3, <2>4, <2>5, <2>6, <2>7 DEF NewRequest
<1>2. ASSUME NEW r \in Requests, QueueUser(r) \/ QueueAuto(r) \/ Notify(r)
      PROVE  row[u] = "gone" /\ ~Purging(u) /\ UNCHANGED disk
  <2>1. row[u] = "gone"
    BY <1>2, GoneByDelete DEF QueueUser, QueueAuto, Notify, Queue
  <2>2. ~Purging(u)
    BY <1>0, <1>2, PurgesToCome DEF QueueUser, QueueAuto, Notify, Finish
  <2>3. QED
    BY <1>2, <2>1, <2>2 DEF QueueUser, QueueAuto, Notify, disk
<1>3. ASSUME NEW r \in Requests, NEW v \in Units, ResetRow(r, v)
      PROVE  row[u] = "gone" /\ ~Purging(u) /\ UNCHANGED disk
  <2>1. row[u] = "gone"
    BY <1>3, GoneByDelete DEF ResetRow
  <2>2. ~Purging(u)
    BY <1>0, <1>3, PurgesToCome DEF ResetRow
  <2>3. QED
    BY <1>3, <2>1, <2>2 DEF ResetRow, disk
<1>4. ASSUME NEW r \in Requests, NEW v \in Units, RemoveFiles(r, v)
      PROVE  /\ row[u] = "gone" /\ ~Purging(u)
             /\ partial' = partial /\ old' = old
             /\ dir'[u] \in {dir[u], "absent"}
  <2>1. ~Purging(u)
    BY <1>0, <1>4, PurgesToCome DEF RemoveFiles
  <2>2. dir'[u] \in {dir[u], "absent"}
    BY <1>4 DEF RemoveFiles, TypeOK
  <2>3. QED
    BY <1>4, <2>1, <2>2 DEF RemoveFiles
<1>5. ASSUME NEW r \in Requests, Purge(r)
      PROVE  \/ row[u] = "gone" /\ ~Purging(u) /\ dir'[u] = dir[u]
                /\ partial'[u] = partial[u] /\ old'[u] = old[u]
             \/ dir'[u] = "absent" /\ partial'[u] = "absent" /\ old'[u] = "absent"
  <2>1. CASE u \in todo[r]
    BY <1>5, <2>1 DEF Purge
  <2>2. CASE u \notin todo[r]
    <3>1. ~Purging(u)
      BY <1>5, <2>2 DEF Purge, Finish, GoTo, TypeOK, Purging
    <3>2. QED
      BY <1>5, <2>2, <3>1 DEF Purge
  <2>3. QED
    BY <2>1, <2>2
<1>6. ASSUME NEW S \in SUBSET Units, Dismiss(S)
      PROVE  row[u] = "gone" /\ ~Purging(u) /\ UNCHANGED disk
  BY <1>6, GoneByDelete DEF Dismiss, tasks, Purging, disk
<1>7. ASSUME NEW r \in Requests, TaskStep(r)
      PROVE  \/ QueueUser(r) \/ QueueAuto(r) \/ Notify(r) \/ Purge(r)
             \/ \E v \in Units : ResetRow(r, v) \/ RemoveFiles(r, v)
  BY <1>7 DEF TaskStep
<1>8. QED
  BY <1>1, <1>2, <1>3, <1>4, <1>5, <1>6, <1>7 DEF HandlerStep, disk

LEMMA CleanStep ==
    ASSUME TypeOK, GoneIsClean, [Next]_vars
    PROVE  GoneIsClean'
<1> SUFFICES ASSUME NoFault', NEW u \in Units, row'[u] = "gone", ~Purging(u)'
             PROVE  Cleared(u)'
  BY DEF GoneIsClean
<1>1. NoFault /\ (\A k \in FaultKinds : ~Fault(k)) /\ ~Restart /\ ~WorkerDbError
  BY FaultsStay
<1>2. row[u] = "gone" /\ ~Purging(u) => Cleared(u)
  BY <1>1 DEF GoneIsClean
<1>3. CASE HandlerStep
  <2>1. UNCHANGED worker
    BY <1>3, HandlerRowStep
  <2>2. \A r \in Requests : ~Abandon(r)
    BY FaultsStay
  <2>3. QED
    BY <1>2, <1>3, <2>1, <2>2, HandlerClears DEF Cleared, worker
<1>4. ASSUME UNCHANGED tasks, row[u] = "gone" PROVE Cleared(u)
  BY <1>2, <1>4 DEF tasks, Purging
<1>5. CASE Poll \/ Resolve \/ AskSource \/ FetchDone \/ FetchFail \/ DropStale
  BY <1>4, <1>5 DEF Poll, Resolve, AskSource, FetchDone, FetchFail, DropStale,
     Return, Cleared, TypeOK, disk
<1>6. CASE Claim \/ Record
  <2>1. row[u] = "gone"
    BY <1>6 DEF Claim, Record, SetRows, Listed, TypeOK
  <2>2. QED
    BY <1>4, <1>6, <2>1 DEF Claim, Record, Listed, Cleared, disk
<1>7. CASE Stage \/ DropOld
  BY <1>1, <1>4, <1>7 DEF Stage, DropOld, Return, Cleared, TypeOK, FaultKinds
<1>8. CASE Promote
  BY <1>1, <1>4, <1>8 DEF Promote, Cleared, TypeOK, FaultKinds
<1>9. CASE Restore \/ Discard
  BY <1>1, <1>4, <1>9 DEF Restore, Discard, Return, Cleared, TypeOK, FaultKinds
<1>10. CASE WakeByNotify \/ WakeByTimer
  BY <1>4, <1>10 DEF WakeByNotify, WakeByTimer, Cleared, disk
<1>11. CASE UNCHANGED vars
  BY <1>4, <1>11 DEF vars, tasks, Cleared
<1>12. QED
  BY <1>1, <1>3, <1>5, <1>6, <1>7, <1>8, <1>9, <1>10, <1>11 DEF Next, HandlerStep

(* Without faults, nothing of a deleted publication stays on disk: a chapter *)
(* whose purge is over has only what the worker is still writing, and the    *)
(* worker discards that when it finds no row to record it in.                *)
THEOREM OrphansAreDiscarded == Spec => []NoOrphanFiles
<1>1. Init => GoneIsClean
  BY DEF Init, GoneIsClean
<1>2. TypeOK /\ GoneIsClean /\ [Next]_vars => GoneIsClean'
  BY CleanStep
<1>3. GoneIsClean => NoOrphanFiles
  BY DEF GoneIsClean, NoOrphanFiles, NoFault, Purging, Cleared, Working
<1>4. QED
  BY <1>1, <1>2, <1>3, TypeCorrect, PTL DEF Spec
-----------------------------------------------------------------------------
(* The faults that can cost a copy. *)
Losses == spent["restart"] + spent["fs"]

(* The worker has the chapter in hand and has not promoted it. *)
Redoing(u) ==
    /\ wunit = u
    /\ \/ wpc \in {"claim", "resolve", "ask", "fetch", "dropStale", "stage",
                   "promote", "restore"}
       \/ wpc = "record" /\ outcome # "downloaded"

OwedAreListed == \A u \in owed : Listed(u)

(* What is staged for promotion is still there, unless its row is gone. *)
StagedIsThere ==
    wpc \in {"dropStale", "stage", "promote"} /\ row[wunit] # "gone" =>
        partial[wunit] = "full"

(* Without a fault, a chapter with a copy is never downloaded again. *)
NotTwice ==
    Losses = 0 =>
        \A u \in owed : row[u] \in {"downloading", "downloaded"} /\ ~Redoing(u)

(* Where the copy is: under its name; staged aside, which takes one fault    *)
(* to happen between the renames and a second one to stay so; or, when the   *)
(* next download has deleted that, in the directory it is about to promote.  *)
CopyKept(u) ==
    \/ dir[u] = "full"
    \/ /\ dir[u] = "absent"
       /\ old[u] = "full"
       /\ Losses >= 2 \/ (Losses = 1 /\ wunit = u /\ wpc = "promote" /\ hadOld)
    \/ /\ dir[u] = "absent"
       /\ partial[u] = "full"
       /\ wunit = u
       /\ wpc \in {"stage", "promote"}
       /\ Losses >= 2

CopiesKept == Losses <= 2 => \A u \in owed : CopyKept(u)

CopyInv == OwedAreListed /\ StagedIsThere /\ NotTwice /\ CopiesKept

(* A fault of one of the two kinds is counted, any other step counts none. *)
LEMMA LossesCount ==
    ASSUME TypeOK
    PROVE  /\ Losses \in Nat
           /\ spent' = spent => Losses' = Losses
           /\ Fault("restart") \/ Fault("fs") => Losses' = Losses + 1
           /\ Fault("db") \/ Fault("drop") => Losses' = Losses
BY DEF TypeOK, Fault, Losses

(* A handler touches no file and no finished row of a chapter that it leaves *)
(* owed, and costs no copy.                                                  *)
LEMMA HandlerCopyStep ==
    ASSUME IndInv, OwedAreListed, HandlerStep
    PROVE  /\ Losses' = Losses
           /\ \A u \in Units : partial'[u] = partial[u] \/ row'[u] = "gone"
           /\ \A u \in owed' :
                /\ u \in owed
                /\ dir'[u] = dir[u] /\ partial'[u] = partial[u] /\ old'[u] = old[u]
                /\ row'[u] \notin {"unlisted", "gone"}
                /\ row[u] \in {"downloading", "downloaded"} => row'[u] = row[u]
<1> USE DEF IndInv, TypeOK, OwedAreListed, Listed
<1>1. CASE UNCHANGED <<row, disk, owed, spent>>
  BY <1>1, LossesCount DEF disk
<1>2. ASSUME NEW r \in Requests, NEW S \in SUBSET Units,
             DownloadMany(r, S) \/ Retry(r, S) \/ Discover(r, S)
      PROVE  /\ UNCHANGED <<disk, owed, spent>>
             /\ \A u \in owed : row'[u] = row[u] \/ row'[u] \in {"none", "pending"}
             /\ \A u \in owed :
                  row[u] \in {"downloading", "downloaded"} => row'[u] = row[u]
  BY <1>2 DEF DownloadMany, Retry, Discover, Queue, Queueable, SetRows
<1>3. ASSUME NEW r \in Requests, QueueUser(r) \/ QueueAuto(r)
      PROVE  /\ UNCHANGED <<disk, owed, spent>>
             /\ \A u \in owed : row'[u] = row[u] \/ row'[u] \in {"none", "pending"}
             /\ \A u \in owed :
                  row[u] \in {"downloading", "downloaded"} => row'[u] = row[u]
  BY <1>3 DEF QueueUser, QueueAuto, Queue, Queueable, SetRows
<1>4. ASSUME NEW S \in SUBSET Units, Dismiss(S)
      PROVE  /\ UNCHANGED <<disk, owed, spent>>
             /\ \A u \in owed : row'[u] = row[u] \/ row'[u] \in {"none", "pending"}
             /\ \A u \in owed :
                  row[u] \in {"downloading", "downloaded"} => row'[u] = row[u]
  BY <1>4 DEF Dismiss, SetRows
<1>5. ASSUME /\ UNCHANGED <<disk, owed, spent>>
             /\ \A u \in owed : row'[u] = row[u] \/ row'[u] \in {"none", "pending"}
             /\ \A u \in owed :
                  row[u] \in {"downloading", "downloaded"} => row'[u] = row[u]
      PROVE  /\ Losses' = Losses
             /\ \A u \in Units : partial'[u] = partial[u] \/ row'[u] = "gone"
             /\ \A u \in owed' :
                  /\ u \in owed
                  /\ dir'[u] = dir[u] /\ partial'[u] = partial[u] /\ old'[u] = old[u]
                  /\ row'[u] \notin {"unlisted", "gone"}
                  /\ row[u] \in {"downloading", "downloaded"} => row'[u] = row[u]
  BY <1>5, LossesCount DEF disk
<1>6. CASE \E r \in Requests, v \in Units : ResetRow(r, v)
  BY <1>6, LossesCount DEF ResetRow, SetRows, disk
<1>7. CASE \E r \in Requests, v \in Units : RemoveFiles(r, v)
  BY <1>7, LossesCount DEF RemoveFiles
<1>8. CASE \E r \in Requests, p \in Pubs : Delete(r, p)
  BY <1>8, LossesCount DEF Delete, SetRows, disk
<1>9. CASE \E r \in Requests : Purge(r)
  BY <1>9, LossesCount DEF Purge, PurgesOnlyGone
<1>10. CASE \E r \in Requests : Abandon(r)
  BY <1>10, LossesCount DEF Abandon, disk
<1>11. CASE \E r \in Requests :
              \/ Notify(r)
              \/ \E u \in Units : Download(r, u)
              \/ \E S \in SUBSET Units : Remove(r, S)
  BY <1>1, <1>11 DEF Notify, Download, Remove
<1>12. CASE \E r \in Requests :
              \/ QueueUser(r) \/ QueueAuto(r)
              \/ \E S \in SUBSET Units :
                   DownloadMany(r, S) \/ Retry(r, S) \/ Discover(r, S)
  BY <1>2, <1>3, <1>5, <1>12
<1>13. CASE \E S \in SUBSET Units : Dismiss(S)
  BY <1>4, <1>5, <1>13
<1>14. QED
  BY <1>6, <1>7, <1>8, <1>9, <1>10, <1>11, <1>12, <1>13
  DEF HandlerStep, NewRequest, TaskStep

(* Where the copies are, step by step. *)
LEMMA CopyStep ==
    ASSUME IndInv, CopyInv, [Next]_vars
    PROVE  CopyInv'
<1> USE DEF IndInv, TypeOK, CopyInv, OwedAreListed, StagedIsThere, NotTwice,
            CopiesKept
<1>0. /\ Losses \in Nat
      /\ spent' = spent => Losses' = Losses
      /\ Fault("restart") \/ Fault("fs") => Losses' = Losses + 1
      /\ Fault("db") \/ Fault("drop") => Losses' = Losses
  BY LossesCount
<1>1. CASE Poll
  BY <1>0, <1>1 DEF Poll, Pending, NextPending, Listed, Redoing, CopyKept, disk
<1>2. CASE Claim
  BY <1>0, <1>2 DEF Claim, SetRows, Listed, Redoing, CopyKept, disk
<1>3. CASE Resolve
  BY <1>0, <1>3 DEF Resolve, Return, Listed, Redoing, CopyKept, disk
<1>4. CASE AskSource
  BY <1>0, <1>4 DEF AskSource, Return, Listed, Redoing, CopyKept
<1>5. CASE FetchDone \/ FetchFail
  BY <1>0, <1>5 DEF FetchDone, FetchFail, Return, Listed, Redoing, CopyKept
<1>6. CASE DropStale
  BY <1>0, <1>6 DEF DropStale, Listed, Redoing, CopyKept
<1>7. CASE Stage
  BY <1>0, <1>7 DEF Stage, Listed, Redoing, CopyKept
<1>8. CASE Promote
  BY <1>0, <1>8 DEF Promote, Listed, Redoing, CopyKept, WorkerOnItsRow
<1>9. CASE Restore
  BY <1>0, <1>9 DEF Restore, Return, Listed, Redoing, CopyKept
<1>10. CASE DropOld
  BY <1>0, <1>10 DEF DropOld, Return, Listed, Redoing, CopyKept, PromotedIsOwed
<1>11. CASE Record \/ Discard
  <2>1. CASE Record
    BY <1>0, <2>1 DEF Record, SetRows, Listed, Redoing, CopyKept, disk
  <2>2. CASE Discard
    BY <1>0, <2>2 DEF Discard, Listed, Redoing, CopyKept, WorkerOnItsRow
  <2>3. QED
    BY <1>11, <2>1, <2>2
<1>12. CASE WakeByNotify \/ WakeByTimer \/ WorkerDbError
  BY <1>0, <1>12 DEF WakeByNotify, WakeByTimer, WorkerDbError, Listed, Redoing,
     CopyKept, disk
<1>13. CASE HandlerStep
  <2>1. worker' = worker /\ RowStep(wunit)
    BY <1>13, HandlerRowStep
  <2>2. /\ Losses' = Losses
        /\ \A u \in Units : partial'[u] = partial[u] \/ row'[u] = "gone"
        /\ \A u \in owed' :
             /\ u \in owed
             /\ dir'[u] = dir[u] /\ partial'[u] = partial[u] /\ old'[u] = old[u]
             /\ row'[u] \notin {"unlisted", "gone"}
             /\ row[u] \in {"downloading", "downloaded"} => row'[u] = row[u]
    BY <1>13, HandlerCopyStep
  <2>3. OwedAreListed' /\ StagedIsThere'
    BY <2>1, <2>2 DEF worker, RowStep, Listed
  <2>4. NotTwice' /\ CopiesKept'
    BY <1>0, <2>1, <2>2 DEF worker, Redoing, CopyKept
  <2>5. QED
    BY <2>3, <2>4
<1>14. CASE Restart
  BY <1>0, <1>14 DEF Restart, Requeue, Listed, Redoing, CopyKept
<1>15. CASE UNCHANGED vars
  BY <1>0, <1>15 DEF vars, Listed, Redoing, CopyKept
<1>16. QED
  BY <1>1, <1>2, <1>3, <1>4, <1>5, <1>6, <1>7, <1>8, <1>9, <1>10, <1>11, <1>12,
     <1>13, <1>14, <1>15
  DEF Next, HandlerStep

(* A re-download never destroys a good copy while no more than two of its    *)
(* restarts and file operations have failed, whatever else goes wrong and in *)
(* whatever order: the one way to lose it is a restart that has a finished   *)
(* chapter fetched again, a fault that leaves the copy staged aside, and,    *)
(* after the next round has deleted it there (DropStale does not ask), one   *)
(* that keeps the new pages from being promoted.                             *)
THEOREM CopyOutlivesTwoFaults == Spec => [](Losses <= 2 => GoodCopyNeverDestroyed)
<1>1. Init => CopyInv
  BY DEF Init, CopyInv, OwedAreListed, StagedIsThere, NotTwice, CopiesKept
<1>2. IndInv /\ CopyInv /\ [Next]_vars => CopyInv'
  BY CopyStep
<1>3. CopyInv => (Losses <= 2 => GoodCopyNeverDestroyed)
  BY DEF CopyInv, CopiesKept, CopyKept, GoodCopyNeverDestroyed
<1>4. QED
  BY <1>1, <1>2, <1>3, SpecIndInv, PTL DEF Spec
-----------------------------------------------------------------------------
(* The sweep of a refresh queues no chapter the source refused: the step    *)
(* from finding new chapters to waking the worker is the queueing alone,    *)
(* and it passes over a row that has become `unavailable` meanwhile.        *)
THEOREM SweepPassesOver == Spec => AutoSkipsUnavailable
<1>1. ASSUME TypeOK, [Next]_vars, NEW r \in Requests,
             task[r] = "queueAuto", task'[r] = "notify",
             NEW u \in Units, row[u] = "unavailable"
      PROVE  row'[u] = "unavailable"
  <2>1. ASSUME NEW q \in Requests, NEW step, NEW S, GoTo(q, step, S),
               q # r \/ step # "notify"
        PROVE  FALSE
    BY <1>1, <2>1 DEF GoTo, TypeOK
  <2>2. CASE QueueAuto(r)
    BY <1>1, <2>2 DEF QueueAuto, Queue, Queueable, SetRows
  <2>3. task' # task
    BY <1>1
  <2>4. ASSUME NEW q \in Requests, NewRequest(q) PROVE FALSE
    BY <1>1, <2>1, <2>4 DEF NewRequest, Download, DownloadMany, Retry, Discover,
       Remove, Delete, Idle
  <2>5. ASSUME NEW q \in Requests, TaskStep(q), ~QueueAuto(r) PROVE FALSE
    BY <1>1, <2>1, <2>5 DEF TaskStep, QueueUser, QueueAuto, Notify, Purge,
       ResetRow, RemoveFiles, Finish
  <2>6. ASSUME NEW q \in Requests, Abandon(q) PROVE FALSE
    BY <2>1, <2>6 DEF Abandon, Finish
  <2>7. ~Restart
    BY <1>1 DEF Restart
  <2>8. CASE HandlerStep
    <3>1. ASSUME NEW S \in SUBSET Units, Dismiss(S) PROVE FALSE
      BY <2>3, <3>1 DEF Dismiss, tasks
    <3>2. QED
      BY <2>2, <2>4, <2>5, <2>6, <2>8, <3>1 DEF HandlerStep
  <2>9. ASSUME Poll \/ Claim \/ Resolve \/ AskSource \/ FetchDone \/ FetchFail
               \/ DropStale \/ Stage \/ Promote
        PROVE  FALSE
    BY <2>3, <2>9 DEF Poll, Claim, Resolve, AskSource, FetchDone, FetchFail,
       DropStale, Stage, Promote, tasks
  <2>10. ASSUME \/ Restore \/ DropOld \/ Record \/ Discard
                \/ WakeByNotify \/ WakeByTimer \/ WorkerDbError \/ UNCHANGED vars
         PROVE  FALSE
    BY <2>3, <2>10 DEF Restore, DropOld, Record, Discard, WakeByNotify,
       WakeByTimer, WorkerDbError, vars, tasks
  <2>11. QED
    BY <1>1, <2>7, <2>8, <2>9, <2>10 DEF Next, HandlerStep
<1>2. ASSUME TypeOK, [Next]_vars
      PROVE  \A r \in Requests :
               task[r] = "queueAuto" /\ task'[r] = "notify" =>
                 \A u \in Units : row[u] = "unavailable" => row'[u] = "unavailable"
  BY <1>1, <1>2
<1>3. QED
  BY <1>2, TypeCorrect, PTL DEF Spec, AutoSkipsUnavailable
-----------------------------------------------------------------------------
(* The queue implements the shelf.                                          *)

ShelfNow == [u \in Units |-> ShelfOf(row[u])]

(* Setting a set of rows to one state is a move on the shelf, when all the  *)
(* chapters it really moves come from places the shelf allows.              *)
LEMMA SetRowsMoves ==
    ASSUME TypeOK, TypeOK', NEW S \in SUBSET Units, NEW st \in RowState,
           SetRows(S, st), NEW from,
           \A u \in S : ShelfOf(row[u]) \in from \/ ShelfOf(row[u]) = ShelfOf(st)
    PROVE  \/ ShelfNow' = ShelfNow
           \/ Shelf!Move({u \in S : ShelfOf(row[u]) # ShelfOf(st)}, from, ShelfOf(st))
<1> DEFINE T == {u \in S : ShelfOf(row[u]) # ShelfOf(st)}
<1>1. \A u \in Units :
        ShelfNow'[u] = IF u \in T THEN ShelfOf(st) ELSE ShelfNow[u]
  BY DEF SetRows, ShelfNow, TypeOK
<1>2. ShelfNow' = [u \in Units |-> IF u \in T THEN ShelfOf(st) ELSE ShelfNow[u]]
  BY <1>1 DEF ShelfNow
<1>3. CASE T = {}
  BY <1>2, <1>3 DEF ShelfNow
<1>4. CASE T # {}
  <2>1. \A u \in T : ShelfNow[u] \in from
    BY DEF ShelfNow
  <2>2. QED
    BY <1>2, <1>4, <2>1 DEF Shelf!Move, ShelfNow
<1>5. QED
  BY <1>3, <1>4

(* The moves of Shelf!Next. *)
LegalMove(from, to) ==
    \/ from = {"unlisted"} /\ to = "out"
    \/ from = {"out", "refused"} /\ to = "wanted"
    \/ from = {"wanted", "refused"} /\ to = "out"
    \/ from = {"wanted"} /\ to \in {"kept", "refused"}
    \/ from = {"kept"} /\ to = "out"
    \/ from = Shelf!Places /\ to = "gone"

(* A write of several rows is one legal move on the shelf.                   *)
LEMMA SetRowsShelf ==
    ASSUME TypeOK, TypeOK', NEW S \in SUBSET Units, NEW st \in RowState,
           SetRows(S, st), NEW from, LegalMove(from, ShelfOf(st)),
           \A u \in S : ShelfOf(row[u]) \in from \/ ShelfOf(row[u]) = ShelfOf(st)
    PROVE  Shelf!Next \/ ShelfNow' = ShelfNow
<1> DEFINE T == {u \in S : ShelfOf(row[u]) # ShelfOf(st)}
           to == ShelfOf(st)
<1>1. ShelfNow' = ShelfNow \/ Shelf!Move(T, from, to)
  BY SetRowsMoves
<1>2. T \in SUBSET Units /\ LegalMove(from, to)
  OBVIOUS
<1> HIDE DEF T, to
<1>3. CASE Shelf!Move(T, from, to)
  BY <1>2, <1>3 DEF Shelf!Next, LegalMove
<1>4. QED
  BY <1>1, <1>3

(* Where the column's states are on the shelf. *)
LEMMA ShelfValues ==
    /\ ShelfOf("unlisted") = "unlisted" /\ ShelfOf("none") = "out"
    /\ ShelfOf("pending") = "wanted" /\ ShelfOf("downloading") = "wanted"
    /\ ShelfOf("downloaded") = "kept" /\ ShelfOf("failed") = "refused"
    /\ ShelfOf("unavailable") = "refused" /\ ShelfOf("gone") = "gone"
BY DEF ShelfOf

(* Every step is a legal move on the shelf, or none.                         *)
LEMMA ShelfStep ==
    ASSUME IndInv, IndInv', [Next]_vars
    PROVE  Shelf!Next \/ ShelfNow' = ShelfNow
<1> USE DEF IndInv
<1>1. CASE row' = row
  BY <1>1 DEF ShelfNow
<1>2. CASE Claim
  <2>1. SetRows({wunit} \cap {u \in Units : Listed(u)}, "downloading")
    BY <1>2 DEF Claim
  <2>2. \A u \in {wunit} \cap {v \in Units : Listed(v)} :
            ShelfOf(row[u]) \in {"out", "refused"} \/ ShelfOf(row[u]) = ShelfOf("downloading")
    BY <1>2, ShelfValues DEF Claim, Listed, WorkerOnItsRow
  <2>3. LegalMove({"out", "refused"}, ShelfOf("downloading"))
    BY ShelfValues DEF LegalMove
  <2>4. QED
    BY <2>1, <2>2, <2>3, SetRowsShelf
<1>3. CASE Record
  <2>1. CASE Listed(wunit)
    <3>1. SetRows({wunit}, outcome) /\ row[wunit] = "downloading"
      BY <1>3, <2>1 DEF Record, Listed, WorkerOnItsRow
    <3>2. ShelfOf(row[wunit]) = "wanted" /\ ShelfOf(outcome) \in {"kept", "refused"}
      BY <3>1, ShelfValues DEF TypeOK
    <3>3. outcome \in RowState /\ {wunit} \in SUBSET Units
      BY DEF TypeOK
    <3>4. LegalMove({"wanted"}, ShelfOf(outcome))
      BY <3>2 DEF LegalMove
    <3>5. QED
      BY <3>1, <3>2, <3>3, <3>4, SetRowsShelf
  <2>2. CASE ~Listed(wunit)
    BY <1>1, <1>3, <2>2 DEF Record
  <2>3. QED
    BY <2>1, <2>2
<1>4. ASSUME NEW S \in SUBSET Units, NEW explicit \in BOOLEAN, Queue(S, explicit)
      PROVE  Shelf!Next \/ ShelfNow' = ShelfNow
  <2> DEFINE T == {u \in S : row[u] \in Queueable(explicit)}
  <2>1. \A u \in T : ShelfOf(row[u]) \in {"out", "refused"}
    BY ShelfValues DEF Queueable
  <2>2. SetRows(T, "pending") /\ T \in SUBSET Units
    BY <1>4 DEF Queue
  <2>3. LegalMove({"out", "refused"}, ShelfOf("pending"))
    BY ShelfValues DEF LegalMove
  <2>4. QED
    BY <2>1, <2>2, <2>3, SetRowsShelf
<1>5. ASSUME NEW S \in SUBSET Units,
             \/ SetRows(S, "pending") /\ \A u \in S : row[u] = "failed"
             \/ SetRows(S, "none") /\ \A u \in S : row[u] = "unlisted"
             \/ SetRows(S, "none") /\ \A u \in S : row[u] = "downloaded"
             \/ SetRows(S, "none")
                /\ \A u \in S : row[u] \in {"pending", "failed", "unavailable"}
      PROVE  Shelf!Next \/ ShelfNow' = ShelfNow
  <2>1. /\ LegalMove({"out", "refused"}, ShelfOf("pending"))
        /\ LegalMove({"unlisted"}, ShelfOf("none"))
        /\ LegalMove({"kept"}, ShelfOf("none"))
        /\ LegalMove({"wanted", "refused"}, ShelfOf("none"))
    BY ShelfValues DEF LegalMove
  <2>2. CASE SetRows(S, "pending") /\ \A u \in S : row[u] = "failed"
    <3>1. \A u \in S : ShelfOf(row[u]) \in {"out", "refused"}
      BY <2>2, ShelfValues
    <3>2. QED
      BY <2>1, <2>2, <3>1, SetRowsShelf
  <2>3. CASE SetRows(S, "none") /\ \A u \in S : row[u] = "unlisted"
    <3>1. \A u \in S : ShelfOf(row[u]) \in {"unlisted"}
      BY <2>3, ShelfValues
    <3>2. QED
      BY <2>1, <2>3, <3>1, SetRowsShelf
  <2>4. CASE SetRows(S, "none") /\ \A u \in S : row[u] = "downloaded"
    <3>1. \A u \in S : ShelfOf(row[u]) \in {"kept"}
      BY <2>4, ShelfValues
    <3>2. QED
      BY <2>1, <2>4, <3>1, SetRowsShelf
  <2>5. CASE SetRows(S, "none")
             /\ \A u \in S : row[u] \in {"pending", "failed", "unavailable"}
    <3>1. \A u \in S : ShelfOf(row[u]) \in {"wanted", "refused"}
      BY <2>5, ShelfValues
    <3>2. QED
      BY <2>1, <2>5, <3>1, SetRowsShelf
  <2>6. QED
    BY <1>5, <2>2, <2>3, <2>4, <2>5
<1>6. ASSUME NEW S \in SUBSET Units, SetRows(S, "gone")
      PROVE  Shelf!Next \/ ShelfNow' = ShelfNow
  <2>1. \A u \in S : ShelfOf(row[u]) \in Shelf!Places
    BY DEF ShelfOf, TypeOK, Shelf!Places
  <2>2. LegalMove(Shelf!Places, ShelfOf("gone"))
    BY ShelfValues DEF LegalMove
  <2>3. QED
    BY <1>6, <2>1, <2>2, SetRowsShelf
<1>7. CASE Restart
  <2>1. \A u \in Units : ShelfOf(row'[u]) = ShelfOf(row[u])
    BY <1>7 DEF Restart, Requeue, ShelfOf
  <2>2. QED
    BY <2>1 DEF ShelfNow
<1>8. ASSUME NEW r \in Requests, NEW u \in Units, ResetRow(r, u)
      PROVE  Shelf!Next \/ ShelfNow' = ShelfNow
  BY <1>8, <1>5 DEF ResetRow
<1>9. ASSUME NEW r \in Requests, NewRequest(r)
      PROVE  Shelf!Next \/ ShelfNow' = ShelfNow
  BY <1>9, <1>1, <1>4, <1>5, <1>6
  DEF NewRequest, Download, DownloadMany, Retry, Discover, Remove, Delete
<1>10. ASSUME NEW r \in Requests, QueueUser(r) \/ QueueAuto(r)
       PROVE  Shelf!Next \/ ShelfNow' = ShelfNow
  BY <1>10, <1>4 DEF QueueUser, QueueAuto, TypeOK
<1>11. ASSUME NEW S \in SUBSET Units, Dismiss(S)
       PROVE  Shelf!Next \/ ShelfNow' = ShelfNow
  BY <1>11, <1>5 DEF Dismiss
<1>12. QED
  BY <1>1, <1>2, <1>3, <1>7, <1>8, <1>9, <1>10, <1>11
  DEF Next, TaskStep, Notify, Purge, RemoveFiles, Abandon, Poll, Resolve,
      AskSource, FetchDone, FetchFail, DropStale, Stage, Promote, Restore,
      DropOld, Discard, WakeByNotify, WakeByTimer, WorkerDbError, vars

(* The worker, the handlers and the restarts together keep the promise of    *)
(* ChapterShelf: a kept chapter is never queued, refused or lost behind its  *)
(* reader's back, and a deleted one never comes back.                        *)
THEOREM ImplementsShelf == Spec => ShelfSpec
<1>1. Init => Shelf!Init
  BY DEF Init, Shelf!Init, ShelfOf
<1>2. IndInv /\ IndInv' /\ [Next]_vars => [Shelf!Next]_ShelfNow
  BY ShelfStep
<1>3. QED
  BY <1>1, <1>2, SpecIndInv, PTL DEF Spec, ShelfSpec, Shelf!Spec, ShelfNow
-----------------------------------------------------------------------------
(* A row becomes `downloading` by a claim alone, of the chapter in hand.    *)
LEMMA OnlyAClaimTakes ==
    ASSUME IndInv, [Next]_vars, NEW u \in Units,
           row[u] # "downloading", row'[u] = "downloading"
    PROVE  wpc = "claim" /\ wpc' # "claim" /\ u = wunit /\ row[u] \in {"pending", "none"}
<1> USE DEF IndInv, TypeOK
<1>1. CASE HandlerStep
  BY <1>1, HandlerRowStep DEF RowStep
<1>2. CASE Claim
  BY <1>2 DEF Claim, SetRows, Listed, WorkerOnItsRow
<1>3. CASE Record
  BY <1>3 DEF Record, SetRows
<1>4. CASE Restart
  BY <1>4 DEF Restart, Requeue
<1>5. row' # row
  OBVIOUS
<1>6. ~(Poll \/ Resolve \/ AskSource \/ FetchDone \/ FetchFail)
  BY <1>5 DEF Poll, Resolve, AskSource, FetchDone, FetchFail
<1>7. ~(DropStale \/ Stage \/ Promote \/ Restore \/ DropOld)
  BY <1>5 DEF DropStale, Stage, Promote, Restore, DropOld
<1>8. ~(Discard \/ WakeByNotify \/ WakeByTimer \/ WorkerDbError \/ UNCHANGED vars)
  BY <1>5 DEF Discard, WakeByNotify, WakeByTimer, WorkerDbError, vars
<1>9. QED
  BY <1>1, <1>2, <1>3, <1>4, <1>6, <1>7, <1>8 DEF Next, HandlerStep

(* What the unconditional UPDATE of set_downloading can take at worst: a    *)
(* chapter that was pending when the worker looked, or that was dismissed   *)
(* since; never one that failed, was refused, is downloaded or was deleted. *)
THEOREM TakesPendingOrDismissed ==
    Spec => [][\A u \in Units :
                 row[u] # "downloading" /\ row'[u] = "downloading"
                 => u = wunit /\ row[u] \in {"pending", "none"}]_vars
<1>1. ASSUME IndInv, [Next]_vars
      PROVE  \A u \in Units :
                 row[u] # "downloading" /\ row'[u] = "downloading"
                 => u = wunit /\ row[u] \in {"pending", "none"}
  BY <1>1, OnlyAClaimTakes
<1>2. QED
  BY <1>1, SpecIndInv, PTL DEF Spec

(* Nobody dismisses the chapter between the worker's two statements. *)
NotDismissedInHand ==
    wpc = "claim" /\ wpc' = "claim" /\ row[wunit] = "pending" => row'[wunit] # "none"

TakenIsPending == wpc = "claim" => row[wunit] \in {"pending", "gone"}

(* "Chapters marked `pending` are picked up" (ARCHITECTURE.md), and no      *)
(* others, wherever nobody dismisses a chapter just as it is picked up.     *)
THEOREM OnlyPendingUndismissed == Spec /\ [][NotDismissedInHand]_vars => OnlyPendingIsTaken
<1> DEFINE FromPending ==
        \A u \in Units : row[u] # "downloading" /\ row'[u] = "downloading" => row[u] = "pending"
<1>1. Init => TakenIsPending
  BY DEF Init, TakenIsPending
<1>2. ASSUME IndInv, IndInv', TakenIsPending, [Next]_vars, [NotDismissedInHand]_vars
      PROVE  TakenIsPending'
  <2>1. SUFFICES ASSUME wpc' = "claim" PROVE row'[wunit'] \in {"pending", "gone"}
    BY DEF TakenIsPending
  <2>2. row'[wunit'] \in {"pending", "none", "gone"}
    BY <1>2, <2>1 DEF IndInv, WorkerOnItsRow
  <2>3. CASE UNCHANGED vars
    BY <1>2, <2>1, <2>3 DEF vars, TakenIsPending
  <2>4. CASE Poll
    BY <1>2, <2>1, <2>4 DEF Poll, NextPending, Pending
  <2>5. CASE ~UNCHANGED vars /\ ~Poll
    <3>1. wpc = "claim" /\ wunit' = wunit
      <4>1. CASE HandlerStep
        BY <1>2, <2>1, <4>1, HandlerRowStep DEF IndInv, worker
      <4>2. ~Restart /\ ~(Claim \/ Resolve \/ AskSource \/ FetchDone \/ FetchFail \/ DropStale)
        BY <2>1 DEF Restart, Claim, Resolve, AskSource, FetchDone, FetchFail, DropStale, Return
      <4>3. ~(Stage \/ Promote \/ Restore \/ DropOld \/ Record \/ Discard)
        BY <2>1 DEF Stage, Promote, Restore, DropOld, Record, Discard, Return
      <4>4. ~(WakeByNotify \/ WakeByTimer \/ WorkerDbError)
        BY <2>1 DEF WakeByNotify, WakeByTimer, WorkerDbError
      <4>5. QED
        BY <1>2, <2>5, <4>1, <4>2, <4>3, <4>4 DEF Next, HandlerStep
    <3>2. CASE row[wunit] = "gone"
      BY <1>2, <3>1, <3>2, GoneForGood DEF IndInv, TypeOK
    <3>3. CASE row[wunit] = "pending"
      BY <1>2, <2>1, <2>2, <2>5, <3>1, <3>3 DEF NotDismissedInHand
    <3>4. QED
      BY <1>2, <3>1, <3>2, <3>3 DEF TakenIsPending
  <2>6. QED
    BY <2>3, <2>4, <2>5
<1>3. ASSUME IndInv, TakenIsPending, [Next]_vars
      PROVE  FromPending
  BY <1>3, OnlyAClaimTakes DEF TakenIsPending
<1> HIDE DEF FromPending
<1>4. IndInv /\ IndInv' /\ TakenIsPending /\ [Next]_vars /\ [NotDismissedInHand]_vars
      => TakenIsPending'
  BY <1>2
<1>5. IndInv /\ TakenIsPending /\ [Next]_vars => [FromPending]_vars
  BY <1>3
<1>6. Spec /\ [][NotDismissedInHand]_vars => [][FromPending]_vars
  BY <1>1, <1>4, <1>5, SpecIndInv, PTL DEF Spec
<1>7. QED
  BY <1>6 DEF OnlyPendingIsTaken, FromPending
=============================================================================
