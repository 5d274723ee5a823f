---------------------------- MODULE DownloadQueue ----------------------------
(***************************************************************************)
(* The server's download queue: the `download_state` column of             *)
(* reading_units, the single worker of downloader.rs, the three names a    *)
(* chapter's directory can have on disk, and the request handlers that     *)
(* race the worker (api/chapters.rs, api/downloads.rs, the delete handler  *)
(* of api/library.rs and the auto-download tail of sync.rs).               *)
(*                                                                         *)
(* The database is durable and every statement (or transaction) is one     *)
(* step; a directory rename or deletion is one step; between two steps any *)
(* other actor may run, and the process may be killed and started again.   *)
(*                                                                         *)
(* The content of a directory is abstracted to "absent", "torn" (some of   *)
(* the pages) or "full".  The page progress shown in the Downloads view    *)
(* and the in-memory list of live page URLs are left out: nothing here     *)
(* reads them.                                                             *)
(***************************************************************************)
EXTENDS Naturals, FiniteSets

CONSTANTS
    Units,      \* chapters (reading_units.id)
    Pubs,       \* publications
    PubOf,      \* the publication of each chapter
    Rank,       \* ORDER BY fetched_at, number: the worker takes the least rank
    Requests,   \* request handlers that may be in flight at once
    MaxFaults   \* how many faults of each kind a behaviour may contain

FaultKinds == {"restart", "db", "fs", "drop"}

ASSUME PubAssumption == PubOf \in [Units -> Pubs]
ASSUME RankAssumption == Rank \in [Units -> Nat]
ASSUME FaultAssumption == MaxFaults \in [FaultKinds -> Nat]
ASSUME UnitsFinite == IsFiniteSet(Units)

VARIABLES
    row,        \* download_state; "unlisted": no row yet, "gone": row deleted
    dir,        \* <data_dir>/<publication>/<chapter>
    partial,    \* <chapter>.partial, being written
    old,        \* <chapter>.old, the former copy staged aside
    wpc,        \* where the worker is
    wunit,      \* the chapter it took from the queue
    outcome,    \* what download_chapter returned
    hadOld,     \* download_chapter's local: a former copy was staged aside
    notified,   \* the permit of the tokio Notify
    task,       \* where each request handler is
    todo,       \* the chapters it has still to handle
    removed,    \* remove_downloads' local: the rows it reset
    owed,       \* history: chapters with a promoted copy that nothing has
                \* removed since
    spent       \* faults so far, by kind

disk == <<dir, partial, old>>
worker == <<wpc, wunit, outcome, hadOld>>
tasks == <<task, todo, removed>>
vars == <<row, dir, partial, old, wpc, wunit, outcome, hadOld, notified, task,
          todo, removed, owed, spent>>

RowState == {"unlisted", "none", "pending", "downloading", "downloaded",
             "failed", "unavailable", "gone"}
Copy == {"absent", "torn", "full"}
Working == {"resolve", "ask", "fetch", "dropStale", "stage", "promote",
            "restore", "dropOld", "record"}
WorkerPc == Working \cup {"poll", "claim", "discard", "idle"}
TaskPc == {"idle", "queueUser", "queueAuto", "notify", "reset", "files", "purge"}

TypeOK ==
    /\ row \in [Units -> RowState]
    /\ dir \in [Units -> Copy]
    /\ partial \in [Units -> Copy]
    /\ old \in [Units -> Copy]
    /\ wpc \in WorkerPc
    /\ wunit \in Units
    /\ outcome \in {"downloaded", "failed", "unavailable"}
    /\ hadOld \in BOOLEAN
    /\ notified \in BOOLEAN
    /\ task \in [Requests -> TaskPc]
    /\ todo \in [Requests -> SUBSET Units]
    /\ removed \in [Requests -> SUBSET Units]
    /\ owed \in SUBSET Units
    /\ spent \in [FaultKinds -> Nat]

(* A chapter has a row in the table. *)
Listed(u) == row[u] \notin {"unlisted", "gone"}

SetRows(S, state) == row' = [u \in Units |-> IF u \in S THEN state ELSE row[u]]

(* One more fault of this kind, while the bound allows it. *)
Fault(kind) ==
    /\ spent[kind] < MaxFaults[kind]
    /\ spent' = [spent EXCEPT ![kind] = @ + 1]

Init ==
    /\ row \in [Units -> {"unlisted", "none"}]
    /\ dir = [u \in Units |-> "absent"]
    /\ partial = dir
    /\ old = dir
    /\ wpc = "poll"
    /\ wunit \in Units
    /\ outcome = "failed"
    /\ hadOld = FALSE
    /\ notified = FALSE
    /\ task = [r \in Requests |-> "idle"]
    /\ todo = [r \in Requests |-> {}]
    /\ removed = todo
    /\ owed = {}
    /\ spent = [k \in FaultKinds |-> 0]
-----------------------------------------------------------------------------
(***************************************************************************)
(* The worker.                                                             *)
(***************************************************************************)
Pending == {u \in Units : row[u] = "pending"}

NextPending == {u \in Pending : \A v \in Pending : Rank[u] <= Rank[v]}

(* next_pending_download: the oldest pending row, or wait. *)
Poll ==
    /\ wpc = "poll"
    /\ \/ /\ Pending = {}
          /\ wpc' = "idle"
          /\ UNCHANGED wunit
       \/ \E u \in NextPending :
            /\ wunit' = u
            /\ wpc' = "claim"
    /\ UNCHANGED <<row, disk, outcome, hadOld, notified, tasks, owed, spent>>

(* set_downloading: an UPDATE by id alone, whatever the row says by now. *)
Claim ==
    /\ wpc = "claim"
    /\ SetRows({wunit} \cap {u \in Units : Listed(u)}, "downloading")
    /\ wpc' = "resolve"
    /\ UNCHANGED <<disk, wunit, outcome, hadOld, notified, tasks, owed, spent>>

(* Mutant of Return: a failure kind of its own that the column does not know. *)
ReturnUnknown(result) ==
    /\ outcome' = IF result = "unavailable" THEN "locked" ELSE result
    /\ wpc' = "record"

(* download_chapter returns. *)
Return(result) ==
    /\ outcome' = result
    /\ wpc' = "record"

(* get_publication: the publication may have been deleted meanwhile. *)
Resolve ==
    /\ wpc = "resolve"
    /\ \/ /\ row[wunit] = "gone"
          /\ Return("failed")
       \/ /\ row[wunit] # "gone"
          /\ wpc' = "ask"
          /\ UNCHANGED outcome
    /\ UNCHANGED <<row, disk, wunit, hadOld, notified, tasks, owed, spent>>

(* Mutant of AskSource: the former copy is cleared before the fetch. *)
AskSourceInPlace ==
    /\ wpc = "ask"
    /\ \/ /\ \/ Return("unavailable")
             \/ Return("failed")
          /\ UNCHANGED <<dir, partial>>
       \/ /\ partial' = [partial EXCEPT ![wunit] = "torn"]
          /\ dir' = [dir EXCEPT ![wunit] = "absent"]
          /\ wpc' = "fetch"
          /\ UNCHANGED outcome
    /\ UNCHANGED <<row, old, wunit, hadOld, notified, tasks, owed, spent>>

(* source.pages: the source does not offer the chapter, does not answer, or *)
(* lists its pages; then a fresh .partial is created.                       *)
AskSource ==
    /\ wpc = "ask"
    /\ \/ /\ \/ Return("unavailable")
             \/ Return("failed")
          /\ UNCHANGED partial
       \/ /\ partial' = [partial EXCEPT ![wunit] = "torn"]
          /\ wpc' = "fetch"
          /\ UNCHANGED outcome
    /\ UNCHANGED <<row, dir, old, wunit, hadOld, notified, tasks, owed, spent>>

(* Mutant of FetchDone: a page that failed is skipped. *)
FetchDoneTorn ==
    /\ wpc = "fetch"
    /\ partial[wunit] # "absent"
    /\ wpc' = "dropStale"
    /\ UNCHANGED <<row, disk, wunit, outcome, hadOld, notified, tasks, owed, spent>>

(* fetch_pages to its last page; a .partial deleted under it fails a write. *)
FetchDone ==
    /\ wpc = "fetch"
    /\ partial[wunit] # "absent"
    /\ partial' = [partial EXCEPT ![wunit] = "full"]
    /\ wpc' = "dropStale"
    /\ UNCHANGED <<row, dir, old, wunit, outcome, hadOld, notified, tasks,
                   owed, spent>>

(* A page fails: the litter is deleted. *)
FetchFail ==
    /\ wpc = "fetch"
    /\ partial' = [partial EXCEPT ![wunit] = "absent"]
    /\ Return("failed")
    /\ UNCHANGED <<row, dir, old, wunit, hadOld, notified, tasks, owed, spent>>

(* remove_dir_all(.old), whatever it still holds. *)
DropStale ==
    /\ wpc = "dropStale"
    /\ old' = [old EXCEPT ![wunit] = "absent"]
    /\ wpc' = "stage"
    /\ UNCHANGED <<row, dir, partial, wunit, outcome, hadOld, notified, tasks,
                   owed, spent>>

(* rename(dir, .old); without a former copy it fails, which is no error. *)
Stage ==
    /\ wpc = "stage"
    /\ wpc' = "promote"
    /\ \/ /\ dir[wunit] # "absent"
          /\ old' = [old EXCEPT ![wunit] = dir[wunit]]
          /\ dir' = [dir EXCEPT ![wunit] = "absent"]
          /\ hadOld' = TRUE
          /\ UNCHANGED spent
       \/ /\ \/ dir[wunit] = "absent" /\ UNCHANGED spent
             \/ dir[wunit] # "absent" /\ Fault("fs")
          /\ hadOld' = FALSE
          /\ UNCHANGED <<dir, old>>
    /\ UNCHANGED <<row, partial, wunit, outcome, notified, tasks, owed>>

(* rename(.partial, dir): fails over a directory that is still there and     *)
(* when .partial was deleted meanwhile.                                      *)
Promote ==
    /\ wpc = "promote"
    /\ \/ /\ partial[wunit] # "absent"
          /\ dir[wunit] = "absent"
          /\ dir' = [dir EXCEPT ![wunit] = partial[wunit]]
          /\ partial' = [partial EXCEPT ![wunit] = "absent"]
          /\ owed' = owed \cup ({wunit} \cap {u \in Units : Listed(u)})
          /\ wpc' = "dropOld"
          /\ UNCHANGED spent
       \/ /\ \/ partial[wunit] = "absent" /\ UNCHANGED spent
             \/ dir[wunit] # "absent" /\ UNCHANGED spent
             \/ Fault("fs")
          /\ wpc' = "restore"
          /\ UNCHANGED <<dir, partial, owed>>
    /\ UNCHANGED <<row, old, wunit, outcome, hadOld, notified, tasks>>

(* The promotion failed: put the staged copy back, best effort. *)
Restore ==
    /\ wpc = "restore"
    /\ \/ /\ hadOld
          /\ old[wunit] # "absent"
          /\ dir[wunit] = "absent"
          /\ dir' = [dir EXCEPT ![wunit] = old[wunit]]
          /\ old' = [old EXCEPT ![wunit] = "absent"]
          /\ UNCHANGED spent
       \/ /\ \/ ~hadOld /\ UNCHANGED spent
             \/ old[wunit] = "absent" /\ UNCHANGED spent
             \/ hadOld /\ Fault("fs")
          /\ UNCHANGED <<dir, old>>
    /\ Return("failed")
    /\ UNCHANGED <<row, partial, wunit, hadOld, notified, tasks, owed>>

DropOld ==
    /\ wpc = "dropOld"
    /\ old' = [old EXCEPT ![wunit] = "absent"]
    /\ Return("downloaded")
    /\ UNCHANGED <<row, dir, partial, wunit, hadOld, notified, tasks, owed, spent>>

(* finish_download: no row left means the files just written are orphans. *)
Record ==
    /\ wpc = "record"
    /\ \/ /\ Listed(wunit)
          /\ SetRows({wunit}, outcome)
          /\ wpc' = "poll"
       \/ /\ ~Listed(wunit)
          /\ wpc' = "discard"
          /\ UNCHANGED row
    /\ UNCHANGED <<disk, wunit, outcome, hadOld, notified, tasks, owed, spent>>

(* Mutant of Discard: the files of a deleted publication are left. *)
DiscardNothing ==
    /\ wpc = "discard"
    /\ wpc' = "poll"
    /\ UNCHANGED <<row, disk, wunit, outcome, hadOld, notified, tasks, owed, spent>>

Discard ==
    /\ wpc = "discard"
    /\ dir' = [dir EXCEPT ![wunit] = "absent"]
    /\ wpc' = "poll"
    /\ UNCHANGED <<row, partial, old, wunit, outcome, hadOld, notified, tasks,
                   owed, spent>>

(* The permit of notify_one, or the 60 s safety poll. *)
WakeByNotify ==
    /\ wpc = "idle"
    /\ notified
    /\ notified' = FALSE
    /\ wpc' = "poll"
    /\ UNCHANGED <<row, disk, wunit, outcome, hadOld, tasks, owed, spent>>

(* Mutant of WakeByTimer: no safety poll. *)
WakeByNoTimer ==
    /\ wpc = "idle"
    /\ notified
    /\ wpc' = "poll"
    /\ UNCHANGED <<row, disk, wunit, outcome, hadOld, notified, tasks, owed, spent>>

WakeByTimer ==
    /\ wpc = "idle"
    /\ wpc' = "poll"
    /\ UNCHANGED <<row, disk, wunit, outcome, hadOld, notified, tasks, owed, spent>>

(* A database call of the worker's loop fails: polling waits for the next   *)
(* wake-up, claiming polls again, and an outcome that cannot be recorded is *)
(* only logged.                                                             *)
WorkerDbError ==
    /\ Fault("db")
    /\ \/ wpc = "poll" /\ wpc' = "idle"
       \/ wpc \in {"claim", "record"} /\ wpc' = "poll"
    /\ UNCHANGED <<row, disk, wunit, outcome, hadOld, notified, tasks, owed>>

WorkerStep ==
    \/ Poll \/ Claim \/ Resolve \/ AskSource \/ FetchDone \/ FetchFail
    \/ DropStale \/ Stage \/ Promote \/ Restore \/ DropOld \/ Record \/ Discard
    \/ WakeByNotify \/ WakeByTimer
-----------------------------------------------------------------------------
(***************************************************************************)
(* The request handlers.  A request that changes no row ends at once and   *)
(* is no step.                                                             *)
(***************************************************************************)
Idle(r) == task[r] = "idle"

GoTo(r, step, S) ==
    /\ task' = [task EXCEPT ![r] = step]
    /\ todo' = [todo EXCEPT ![r] = S]

Finish(r) == GoTo(r, "idle", {})

(* Mutants of Queueable: no difference between the user and the sweep; no *)
(* guard against a downloaded row.                                        *)
QueueableByAnyone(explicit) == {"none", "failed", "unavailable"}
QueueableAgain(explicit) ==
    {"none", "failed", "downloaded"} \cup (IF explicit THEN {"unavailable"} ELSE {})

(* Db::queue: one transaction over the ids; `explicit` includes the         *)
(* unavailable ones.                                                        *)
Queueable(explicit) ==
    {"none", "failed"} \cup (IF explicit THEN {"unavailable"} ELSE {})

Queue(S, explicit) ==
    SetRows({u \in S : row[u] \in Queueable(explicit)}, "pending")

(* download: read the row, and leave a downloaded, downloading or pending   *)
(* one alone; the queueing is a second statement.                           *)
Download(r, u) ==
    /\ Idle(r)
    /\ row[u] \in {"none", "failed", "unavailable"}
    /\ GoTo(r, "queueUser", {u})
    /\ UNCHANGED <<row, disk, worker, notified, removed, owed, spent>>

(* Mutant of QueueUser: the worker is not woken. *)
QueueUserQuietly(r) ==
    /\ task[r] = "queueUser"
    /\ Queue(todo[r], TRUE)
    /\ Finish(r)
    /\ UNCHANGED <<disk, worker, notified, removed, owed, spent>>

QueueUser(r) ==
    /\ task[r] = "queueUser"
    /\ Queue(todo[r], TRUE)
    /\ GoTo(r, "notify", {})
    /\ UNCHANGED <<disk, worker, notified, removed, owed, spent>>

(* download_many *)
DownloadMany(r, S) ==
    /\ Idle(r)
    /\ \E u \in S : row[u] \in Queueable(TRUE)
    /\ Queue(S, TRUE)
    /\ GoTo(r, "notify", {})
    /\ UNCHANGED <<disk, worker, notified, removed, owed, spent>>

(* retry: failed rows only. *)
Retry(r, S) ==
    /\ Idle(r)
    /\ S # {}
    /\ \A u \in S : row[u] = "failed"
    /\ SetRows(S, "pending")
    /\ GoTo(r, "notify", {})
    /\ UNCHANGED <<disk, worker, notified, removed, owed, spent>>

(* refresh_publication of a publication with auto_download: the listing     *)
(* inserts new rows; queueing them comes after several other awaits.        *)
Discover(r, S) ==
    /\ Idle(r)
    /\ S # {}
    /\ \A u \in S : row[u] = "unlisted"
    /\ \A u, v \in S : PubOf[u] = PubOf[v]
    /\ SetRows(S, "none")
    /\ GoTo(r, "queueAuto", S)
    /\ UNCHANGED <<disk, worker, notified, removed, owed, spent>>

QueueAuto(r) ==
    /\ task[r] = "queueAuto"
    /\ Queue(todo[r], FALSE)
    /\ GoTo(r, "notify", {})
    /\ UNCHANGED <<disk, worker, notified, removed, owed, spent>>

(* notify_one *)
Notify(r) ==
    /\ task[r] = "notify"
    /\ notified' = TRUE
    /\ Finish(r)
    /\ UNCHANGED <<row, disk, worker, removed, owed, spent>>

(* dismiss: one transaction, nothing after it. *)
Dismiss(S) ==
    /\ S # {}
    /\ \A u \in S : row[u] \in {"pending", "failed", "unavailable"}
    /\ SetRows(S, "none")
    /\ UNCHANGED <<disk, worker, notified, tasks, owed, spent>>

(* remove_downloads: the rows first, one statement each ...                 *)
Remove(r, S) ==
    /\ Idle(r)
    /\ \E u \in S : row[u] = "downloaded"
    /\ GoTo(r, "reset", S)
    /\ UNCHANGED <<row, disk, worker, notified, removed, owed, spent>>

ResetRow(r, u) ==
    LET hit == {u} \cap {v \in Units : row[v] = "downloaded"}
        rest == todo[r] \ {u}
        all == removed[r] \cup hit
    IN  /\ task[r] = "reset"
        /\ u \in todo[r]
        /\ SetRows(hit, "none")
        /\ owed' = owed \ hit
        /\ \/ /\ rest # {}
              /\ GoTo(r, "reset", rest)
              /\ removed' = [removed EXCEPT ![r] = all]
           \/ /\ rest = {}
              /\ GoTo(r, IF all = {} THEN "idle" ELSE "files", all)
              /\ removed' = [removed EXCEPT ![r] = {}]
        /\ UNCHANGED <<disk, worker, notified, spent>>

(* ... then the directories of the rows it reset, whatever those rows say   *)
(* by then.                                                                 *)
RemoveFiles(r, u) ==
    /\ task[r] = "files"
    /\ u \in todo[r]
    /\ \/ /\ Listed(u)
          /\ dir' = [dir EXCEPT ![u] = "absent"]
          /\ owed' = owed \ {u}
       \/ /\ ~Listed(u)
          /\ UNCHANGED <<dir, owed>>
    /\ LET rest == todo[r] \ {u}
       IN  GoTo(r, IF rest = {} THEN "idle" ELSE "files", rest)
    /\ UNCHANGED <<row, partial, old, worker, notified, removed, spent>>

(* delete: the publication's rows go by cascade, its directory after that.  *)
Delete(r, p) ==
    LET S == {u \in Units : PubOf[u] = p}
    IN  /\ Idle(r)
        /\ \E u \in S : row[u] # "gone"
        /\ SetRows(S, "gone")
        /\ owed' = owed \ S
        /\ GoTo(r, "purge", S)
        /\ UNCHANGED <<disk, worker, notified, removed, spent>>

Purge(r) ==
    LET Without(copies) ==
            [u \in Units |-> IF u \in todo[r] THEN "absent" ELSE copies[u]]
    IN  /\ task[r] = "purge"
        /\ dir' = Without(dir)
        /\ partial' = Without(partial)
        /\ old' = Without(old)
        /\ Finish(r)
        /\ UNCHANGED <<row, worker, notified, removed, owed, spent>>

(* The client goes away and the server drops the handler where it waits.    *)
Abandon(r) ==
    /\ ~Idle(r)
    /\ Fault("drop")
    /\ Finish(r)
    /\ removed' = [removed EXCEPT ![r] = {}]
    /\ UNCHANGED <<row, disk, worker, notified, owed>>

TaskStep(r) ==
    \/ QueueUser(r) \/ QueueAuto(r) \/ Notify(r) \/ Purge(r)
    \/ \E u \in Units : ResetRow(r, u) \/ RemoveFiles(r, u)

NewRequest(r) ==
    \/ \E u \in Units : Download(r, u)
    \/ \E S \in SUBSET Units :
          DownloadMany(r, S) \/ Retry(r, S) \/ Discover(r, S) \/ Remove(r, S)
    \/ \E p \in Pubs : Delete(r, p)
-----------------------------------------------------------------------------
(***************************************************************************)
(* The process is killed and started again.  Rows and names on disk stay;  *)
(* a recursive deletion that was running may have deleted some of its      *)
(* files (at most one directory is left that way); everything in memory is *)
(* lost; with_options puts a `downloading` row back in the queue.          *)
(***************************************************************************)
BeingDeleted(u) ==
    \/ \E r \in Requests :
          /\ u \in todo[r]
          /\ \/ task[r] = "purge"
             \/ task[r] = "files" /\ Listed(u)
    \/ wpc = "discard" /\ wunit = u

(* Mutant of Restart's recovery: interrupted rows are left as they are. *)
RequeueNothing(state) == state

(* The recovery statement of with_options, on one row. *)
Requeue(state) == IF state = "downloading" THEN "pending" ELSE state

Restart ==
    /\ Fault("restart")
    /\ row' = [u \in Units |-> Requeue(row[u])]
    /\ \/ UNCHANGED <<dir, old, owed>>
       \/ \E u \in Units :
            /\ BeingDeleted(u)
            /\ dir[u] # "absent"
            /\ dir' = [dir EXCEPT ![u] = "torn"]
            /\ owed' = owed \ {u}
            /\ UNCHANGED old
       \/ /\ wpc \in {"dropStale", "dropOld"}
          /\ old[wunit] # "absent"
          /\ old' = [old EXCEPT ![wunit] = "torn"]
          /\ UNCHANGED <<dir, owed>>
    /\ wpc' = "poll"
    /\ outcome' = "failed"
    /\ hadOld' = FALSE
    /\ notified' = FALSE
    /\ task' = [r \in Requests |-> "idle"]
    /\ todo' = [r \in Requests |-> {}]
    /\ removed' = [r \in Requests |-> {}]
    /\ UNCHANGED <<partial, wunit>>

Next ==
    \/ Poll \/ Claim \/ Resolve \/ AskSource \/ FetchDone \/ FetchFail
    \/ DropStale \/ Stage \/ Promote \/ Restore \/ DropOld \/ Record \/ Discard
    \/ WakeByNotify \/ WakeByTimer \/ WorkerDbError
    \/ \E r \in Requests : NewRequest(r) \/ TaskStep(r) \/ Abandon(r)
    \/ \E S \in SUBSET Units : Dismiss(S)
    \/ Restart

(* The worker task and every handler are run by the tokio runtime until     *)
(* they end; HTTP calls and database calls return.  Nobody owes a request.  *)
Fairness ==
    /\ WF_vars(WorkerStep)
    /\ \A r \in Requests : WF_vars(TaskStep(r))

Spec == Init /\ [][Next]_vars

FairSpec == Spec /\ Fairness
-----------------------------------------------------------------------------
(***************************************************************************)
(* Safety.                                                                 *)
(***************************************************************************)

(* A chapter the database calls downloaded has all its pages under its name *)
(* on disk exactly when no removal has deleted its files after its row had  *)
(* moved on (remove_downloads resets the rows, then deletes directories).   *)
DownloadedIsComplete ==
    \A u \in Units : row[u] = "downloaded" => (u \in owed <=> dir[u] = "full")

(* What the comment on publishing says: a re-download "never destroys a     *)
(* good copy".  A copy that was promoted and that nobody removed is         *)
(* complete under one of the chapter's three names, whatever fails between  *)
(* the renames.  (It takes three faults to lose one: DropStale deletes .old *)
(* without asking whether it is the only copy.)                             *)
GoodCopyNeverDestroyed ==
    \A u \in owed : "full" \in {dir[u], partial[u], old[u]}

(* A `downloading` row is the one the worker is on: no handler and no       *)
(* restart leaves a chapter in a state that neither retry, dismiss nor the  *)
(* worker would ever pick up.                                               *)
DownloadingIsActive ==
    spent["db"] = 0 =>
        \A u \in Units :
            row[u] = "downloading" => wunit = u /\ wpc \in Working

(* The worker never sleeps on a non-empty queue with no wake-up on its way. *)
NoLostWakeup ==
    (/\ wpc = "idle"
     /\ Pending # {}
     /\ spent["drop"] = 0
     /\ spent["db"] = 0)
        => notified \/ \E r \in Requests : task[r] = "notify"

(* Without faults, nothing of a deleted publication stays on disk, however  *)
(* its deletion interleaved with the worker.                                *)
NoOrphanFiles ==
    \A u \in Units :
        (/\ row[u] = "gone"
         /\ \A k \in FaultKinds : spent[k] = 0
         /\ ~(wunit = u /\ wpc \in Working \cup {"claim", "discard"})
         /\ ~\E r \in Requests : task[r] = "purge" /\ u \in todo[r])
            => dir[u] = "absent" /\ partial[u] = "absent" /\ old[u] = "absent"

(* The automatic sweep never re-queues a chapter the source refused, even   *)
(* when somebody asked for it and was refused before the sweep got to it.   *)
AutoSkipsUnavailable ==
    [][\A r \in Requests :
         task[r] = "queueAuto" /\ task'[r] = "notify" =>
            \A u \in Units : row[u] = "unavailable" => row'[u] = "unavailable"]_vars

(* What ARCHITECTURE.md says of the worker, "chapters marked `pending` are   *)
(* picked up".  Claim does not look at the row again, so a chapter dismissed *)
(* between the two statements is downloaded all the same.                    *)
OnlyPendingIsTaken ==
    [][\A u \in Units :
         row[u] # "downloading" /\ row'[u] = "downloading" => row[u] = "pending"]_vars

(* Every behaviour of the queue is one of the shelf's, taking pending and    *)
(* downloading for wanted, failed and unavailable for refused.               *)
ShelfOf(state) ==
    CASE state = "none" -> "out"
      [] state \in {"pending", "downloading"} -> "wanted"
      [] state = "downloaded" -> "kept"
      [] state \in {"failed", "unavailable"} -> "refused"
      [] OTHER -> state

Shelf == INSTANCE ChapterShelf WITH shelf <- [u \in Units |-> ShelfOf(row[u])]

ShelfSpec == Shelf!Spec
-----------------------------------------------------------------------------
(***************************************************************************)
(* Liveness.                                                               *)
(***************************************************************************)

(* When people stop asking and the database answers, every queued chapter   *)
(* leaves the queue.                                                        *)
QueueDrains ==
    (<>[][\A r \in Requests : Idle(r) => task'[r] = "idle"]_vars) =>
        \A u \in Units :
            row[u] \in {"pending", "downloading"} ~>
            row[u] \notin {"pending", "downloading"}
=============================================================================
