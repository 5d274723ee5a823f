------------------------------ MODULE UnitSync ------------------------------
(***************************************************************************)
(* The chapters of one publication and their source's listing: the         *)
(* sync_units transaction of db/units.rs, the rest of refresh_publication  *)
(* (sync.rs) that moves page directories after the commit, and the         *)
(* download worker it races.  The periodic updater and a manual refresh    *)
(* may each run one at the same time.                                      *)
(*                                                                         *)
(* What recognises a chapter across addresses, its number or, when it has  *)
(* none, its title, is one value here, its sign.  A listing maps keys to   *)
(* signs: of two entries with one key the code keeps the first.  A listing *)
(* is any such map at any time, so the step that fetches it is left out.   *)
(*                                                                         *)
(* Of the worker, DownloadQueue has the details: here a directory is       *)
(* absent or complete.  Taking a download off the server again, dismissing *)
(* one and unmarking a chapter are left out.                               *)
(***************************************************************************)
EXTENDS Naturals, FiniteSets, Functions

CONSTANTS
    MaxIds,       \* how many rows a behaviour may create
    Keys,         \* reading_units.source_key, the address at the source; they
                  \* are numbers, a listing being in their order
    Signs,        \* a chapter's number, or the title of an unnumbered one
    Refreshes,    \* tasks that refresh the publication
    Requests,     \* those of them that serve a manual refresh
    AutoDownload, \* publication.auto_download
    MaxSyncs,     \* how many listings a behaviour merges
    MaxAsks,      \* how often somebody asks for a chapter
    MaxReads,     \* how many chapters are read
    MaxFaults     \* how many faults a behaviour may contain

ASSUME KeysAssumption == Keys \subseteq Nat
ASSUME RequestsAssumption == Requests \subseteq Refreshes
ASSUME AutoAssumption == AutoDownload \in BOOLEAN
ASSUME BoundsAssumption == {MaxIds, MaxSyncs, MaxAsks, MaxReads, MaxFaults} \subseteq Nat

VARIABLES
    rows,      \* reading_units: id -> key, sign, download_state
    born,      \* ids given so far
    dir,       \* chapters with their pages under <data_dir>/<publication>/
    wpc,       \* where the worker is
    wunit,     \* the chapter it took
    outcome,   \* what download_chapter returned
    pc,        \* where each refresh is
    ops,       \* UnitSync.file_ops it has still to apply
    fresh,     \* UnitSync.new_units it announces
    journal,   \* progress_events: the chapter an event was about -> unit_id
    read,      \* read_units
    heir,      \* history: where a chapter that was read went
    last,      \* history: the last listing merged
    cut,       \* history: chapters whose handed-over pages may not arrive
    syncs,     \* listings merged so far
    asks,      \* requests for a download so far
    faults     \* faults so far

worker == <<wpc, wunit, outcome>>
refresh == <<pc, ops, fresh>>
reading == <<journal, read, heir>>
vars == <<rows, born, dir, wpc, wunit, outcome, pc, ops, fresh, journal,
          read, heir, last, cut, syncs, asks, faults>>

Ids == 1 .. MaxIds      \* reading_units.id
RowState == {"none", "pending", "downloading", "downloaded", "failed", "unavailable"}
Row == [key : Keys, sign : Signs, state : RowState]
Nowhere == 0

(* UnitFileOp; a Rename deletes what its target holds and then moves.       *)
FileOp == [kind : {"remove", "rename", "move"}, from : Ids, to : Ids]

Listings == UNION {[listed -> Signs] : listed \in SUBSET Keys}

TypeOK ==
    /\ born \in SUBSET Ids
    /\ DOMAIN rows \subseteq born
    /\ rows \in [DOMAIN rows -> Row]
    /\ dir \in SUBSET Ids
    /\ wpc \in {"poll", "claim", "fetch", "stage", "promote", "record", "discard"}
    /\ wunit \in born \cup {Nowhere}
    /\ wunit = Nowhere <=> wpc = "poll"
    /\ outcome \in {"downloaded", "failed", "unavailable"}
    /\ pc \in [Refreshes -> {"idle", "confirm", "files"}]
    /\ ops \in [Refreshes -> SUBSET FileOp]
    /\ fresh \in [Refreshes -> SUBSET born]
    /\ DOMAIN heir \subseteq born
    /\ heir \in [DOMAIN heir -> DOMAIN rows \cup {Nowhere}]
    /\ journal \in [DOMAIN heir -> born]
    /\ read \in SUBSET DOMAIN rows
    /\ DOMAIN last \subseteq Keys
    /\ last \in [DOMAIN last -> Signs]
    /\ cut \in SUBSET Ids
    /\ syncs \in 0 .. MaxSyncs
    /\ asks \in 0 .. MaxAsks
    /\ faults \in 0 .. MaxFaults

Units == DOMAIN rows

(* One more fault, while the bound allows it. *)
Fault ==
    /\ faults < MaxFaults
    /\ faults' = faults + 1

(* The rows of S, as far as there are any, get this state. *)
SetState(S, state) ==
    rows' = [u \in Units |-> IF u \in S THEN [rows[u] EXCEPT !.state = state]
                                        ELSE rows[u]]

(* Ids (Uuid::now_v7) for the rows of these new keys: greater than all that  *)
(* were given before, in the order of the listing.                           *)
NewIds(new) ==
    {name \in Injection(new, Ids \ born) :
        /\ \A j, k \in new : j < k => name[j] < name[k]
        /\ \A u \in Range(name), v \in Ids \ Range(name) : v < u => v \in born}

(* The key that this new row was inserted for. *)
KeyNamed(name, u) == CHOOSE k \in DOMAIN name : name[k] = u

NewRow(key, listing) == [key |-> key, sign |-> listing[key], state |-> "none"]

(* insert_publication: the chapters first listed. *)
Init ==
    /\ \E listing \in Listings : \E name \in Injection(DOMAIN listing, Ids) :
          /\ listing # <<>>
          /\ \A j, k \in DOMAIN listing : j < k => name[j] < name[k]
          /\ Range(name) = 1 .. Cardinality(DOMAIN listing)
          /\ born = Range(name)
          /\ rows = [u \in born |-> NewRow(KeyNamed(name, u), listing)]
          /\ last = listing
    /\ dir = {}
    /\ wpc = "poll" /\ wunit = Nowhere /\ outcome = "failed"
    /\ pc = [r \in Refreshes |-> "idle"]
    /\ ops = [r \in Refreshes |-> {}]
    /\ fresh = [r \in Refreshes |-> {}]
    /\ journal = <<>> /\ read = {} /\ heir = <<>>
    /\ cut = {} /\ syncs = 0 /\ asks = 0
    /\ faults = 0
-----------------------------------------------------------------------------
(***************************************************************************)
(* sync_units, pass by pass, on a table `t` of rows and a listing.         *)
(***************************************************************************)
Listed(t, listing) == {u \in DOMAIN t : t[u].key \in DOMAIN listing}
Stale(t, listing) == DOMAIN t \ Listed(t, listing)
Unseen(t, listing) == DOMAIN listing \ {t[u].key : u \in DOMAIN t}

(* A stale row is what key `k` of the listing was called before: each is    *)
(* the only match of the other.                                             *)
Renamed(t, listing, u, k) ==
    /\ k \in Unseen(t, listing)
    /\ {v \in Stale(t, listing) : t[v].sign = listing[k]} = {u}
    /\ {j \in Unseen(t, listing) : listing[j] = t[u].sign} = {k}

(* Mutant of Rekeyed: a row with one match moves, whoever else matches.     *)
RekeyedGreedily(t, listing) ==
    [u \in DOMAIN t |->
        IF /\ u \in Stale(t, listing)
           /\ \E k \in Unseen(t, listing) : t[u].sign = listing[k]
        THEN [t[u] EXCEPT !.key =
                 CHOOSE k \in Unseen(t, listing) : t[u].sign = listing[k]]
        ELSE t[u]]

(* First pass: rows whose chapter moved follow it. *)
Rekeyed(t, listing) ==
    [u \in DOMAIN t |->
        IF \E k \in Keys : Renamed(t, listing, u, k)
        THEN [t[u] EXCEPT !.key = CHOOSE k \in Keys : Renamed(t, listing, u, k)]
        ELSE t[u]]

(* Mutant of Upserted: rows that exist are left as they are. *)
UpsertedNewOnly(t, listing, name) ==
    [u \in DOMAIN t \cup Range(name) |->
        IF u \in DOMAIN t
        THEN t[u]
        ELSE NewRow(KeyNamed(name, u), listing)]

(* Second pass: listed rows are refreshed, the other keys get new rows.     *)
Upserted(t, listing, name) ==
    [u \in DOMAIN t \cup Range(name) |->
        IF u \notin DOMAIN t
        THEN NewRow(KeyNamed(name, u), listing)
        ELSE IF t[u].key \in DOMAIN listing
        THEN [t[u] EXCEPT !.sign = listing[t[u].key]]
        ELSE t[u]]

Twins(t, listing, u) == {v \in Listed(t, listing) : t[v].sign = t[u].sign}

(* Third pass, which an empty listing skips: a stale row with exactly one   *)
(* listed twin goes into it; ...                                            *)
Merged(t, listing) ==
    {u \in Stale(t, listing) : listing # <<>> /\ \E v \in Ids : Twins(t, listing, u) = {v}}

Twin(t, listing, u) == CHOOSE v \in Ids : Twins(t, listing, u) = {v}

(* Mutant of Dropped: whatever has no twin is dropped. *)
DroppedAll(t, listing) ==
    {u \in Stale(t, listing) \ Merged(t, listing) : listing # <<>>}

(* ... one without is dropped unless something is saved or under way.       *)
Dropped(t, listing) ==
    {u \in Stale(t, listing) \ Merged(t, listing) :
        listing # <<>> /\ t[u].state \in {"none", "failed"}}

(* The downloaded copies a merge hands over: one to each twin that has none *)
(* (the first in the order of the rows).                                    *)
Gifts(t, listing) ==
    LET able == {u \in Merged(t, listing) :
                    /\ t[u].state = "downloaded"
                    /\ t[Twin(t, listing, u)].state # "downloaded"}
    IN  {G \in SUBSET able :
            \A u \in able : \E g \in G :
                {h \in G : Twin(t, listing, h) = Twin(t, listing, u)} = {g}}

(* The pages of this chapter may be leaving its directory, or not be there  *)
(* yet: the worker has it in hand, another refresh is still to move them.   *)
InFlight(u) ==
    \/ wunit = u
    \/ \E r \in Refreshes : \E op \in ops[r] : op.kind # "remove" /\ op.to = u
    \/ u \in cut

(* What becomes of the chapter `u` when the rows merge. *)
Follow(t, listing, u) ==
    IF u \in Merged(t, listing) THEN Twin(t, listing, u) ELSE u

(* Mutant of Marks: the mark of a merged row goes with the row. *)
MarksDropped(t, listing) == read \ (Merged(t, listing) \cup Dropped(t, listing))

(* The read marks after the third pass: those of a dropped row go with it.  *)
Marks(t, listing) == {Follow(t, listing, u) : u \in read \ Dropped(t, listing)}

(* Mutant of FileOps: the directory of every merged row is removed. *)
FileOpsRemoving(t, listing, given) ==
    {[kind |-> "remove", from |-> u, to |-> u] :
        u \in Merged(t, listing) \cup Dropped(t, listing)}

(* What is to happen to page directories once the transaction has committed. *)
FileOps(t, listing, given) ==
    {[kind |-> "rename", from |-> g, to |-> Twin(t, listing, g)] : g \in given}
        \cup {[kind |-> "remove", from |-> u, to |-> u] :
                  u \in (Merged(t, listing) \ given) \cup Dropped(t, listing)}

(* The third pass commits; `given` are the copies that change hands.        *)
Reconcile(r, t, listing, given) ==
    LET merged == Merged(t, listing)
        dropped == Dropped(t, listing)
        blessed == {Twin(t, listing, g) : g \in given}
    IN  /\ rows' = [u \in DOMAIN t \ (merged \cup dropped) |->
                       IF u \in blessed THEN [t[u] EXCEPT !.state = "downloaded"]
                                        ELSE t[u]]
        /\ read' = Marks(t, listing)
        /\ journal' = [u \in DOMAIN journal |-> Follow(t, listing, journal[u])]
        /\ heir' = [u \in DOMAIN heir |->
                       IF heir[u] \in dropped THEN Nowhere
                                              ELSE Follow(t, listing, heir[u])]
        /\ ops' = [ops EXCEPT ![r] = FileOps(t, listing, given)]
        /\ fresh' = [fresh EXCEPT ![r] =
              (DOMAIN t \ Units) \ {Twin(t, listing, u) : u \in merged}]
        /\ cut' = cut \cup {Twin(t, listing, g) : g \in {h \in given : InFlight(h)}}

(* The whole transaction. *)
Sync(r) ==
    /\ pc[r] = "idle"
    /\ syncs < MaxSyncs
    /\ \E listing \in Listings :
         LET moved == Rekeyed(rows, listing)
         IN  \E name \in NewIds(Unseen(moved, listing)) :
               LET t == Upserted(moved, listing, name)
               IN  /\ born' = born \cup Range(name)
                   /\ \E given \in Gifts(t, listing) : Reconcile(r, t, listing, given)
                   /\ last' = IF listing = <<>> THEN last ELSE listing
    /\ pc' = [pc EXCEPT ![r] = "confirm"]
    /\ syncs' = syncs + 1
    /\ UNCHANGED <<dir, worker, asks, faults>>
-----------------------------------------------------------------------------
(***************************************************************************)
(* The rest of a refresh.                                                  *)
(***************************************************************************)
Unmoved(r) == {op.to : op \in {o \in ops[r] : o.kind # "remove"}}

(* The refresh returns, with an error or not. *)
Return(r) ==
    /\ pc' = [pc EXCEPT ![r] = "idle"]
    /\ ops' = [ops EXCEPT ![r] = {}]
    /\ fresh' = [fresh EXCEPT ![r] = {}]
    /\ cut' = cut \cup Unmoved(r)

(* get_unit for each new row, set_genres, set_last_checked: an error of any, *)
(* be it that another refresh has merged the new row away, ends the refresh  *)
(* with its file operations undone.                                          *)
Confirm(r) ==
    /\ pc[r] = "confirm"
    /\ \/ /\ fresh[r] \subseteq Units
          /\ pc' = [pc EXCEPT ![r] = "files"]
          /\ UNCHANGED <<ops, fresh, cut, faults>>
       \/ /\ ~(fresh[r] \subseteq Units)
          /\ Return(r)
          /\ UNCHANGED faults
       \/ /\ Fault
          /\ Return(r)
    /\ UNCHANGED <<rows, born, dir, worker, reading, last, syncs, asks>>

(* One step of the next file operation, in whatever order the rows were     *)
(* read; none fails the refresh.                                            *)
FileStep(r) ==
    /\ pc[r] = "files"
    /\ \E op \in ops[r] :
         /\ \A o \in ops[r] : o.kind = "move" => o = op
         /\ \/ /\ op.kind = "remove"
               /\ dir' = dir \ {op.from}
               /\ ops' = [ops EXCEPT ![r] = @ \ {op}]
            \/ /\ op.kind = "rename"
               /\ dir' = dir \ {op.to}
               /\ ops' = [ops EXCEPT ![r] = (@ \ {op}) \cup {[op EXCEPT !.kind = "move"]}]
            \/ /\ op.kind = "move"
               /\ dir' = IF op.from \in dir /\ op.to \notin dir
                         THEN (dir \ {op.from}) \cup {op.to}
                         ELSE dir
               /\ ops' = [ops EXCEPT ![r] = @ \ {op}]
    /\ UNCHANGED <<rows, born, worker, pc, fresh, reading, last, cut, syncs, asks, faults>>

(* mark_pending_new. *)
Queue(r) ==
    /\ pc[r] = "files"
    /\ ops[r] = {}
    /\ \/ /\ SetState(IF AutoDownload
                       THEN {u \in fresh[r] \cap Units : rows[u].state \in {"none", "failed"}}
                       ELSE {}, "pending")
          /\ UNCHANGED faults
       \/ /\ AutoDownload /\ fresh[r] # {}
          /\ Fault
          /\ UNCHANGED rows
    /\ Return(r)
    /\ UNCHANGED <<born, dir, worker, reading, last, syncs, asks>>

(* The client of a manual refresh goes away, and with it the handler.       *)
Drop(r) ==
    /\ r \in Requests
    /\ pc[r] \in {"confirm", "files"}
    /\ Fault
    /\ Return(r)
    /\ UNCHANGED <<rows, born, dir, worker, reading, last, syncs, asks>>
-----------------------------------------------------------------------------
(***************************************************************************)
(* People.                                                                 *)
(***************************************************************************)

(* mark_pending: somebody asks for a chapter. *)
Ask(u) ==
    /\ u \in Units
    /\ asks < MaxAsks
    /\ asks' = asks + 1
    /\ rows[u].state \in {"none", "failed", "unavailable"}
    /\ SetState({u}, "pending")
    /\ UNCHANGED <<born, dir, worker, refresh, reading, last, cut, syncs, faults>>

(* Somebody reads a chapter to its end: its position goes to the journal     *)
(* and the chapter is marked read (two requests; a merge treats the two      *)
(* tables alike, so what may come between them is left out).                 *)
Read(u) ==
    /\ u \in Units \ DOMAIN heir
    /\ Cardinality(DOMAIN heir) < MaxReads
    /\ journal' = [v \in DOMAIN journal \cup {u} |-> IF v = u THEN u ELSE journal[v]]
    /\ heir' = [v \in DOMAIN heir \cup {u} |-> IF v = u THEN u ELSE heir[v]]
    /\ read' = read \cup {u}
    /\ UNCHANGED <<rows, born, dir, worker, refresh, last, cut, syncs, asks, faults>>
-----------------------------------------------------------------------------
(***************************************************************************)
(* The download worker.                                                    *)
(***************************************************************************)
Poll ==
    /\ wpc = "poll"
    /\ \E u \in Units :
         /\ rows[u].state = "pending"
         /\ wunit' = u
    /\ wpc' = "claim"
    /\ UNCHANGED <<rows, born, dir, outcome, refresh, reading, last, cut, syncs, asks, faults>>

(* set_downloading, whatever became of the row. *)
Claim ==
    /\ wpc = "claim"
    /\ SetState({wunit}, "downloading")
    /\ wpc' = "fetch"
    /\ UNCHANGED <<born, dir, wunit, outcome, refresh, reading, last, cut, syncs, asks, faults>>

(* The source offers the chapter and all its pages arrive, or not. *)
Fetch ==
    /\ wpc = "fetch"
    /\ \/ wpc' = "stage" /\ UNCHANGED outcome
       \/ wpc' = "record" /\ outcome' \in {"failed", "unavailable"}
    /\ UNCHANGED <<rows, born, dir, wunit, refresh, reading, last, cut, syncs, asks, faults>>

(* An older .old goes, the present copy takes its name. *)
Stage ==
    /\ wpc = "stage"
    /\ wpc' = "promote"
    /\ dir' = dir \ {wunit}
    /\ UNCHANGED <<rows, born, wunit, outcome, refresh, reading, last, cut, syncs, asks, faults>>

(* The new pages take their name, unless a refresh has moved pages there     *)
(* since: then neither they nor the former copy can be renamed.              *)
Promote ==
    /\ wpc = "promote"
    /\ wpc' = "record"
    /\ \/ /\ wunit \notin dir
          /\ dir' = dir \cup {wunit}
          /\ outcome' = "downloaded"
       \/ /\ wunit \in dir
          /\ outcome' = "failed"
          /\ UNCHANGED dir
    /\ UNCHANGED <<rows, born, wunit, refresh, reading, last, cut, syncs, asks, faults>>

(* Mutant of Rest: the worker keeps hold of the chapter. *)
RestHolding ==
    /\ wpc' = "poll"
    /\ outcome' = "failed"
    /\ UNCHANGED wunit

(* The worker has done with the chapter. *)
Rest ==
    /\ wpc' = "poll"
    /\ wunit' = Nowhere
    /\ outcome' = "failed"

(* finish_download; pages of a row that has gone are to be discarded. *)
Record ==
    /\ wpc = "record"
    /\ SetState({wunit}, outcome)
    /\ \/ wunit \in Units /\ Rest
       \/ wunit \notin Units /\ wpc' = "discard" /\ UNCHANGED <<wunit, outcome>>
    /\ UNCHANGED <<born, dir, refresh, reading, last, cut, syncs, asks, faults>>

Discard ==
    /\ wpc = "discard"
    /\ dir' = dir \ {wunit}
    /\ Rest
    /\ UNCHANGED <<rows, born, refresh, reading, last, cut, syncs, asks, faults>>

WorkerStep ==
    Poll \/ Claim \/ Fetch \/ Stage \/ Promote \/ Record \/ Discard
-----------------------------------------------------------------------------
(* The process is killed and started again: what a refresh had still to do   *)
(* is forgotten, a copy that was staged aside stays aside, and chapters that *)
(* were downloading are queued again.                                        *)
Restart ==
    /\ Fault
    /\ SetState({u \in Units : rows[u].state = "downloading"}, "pending")
    /\ Rest
    /\ pc' = [r \in Refreshes |-> "idle"]
    /\ ops' = [r \in Refreshes |-> {}]
    /\ fresh' = [r \in Refreshes |-> {}]
    /\ cut' = cut \cup (UNION {Unmoved(r) : r \in Refreshes})
                  \cup (IF wpc = "promote" THEN {wunit} ELSE {})
    /\ UNCHANGED <<born, dir, reading, last, syncs, asks>>

RefreshStep(r) ==
    Sync(r) \/ Confirm(r) \/ FileStep(r) \/ Queue(r) \/ Drop(r)

Next ==
    \/ \E r \in Refreshes : RefreshStep(r)
    \/ \E u \in Ids : Ask(u) \/ Read(u)
    \/ WorkerStep
    \/ Restart

Spec == Init /\ [][Next]_vars
-----------------------------------------------------------------------------
(***************************************************************************)
(* Properties.                                                             *)
(***************************************************************************)

(* Moving rows to new addresses never gives two rows one address: the       *)
(* UNIQUE constraint, which would fail the whole refresh each time, is met. *)
KeysAreUnique ==
    \A u, v \in Units : rows[u].key = rows[v].key => u = v

(* Whatever was renamed, split, doubled or renumbered, every chapter last   *)
(* listed has a row that says so, and no row that left the listing remains  *)
(* beside the one row that it could be.                                     *)
MatchesSource ==
    /\ \A k \in DOMAIN last : \E u \in Units : rows[u].key = k /\ rows[u].sign = last[k]
    /\ \A u \in Units : rows[u].key \notin DOMAIN last =>
          ~\E v \in Units : {w \in Units : /\ rows[w].key \in DOMAIN last
                                         /\ rows[w].sign = rows[u].sign} = {v}

(* "read marks and the reading journal follow": through any chain of merges *)
(* the position and the mark of a chapter stay together, on the row the     *)
(* chapter has become.                                                      *)
ReadingFollows ==
    \A u \in DOMAIN heir : heir[u] # Nowhere =>
        /\ heir[u] \in read
        /\ journal[u] = heir[u]

(* A chapter that is shown as downloaded has its pages, or they are about   *)
(* to be put there, unless they were lost on their way: the refresh that    *)
(* was to move them ended early, or took them from a chapter whose own      *)
(* pages were still moving.                                                 *)
CopyOnDisk ==
    \A u \in Units : rows[u].state = "downloaded" =>
        \/ u \in dir \cup cut
        \/ wunit = u /\ wpc = "promote"
        \/ \E r \in Refreshes : u \in Unmoved(r)

(* "downloaded content is never discarded": a downloaded chapter stays so,   *)
(* or becomes one, with the same sign, that is; except that the worker may   *)
(* be busy on it.                                                            *)
DownloadsSurvive ==
    [][\A u \in Units : rows[u].state = "downloaded" =>
         \/ /\ u \in DOMAIN rows'
            /\ \/ rows'[u].state = "downloaded"
               \/ wunit = u /\ wpc \in {"claim", "record"}
         \/ /\ u \notin DOMAIN rows'
            /\ \E v \in DOMAIN rows' : /\ rows'[v].state = "downloaded"
                                      /\ rows'[v].sign = rows[u].sign]_vars

(* "dropped only when nothing is saved locally": a chapter that leaves the   *)
(* listing and has no twin has no pages on disk when its row is dropped.     *)
(* (A copy handed to a chapter that the worker is downloading is forgotten   *)
(* when that download fails, and is then discarded with the failed row. So   *)
(* are pages that a killed process had promoted and not yet recorded, when   *)
(* the next attempt at the chapter fails.)                                   *)
OnlyEmptyIsDropped ==
    [][\A u \in Units \ DOMAIN rows' :
         (~\E v \in DOMAIN rows' : rows'[v].sign = rows[u].sign) => u \notin dir]_vars
=============================================================================
