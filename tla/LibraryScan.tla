---------------------------- MODULE LibraryScan ----------------------------
(***************************************************************************)
(* The scan of the books directory: publications follow the files, through *)
(* renames, with the periodic scan and the ones readers ask for at work at *)
(* the same time, each on the listing it made when it began.               *)
(***************************************************************************)
EXTENDS Naturals, FiniteSets

CONSTANTS
    Paths,      \* paths in the books directory
    Titles,     \* books, by what must match: shelf, format and title
    Scans,      \* the periodic scan ("periodic") and manual ones
    MaxMoves,   \* bound: changes of the directory
    MaxHitches  \* bound: restarts, failed statements and deleted publications

VARIABLES
    shelf,      \* the directory: the book at each path
    stored,     \* rows of publications with a file_path
    scan,       \* each scan: how far, what it discovered, what it listed
    muddled,    \* history: books moved under a scan, doubled or replaced
    lastRow, moves, hitches

scanVars == <<shelf, stored, scan, muddled, lastRow, moves, hitches>>

NoBook == "none"
Book == Titles \cup {NoBook}
Row == [id : Nat, path : Paths, title : Titles, missing : BOOLEAN]

ASSUME ScanAssumption ==
    /\ IsFiniteSet(Paths) /\ NoBook \notin Titles
    /\ MaxMoves \in Nat /\ MaxHitches \in Nat

ScanState == [at : {"rest", "list", "match", "flag"}, found : [Paths -> Book],
              listed : SUBSET Row, todo : SUBSET Paths, seen : SUBSET Paths]

Resting == [at |-> "rest", found |-> [p \in Paths |-> NoBook], listed |-> {},
            todo |-> {}, seen |-> {}]

ScanTypeOK ==
    /\ shelf \in [Paths -> Book]
    /\ stored \subseteq Row
    /\ scan \in [Scans -> ScanState]
    /\ muddled \subseteq Titles
    /\ lastRow \in Nat /\ moves \in 0 .. MaxMoves /\ hitches \in 0 .. MaxHitches

ScanInit ==
    /\ shelf = [p \in Paths |-> NoBook]
    /\ stored = {}
    /\ scan = [s \in Scans |-> Resting]
    /\ muddled = {}
    /\ lastRow = 0 /\ moves = 0 /\ hitches = 0

Hitch ==
    /\ hitches < MaxHitches
    /\ hitches' = hitches + 1
-----------------------------------------------------------------------------
(* Books come, go and are renamed, with or without a scan under way. *)
Change(new) ==
    /\ moves < MaxMoves
    /\ shelf' = new /\ new # shelf
    /\ moves' = moves + 1
    /\ muddled' = muddled \cup
          {t \in Titles :
             \/ \E p \in Paths : (shelf[p] = t) # (new[p] = t) /\ \E s \in Scans : scan[s].at # "rest"
             \/ Cardinality({p \in Paths : new[p] = t}) > 1
             \/ \E r \in stored : r.title = t /\ new[r.path] \notin {t, NoBook}}
    /\ UNCHANGED <<stored, scan, lastRow, hitches>>

Put(p, t) == shelf[p] = NoBook /\ Change([shelf EXCEPT ![p] = t])
Take(p) == Change([shelf EXCEPT ![p] = NoBook])
Rename(p, q) ==
    /\ shelf[p] # NoBook /\ shelf[q] = NoBook
    /\ Change([shelf EXCEPT ![p] = NoBook, ![q] = shelf[p]])

DeletePublication(r) ==
    /\ Hitch
    /\ stored' = stored \ {r}
    /\ UNCHANGED <<shelf, scan, muddled, lastRow, moves>>
-----------------------------------------------------------------------------
Set(s, new) == scan' = [scan EXCEPT ![s] = new]
Kept(id) == \E row \in stored : row.id = id
Discovered(s) == {p \in Paths : scan[s].found[p] # NoBook}

Discover(s) ==
    /\ scan[s].at = "rest"
    /\ Set(s, [Resting EXCEPT !.at = "list", !.found = shelf])
    /\ UNCHANGED <<shelf, stored, muddled, lastRow, moves, hitches>>

(* The rows as they are now; every discovered path counts as seen. *)
ListLocal(s) ==
    /\ scan[s].at = "list"
    /\ Set(s, [scan[s] EXCEPT !.at = "match", !.listed = stored, !.todo = Discovered(s),
                              !.seen = Discovered(s)])
    /\ UNCHANGED <<shelf, stored, muddled, lastRow, moves, hitches>>

ByPath(s, p) == {r \in scan[s].listed : r.path = p}

(* Mutant of Candidates: only what an earlier scan flagged. *)
CandidatesFlagged(s, p) == {r \in scan[s].listed : r.title = scan[s].found[p] /\ r.missing}

(* The book at a new path, if it was listed where nothing was discovered. *)
Candidates(s, p) ==
    {r \in scan[s].listed : r.title = scan[s].found[p] /\ r.path \notin scan[s].seen}

Matched(s, p, seen) == Set(s, [scan[s] EXCEPT !.todo = @ \ {p}, !.seen = @ \cup seen])

(* Mutant of Healed: the flag stays. *)
HealedNot(r, row) == row

(* sync_known clears the flag it listed. *)
Healed(r, row) == IF r.missing THEN [row EXCEPT !.missing = FALSE] ELSE row

(* The rest of sync_known is UnitSync's; it fails when the row is gone. *)
Known(s, p, r) ==
    /\ r \in ByPath(s, p)
    /\ IF Kept(r.id)
       THEN /\ stored' = {IF row.id = r.id THEN Healed(r, row) ELSE row : row \in stored}
            /\ Matched(s, p, {})
       ELSE Set(s, Resting) /\ UNCHANGED stored
    /\ UNCHANGED lastRow

(* repoint_local_publication fails when the path is taken. *)
Repoint(s, p, r) ==
    /\ ByPath(s, p) = {} /\ Candidates(s, p) = {r}
    /\ IF Kept(r.id) /\ \A row \in stored : row.path = p => row.id = r.id
       THEN /\ stored' = {IF row.id = r.id THEN [row EXCEPT !.path = p, !.missing = FALSE]
                         ELSE row : row \in stored}
            /\ Matched(s, p, {r.path})
       ELSE Set(s, Resting) /\ UNCHANGED stored
    /\ UNCHANGED lastRow

(* insert_local_publication: skipped when the path is taken. *)
Insert(s, p) ==
    /\ ByPath(s, p) = {} /\ Cardinality(Candidates(s, p)) # 1
    /\ IF \E row \in stored : row.path = p THEN UNCHANGED <<stored, lastRow>>
       ELSE /\ lastRow' = lastRow + 1
            /\ stored' = stored \cup {[id |-> lastRow + 1, path |-> p,
                                     title |-> scan[s].found[p], missing |-> FALSE]}
    /\ Matched(s, p, {})

MatchFound(s) ==
    /\ scan[s].at = "match"
    /\ \E p \in scan[s].todo :
          Insert(s, p) \/ \E r \in scan[s].listed : Known(s, p, r) \/ Repoint(s, p, r)
    /\ UNCHANGED <<shelf, muddled, moves, hitches>>

(* What the walk did not see has vanished: one statement each. *)
Vanished(s) == {r \in scan[s].listed : r.path \notin scan[s].seen /\ ~r.missing}

FlagVanished(s) ==
    /\ scan[s].at \in {"match", "flag"} /\ scan[s].todo = {}
    /\ \/ \E r \in Vanished(s) :
             /\ stored' = {IF row.id = r.id THEN [row EXCEPT !.missing = TRUE] ELSE row :
                              row \in stored}
             /\ Set(s, [scan[s] EXCEPT !.at = "flag", !.listed = @ \ {r}])
       \/ Vanished(s) = {} /\ Set(s, Resting) /\ UNCHANGED stored
    /\ UNCHANGED <<shelf, muddled, lastRow, moves, hitches>>

(* A statement fails, or the server is restarted. *)
ScanFails(s) ==
    /\ Hitch
    /\ scan[s].at # "rest"
    /\ Set(s, Resting)
    /\ UNCHANGED <<shelf, stored, muddled, lastRow, moves>>

ScanStep(s) == Discover(s) \/ ListLocal(s) \/ MatchFound(s) \/ FlagVanished(s)

ScanNext ==
    \/ \E s \in Scans : ScanStep(s) \/ ScanFails(s)
    \/ \E p \in Paths : Take(p) \/ (\E t \in Titles : Put(p, t)) \/ (\E q \in Paths : Rename(p, q))
    \/ \E r \in stored : DeletePublication(r)

ScanSpec == ScanInit /\ [][ScanNext]_scanVars
-----------------------------------------------------------------------------
(* A book keeps its row, and with it its progress, however its file is      *)
(* moved, taken away and brought back, and however scans overlap; unless it *)
(* is moved while a scan is under way, is there twice, or its path is given *)
(* to another book.                                                         *)
OneRowPerBook ==
    \A q, r \in stored : q.title = r.title /\ q.title \notin muddled => q = r

(* The rows come to agree with the directory once it stops changing: every  *)
(* file has a row that is not missing, and what has no file is.             *)
Agrees ==
    /\ \A p \in Paths : shelf[p] # NoBook => \E r \in stored : r.path = p
    /\ \A r \in stored : r.missing = (shelf[r.path] = NoBook)

ScansSettle == <>[]Agrees
=============================================================================
