---------------------------- MODULE ProgressSync ----------------------------
(***************************************************************************)
(* How a page turn reaches the reading-progress journal of its account.    *)
(*                                                                         *)
(* A reader page (a browser tab or the shell's WebView) reports every turn *)
(* to the server; when the report fails, the turn becomes an event in the  *)
(* outbox of local storage, which every page of the same browser drains in *)
(* the background (offline.rs, offline/sync.rs).  The storage is divided   *)
(* by account (offline-context.js), the server credits a request to the    *)
(* account of its session (auth.rs), and people sign out, sign in as       *)
(* somebody else and lose their session while all this is going on.        *)
(*                                                                         *)
(* A request can be lost, its reply can be lost, and the server may still  *)
(* serve one its client has given up on.  One publication is modelled;     *)
(* the content of a position is the number of the turn it belongs to.      *)
(* Left out: the backoff between drains (5 s to 300 s), the end of a drain *)
(* after 8 rounds, and auto_mark_read.                                     *)
(***************************************************************************)
EXTENDS Naturals, Sequences, FiniteSets

CONSTANTS
    Users,      \* accounts
    NoUser,     \* nobody is signed in
    Browsers,   \* each with its own cookie jar and local storage
    Tabs,       \* pages running the app
    BrowserOf,
    Units,      \* chapters of the publication
    LateStamped, \* those read in the comic reader, whose outbox events are
                \* stamped when the report has failed (reader/mod.rs)
    Limit,      \* events per push (128)
    Capacity,   \* events a request may hold before it is answered with 413
    MaxTurns,   \* page turns in a behaviour
    MaxFaults   \* faults of each kind in a behaviour

FaultKinds == {"net", "expire", "reload", "remove", "leave"}

ASSUME BrowserAssumption == BrowserOf \in [Tabs -> Browsers]
ASSUME NobodyAssumption == NoUser \notin Users
ASSUME LateAssumption == LateStamped \subseteq Units
ASSUME LimitAssumption == Limit \in Nat \ {0} /\ Capacity \in Nat
ASSUME BoundAssumption == MaxTurns \in Nat /\ MaxFaults \in [FaultKinds -> Nat]

Turns == 1 .. MaxTurns
Owners == Users \cup {NoUser}

VARIABLES
    journal,    \* progress_events: who, which event, and the commit it came in
    commits,    \* transactions that have added rows (orders arrival, like seq)
    known,      \* chapters that still have a row
    cookie,     \* the account a browser's requests are credited to
    owner,      \* local storage: the last account identified (yomu-owner)
    outbox,     \* local storage: events waiting, by browser and account
    scope,      \* the account a page works for
    stage,      \* where a page is between loading and leaving
    notice,     \* a storage event about another owner is on its way to a page
    drain,      \* where the page's background drain is
    limit,      \* flush_outbox's local of that name
    pushed,     \* and the batch it sent last (both mean nothing at rest)
    pushes,     \* pushes the server has not served yet
    reports,    \* reports the server has not served yet
    status,     \* what the page knows of each turn's report
    turn,       \* history: tab, account, chapter and time of each turn
    dropped,    \* history: turns whose report died with its page
    clock,      \* every reading of a clock is a new instant
    spent       \* faults so far, by kind

server == <<journal, commits, known>>
storage == <<cookie, owner, outbox>>
pages == <<scope, stage, notice>>
drains == <<drain, limit, pushed>>
readers == <<status, turn, dropped>>
vars == <<server, storage, pages, drains, pushes, reports, readers, clock, spent>>

(* An event's identity: a turn has one id on the server's side and another  *)
(* in the outbox.                                                           *)
Event == [turn : Turns, via : {"report", "outbox"}, at : Nat]
Row == [event : Event, user : Users, commit : Nat]
Push == [tab : Tabs, owner : Users, user : Owners, batch : SUBSET Event,
         stale : BOOLEAN]
Report == [turn : Turns, user : Owners]
Turn == [tab : Tabs, user : Users, unit : Units, at : Nat]
Status == {"unread", "waiting", "ok", "refused", "over"}

TypeOK ==
    /\ journal \subseteq Row
    /\ commits \in Nat
    /\ known \subseteq Units
    /\ cookie \in [Browsers -> Owners]
    /\ owner \in [Browsers -> Owners]
    /\ outbox \in [Browsers -> [Owners -> SUBSET Event]]
    /\ scope \in [Tabs -> Owners]
    /\ stage \in [Tabs -> {"boot", "use", "revoked", "left"}]
    /\ notice \in [Tabs -> BOOLEAN]
    /\ drain \in [Tabs -> {"rest", "verify", "ready", "await", "ok", "413", "error"}]
    /\ limit \in [Tabs -> Nat \ {0}]
    /\ pushed \in [Tabs -> SUBSET Event]
    /\ pushes \subseteq Push
    /\ reports \subseteq Report
    /\ status \in [Turns -> Status]
    /\ turn \in Seq(Turn) /\ Len(turn) <= MaxTurns
    /\ dropped \subseteq Turns
    /\ clock \in Nat
    /\ spent \in [FaultKinds -> Nat]

Fault(kind) ==
    /\ spent[kind] < MaxFaults[kind]
    /\ spent' = [spent EXCEPT ![kind] = @ + 1]

(* A page that is neither loading nor signed out nor on its way to a reload. *)
Active(t) == stage[t] \in {"use", "revoked"} /\ scope[t] # NoUser

Init ==
    /\ journal = {}
    /\ commits = 0
    /\ known = Units
    /\ cookie \in [Browsers -> Owners]
    /\ owner = cookie
    /\ outbox = [b \in Browsers |-> [o \in Owners |-> {}]]
    /\ scope = [t \in Tabs |-> cookie[BrowserOf[t]]]
    /\ stage = [t \in Tabs |-> "use"]
    /\ notice = [t \in Tabs |-> FALSE]
    /\ drain = [t \in Tabs |-> "rest"]
    /\ limit = [t \in Tabs |-> Limit]
    /\ pushed = [t \in Tabs |-> {}]
    /\ pushes = {}
    /\ reports = {}
    /\ status = [k \in Turns |-> "unread"]
    /\ turn = <<>>
    /\ dropped = {}
    /\ clock = 0
    /\ spent = [kind \in FaultKinds |-> 0]
-----------------------------------------------------------------------------
(***************************************************************************)
(* Local storage.                                                          *)
(***************************************************************************)
Browser(t) == BrowserOf[t]

(* The outbox a page reads and writes: its account's, or the signed-out one. *)
Outbox(t) == outbox[Browser(t)][scope[t]]

SetOutbox(t, events) ==
    outbox' = [outbox EXCEPT ![Browser(t)][scope[t]] = events]

Id(e) == <<e.turn, e.via>>

Others(t) == {v \in Tabs : v # t /\ BrowserOf[v] = BrowserOf[t]}

(* put(ownerKey): the other pages of the browser hear of it if it changed.  *)
SetOwner(t, user) ==
    /\ owner' = [owner EXCEPT ![Browser(t)] = user]
    /\ notice' = [v \in Tabs |->
                    \/ v \in Others(t) /\ owner[Browser(t)] # user
                    \/ v # t /\ notice[v]]

GoTo(t, place) == drain' = [drain EXCEPT ![t] = place]

(* flush_outbox returns; its locals are gone. *)
Rest(t) ==
    /\ GoTo(t, "rest")
    /\ limit' = [limit EXCEPT ![t] = Limit]
    /\ pushed' = [pushed EXCEPT ![t] = {}]

(* The pushes, once page t waits no longer for an answer: they may still be *)
(* served.                                                                  *)
GivenUp(t) == {IF p.tab = t THEN [p EXCEPT !.stale = TRUE] ELSE p : p \in pushes}

(* The page unloads: its tasks die; what they sent may still be served.     *)
Unload(t, next) ==
    /\ stage' = [stage EXCEPT ![t] = next]
    /\ Rest(t)
    /\ pushes' = GivenUp(t)
    /\ LET mine == {k \in 1 .. Len(turn) : turn[k].tab = t /\ status[k] # "over"}
       IN  /\ status' = [k \in Turns |-> IF k \in mine THEN "over" ELSE status[k]]
           /\ dropped' = dropped \cup mine
-----------------------------------------------------------------------------
(***************************************************************************)
(* Reading.                                                                *)
(***************************************************************************)

(* report: one request per turn; nothing waits for the one before it.       *)
TurnPage(t, u) ==
    LET k == Len(turn) + 1
    IN  /\ Active(t)
        /\ k \in Turns
        /\ u \in known
        /\ clock' = clock + 1
        /\ turn' = Append(turn, [tab |-> t, user |-> scope[t], unit |-> u, at |-> clock'])
        /\ reports' = reports \cup {[turn |-> k, user |-> cookie[Browser(t)]]}
        /\ status' = [status EXCEPT ![k] = "waiting"]
        /\ UNCHANGED <<server, storage, pages, drains, pushes, dropped, spent>>

(* set_position: the server stamps the event and credits its own idea of    *)
(* the user; no session is a 401, an unknown chapter a 404.                 *)
ServeReport(r) ==
    LET accepted == r.user # NoUser /\ turn[r.turn].unit \in known
        event == [turn |-> r.turn, via |-> "report", at |-> clock + 1]
    IN  /\ r \in reports
        /\ reports' = reports \ {r}
        /\ IF accepted
           THEN /\ journal' = journal \cup
                       {[event |-> event, user |-> r.user, commit |-> commits + 1]}
                /\ commits' = commits + 1
                /\ clock' = clock + 1
           ELSE UNCHANGED <<journal, commits, clock>>
        /\ IF status[r.turn] = "waiting"
           THEN status' = [status EXCEPT ![r.turn] = IF accepted THEN "ok" ELSE "refused"]
           ELSE UNCHANGED status
        /\ UNCHANGED <<known, storage, pages, drains, pushes, turn, dropped, spent>>

ReportDone(k) ==
    /\ status[k] = "ok"
    /\ status' = [status EXCEPT ![k] = "over"]
    /\ UNCHANGED <<server, storage, pages, drains, pushes, reports, turn, dropped,
                   clock, spent>>

(* Mutant of StampLate: every reader stamps when the report has failed. *)
StampEveryoneLate(k) == TRUE

(* The comic reader builds the event in the error branch, the book reader   *)
(* before it asks.                                                          *)
StampLate(k) == turn[k].unit \in LateStamped

(* The report failed, or was given up: the turn goes into the outbox.       *)
ReportFailed(k) ==
    LET t == turn[k].tab
        event == [turn |-> k, via |-> "outbox",
                  at |-> IF StampLate(k) THEN clock + 1 ELSE turn[k].at]
    IN  /\ \/ status[k] = "refused" /\ UNCHANGED spent
           \/ status[k] \in {"waiting", "ok"} /\ Fault("net")
        /\ status' = [status EXCEPT ![k] = "over"]
        /\ SetOutbox(t, Outbox(t) \cup {event})
        /\ clock' = IF StampLate(k) THEN clock + 1 ELSE clock
        /\ UNCHANGED <<server, cookie, owner, pages, drains, pushes, reports, turn,
                       dropped>>

(* A request whose client has given up never arrives. *)
LoseReport(r) ==
    /\ r \in reports
    /\ status[r.turn] = "over"
    /\ reports' = reports \ {r}
    /\ UNCHANGED <<server, storage, pages, drains, pushes, readers, clock, spent>>
-----------------------------------------------------------------------------
(***************************************************************************)
(* Draining the outbox.                                                    *)
(***************************************************************************)
(* sync::start's tick: one drain per page. *)
StartDrain(t) ==
    /\ drain[t] = "rest"
    /\ Active(t)
    /\ Outbox(t) # {}
    /\ GoTo(t, "verify")
    /\ UNCHANGED <<server, storage, pages, limit, pushed, pushes, reports, readers,
                   clock, spent>>

(* Mutant of VerifiedAs: any answer will do. *)
VerifiedAsAnyone(t) == TRUE

(* identityScope(me) === scope *)
VerifiedAs(t) == cookie[Browser(t)] = scope[t]

(* verify: the server names the account; on another one the page stores it  *)
(* and reloads.  flush_outbox then starts with its full limit.              *)
Verify(t) ==
    /\ drain[t] = "verify"
    /\ \/ /\ \/ ~Active(t) /\ UNCHANGED spent
             \/ Fault("net")
          /\ Rest(t)
          /\ UNCHANGED <<pushes, owner, notice, stage, status, dropped>>
       \/ /\ Active(t)
          /\ VerifiedAs(t)
          /\ GoTo(t, "ready")
          /\ UNCHANGED <<limit, pushed, pushes, owner, notice, stage, status, dropped, spent>>
       \/ /\ Active(t)
          /\ ~VerifiedAs(t)
          /\ SetOwner(t, cookie[Browser(t)])
          /\ Unload(t, "boot")
          /\ UNCHANGED spent
    /\ UNCHANGED <<server, cookie, outbox, scope, reports, turn, clock>>

(* The head of the loop: the owner still matches, and there is something to *)
(* send.  The request carries the session of that moment.                   *)
Send(t) ==
    /\ drain[t] = "ready"
    /\ \/ /\ ~Active(t) \/ Outbox(t) = {}
          /\ Rest(t)
          /\ UNCHANGED pushes
       \/ /\ Active(t)
          /\ \E batch \in SUBSET Outbox(t) :
                /\ batch # {}
                /\ Cardinality(batch) <= limit[t]
                /\ batch = Outbox(t) \/ Cardinality(batch) = limit[t]
                /\ pushed' = [pushed EXCEPT ![t] = batch]
                /\ pushes' = pushes \cup
                      {[tab |-> t, owner |-> scope[t], user |-> cookie[Browser(t)],
                        batch |-> batch, stale |-> FALSE]}
          /\ GoTo(t, "await")
          /\ UNCHANGED limit
    /\ UNCHANGED <<server, storage, pages, reports, readers, clock, spent>>

(* Mutants of NewRows: no conflict clause; superseded events are pruned. *)
NewRowsAgain(batch, user) ==
    journal \cup {[event |-> e, user |-> user, commit |-> commits + 1] :
                    e \in {f \in batch : turn[f.turn].unit \in known}}
NewRowsPruned(batch, user) ==
    LET rows == NewRowsAgain(batch, user)
    IN  {r \in rows : \A s \in rows : s.event.at <= r.event.at}

(* append_events, one transaction: events of a chapter that is gone are     *)
(* skipped, ids already in the journal are left alone.                      *)
NewRows(batch, user) ==
    journal \cup {[event |-> e, user |-> user, commit |-> commits + 1] :
                    e \in {f \in batch :
                             /\ turn[f.turn].unit \in known
                             /\ \A r \in journal : Id(f) # Id(r.event)}}

(* Mutants of Refused: an unknown chapter fails the whole batch; no session *)
(* is needed.                                                               *)
RefusedIfStale(p) ==
    p.user = NoUser \/ \E e \in p.batch : turn[e.turn].unit \notin known
RefusedNever(p) == FALSE

(* No session: 401. *)
Refused(p) == p.user = NoUser

TooLarge(p) == Cardinality(p.batch) > Capacity

ServePush(p) ==
    LET answer == CASE Refused(p) -> "error"
                    [] ~Refused(p) /\ TooLarge(p) -> "413"
                    [] OTHER -> "ok"
    IN  /\ p \in pushes
        /\ pushes' = pushes \ {p}
        /\ IF answer = "ok"
           THEN /\ journal' = NewRows(p.batch, p.user)
                /\ commits' = IF journal' = journal THEN commits ELSE commits + 1
           ELSE UNCHANGED <<journal, commits>>
        /\ IF p.stale THEN UNCHANGED drain ELSE GoTo(p.tab, answer)
        /\ UNCHANGED <<known, storage, pages, limit, pushed, reports, readers, clock,
                       spent>>

(* Mutant of Remaining: what was not in the batch goes too. *)
RemainingNone(t) == {}

Remaining(t) == {e \in Outbox(t) : \A f \in pushed[t] : Id(e) # Id(f)}

(* The answer: what was pushed leaves the outbox, and the loop goes on. *)
Acknowledge(t) ==
    /\ drain[t] = "ok"
    /\ \/ /\ Active(t)
          /\ SetOutbox(t, Remaining(t))
          /\ GoTo(t, "ready")
          /\ UNCHANGED <<limit, pushed>>
       \/ /\ ~Active(t)
          /\ Rest(t)
          /\ UNCHANGED outbox
    /\ UNCHANGED <<server, cookie, owner, pages, pushes, reports,
                   readers, clock, spent>>

(* limit = (pushed.len() / 2).max(1) *)
Halved(n) == IF n \div 2 = 0 THEN 1 ELSE n \div 2

(* 413: smaller batches, down to one event; any other failure ends the drain. *)
PushFailed(t) ==
    /\ \/ /\ drain[t] = "413"
          /\ limit[t] > 1
          /\ limit' = [limit EXCEPT ![t] = Halved(Cardinality(pushed[t]))]
          /\ GoTo(t, "ready")
          /\ UNCHANGED pushed
       \/ /\ drain[t] = "error" \/ (drain[t] = "413" /\ limit[t] = 1)
          /\ Rest(t)
    /\ UNCHANGED <<server, storage, pages, pushes, reports, readers, clock,
                   spent>>

(* No answer within 8 s, or the reply was lost: the request may be served yet. *)
PushTimeout(t) ==
    /\ drain[t] \in {"await", "ok"}
    /\ Fault("net")
    /\ Rest(t)
    /\ pushes' = GivenUp(t)
    /\ UNCHANGED <<server, storage, pages, reports, readers, clock>>

LosePush(p) ==
    /\ p \in pushes
    /\ p.stale
    /\ pushes' = pushes \ {p}
    /\ UNCHANGED <<server, storage, pages, drains, reports, readers, clock, spent>>
-----------------------------------------------------------------------------
(***************************************************************************)
(* Pages and accounts.                                                     *)
(***************************************************************************)

(* init: who() names the account, or fails, and then the last one           *)
(* identified is believed.                                                  *)
Boot(t) ==
    LET b == Browser(t)
    IN  /\ stage[t] = "boot"
        /\ stage' = [stage EXCEPT ![t] = "use"]
        /\ \/ /\ SetOwner(t, cookie[b])
              /\ scope' = [scope EXCEPT ![t] = cookie[b]]
              /\ UNCHANGED spent
           \/ /\ Fault("net")
              /\ scope' = [scope EXCEPT ![t] = owner[b]]
              /\ notice' = [notice EXCEPT ![t] = FALSE]
              /\ UNCHANGED owner
        /\ UNCHANGED <<server, cookie, outbox, drains, pushes, reports, readers, clock>>

(* The user reloads, or closes the app and comes back. *)
Reload(t) ==
    /\ stage[t] \in {"use", "revoked"}
    /\ Fault("reload")
    /\ Unload(t, "boot")
    /\ UNCHANGED <<server, storage, scope, notice, reports, turn, clock>>

(* The storage event: another page identified another owner. *)
Notice(t) ==
    /\ notice[t]
    /\ stage[t] # "boot"
    /\ notice' = [notice EXCEPT ![t] = FALSE]
    /\ Unload(t, "boot")
    /\ UNCHANGED <<server, storage, scope, reports, turn, clock, spent>>

(* sign_out: first the server forgets the session ... *)
Revoke(t) ==
    /\ stage[t] = "use"
    /\ cookie[Browser(t)] # NoUser
    /\ Fault("leave")
    /\ cookie' = [cookie EXCEPT ![Browser(t)] = NoUser]
    /\ stage' = [stage EXCEPT ![t] = "revoked"]
    /\ UNCHANGED <<server, owner, outbox, scope, notice, drains, pushes, reports,
                   readers, clock>>

(* ... then context.logout() freezes the page and tells the others ...      *)
SignOut(t) ==
    /\ stage[t] = "revoked"
    /\ stage' = [stage EXCEPT ![t] = "left"]
    /\ scope' = [scope EXCEPT ![t] = NoUser]
    /\ SetOwner(t, NoUser)
    /\ UNCHANGED <<server, cookie, outbox, drains, pushes, reports, readers, clock,
                   spent>>

(* ... and the page goes back to "/".                                       *)
LeavePage(t) ==
    /\ stage[t] = "left"
    /\ Unload(t, "boot")
    /\ UNCHANGED <<server, storage, scope, notice, reports, turn, clock, spent>>

(* Signing in leaves the page for the identity provider and comes back with *)
(* a session.                                                               *)
SignIn(t, u) ==
    /\ stage[t] = "use"
    /\ cookie[Browser(t)] = NoUser
    /\ cookie' = [cookie EXCEPT ![Browser(t)] = u]
    /\ Unload(t, "boot")
    /\ UNCHANGED <<server, owner, outbox, scope, notice, reports, turn, clock, spent>>

(* A session ends on the server. *)
Expire(b) ==
    /\ cookie[b] # NoUser
    /\ Fault("expire")
    /\ cookie' = [cookie EXCEPT ![b] = NoUser]
    /\ UNCHANGED <<server, owner, outbox, pages, drains, pushes, reports, readers, clock>>

(* A refresh drops a chapter (its events stay), or the publication is       *)
(* removed and its events go by cascade.                                    *)
RemoveUnit(u) ==
    /\ u \in known
    /\ Fault("remove")
    /\ known' = known \ {u}
    /\ UNCHANGED <<journal, commits, storage, pages, drains, pushes, reports, readers,
                   clock>>

RemovePublication ==
    /\ known # {}
    /\ Fault("remove")
    /\ known' = {}
    /\ journal' = {}
    /\ UNCHANGED <<commits, storage, pages, drains, pushes, reports, readers, clock>>

DrainStep(t) ==
    \/ StartDrain(t) \/ Verify(t) \/ Send(t) \/ Acknowledge(t) \/ PushFailed(t)

Next ==
    \/ \E t \in Tabs : \/ \E u \in Units : TurnPage(t, u)
                       \/ \E u \in Users : SignIn(t, u)
                       \/ DrainStep(t) \/ PushTimeout(t)
                       \/ Boot(t) \/ Reload(t) \/ Notice(t)
                       \/ Revoke(t) \/ SignOut(t) \/ LeavePage(t)
    \/ \E r \in reports : ServeReport(r) \/ LoseReport(r)
    \/ \E k \in 1 .. Len(turn) : ReportDone(k) \/ ReportFailed(k)
    \/ \E p \in pushes : ServePush(p) \/ LosePush(p)
    \/ \E b \in Browsers : Expire(b)
    \/ \E u \in Units : RemoveUnit(u)
    \/ RemovePublication

Spec == Init /\ [][Next]_vars

(* The 5 s interval starts drains and the event loop runs them; a server    *)
(* that can be reached serves its requests; a page that loads gets loaded.  *)
Fairness ==
    /\ \A t \in Tabs : /\ WF_vars(DrainStep(t))
                       /\ WF_vars(Boot(t))
                       /\ WF_vars(Notice(t))
                       /\ WF_vars(SignOut(t) \/ LeavePage(t))
    /\ WF_vars(\E p \in pushes : ServePush(p))

FairSpec == Spec /\ Fairness
-----------------------------------------------------------------------------
(* merge_position and latest_position: the one observed last; no two events *)
(* of the model are observed at the same instant.                           *)
Latest(events) == CHOOSE e \in events : \A f \in events : f.at <= e.at

(* Mutant of Position: what came in last is where one is. *)
PositionByArrival(b, u) ==
    LET rows == {r \in journal : r.user = u}
        last == {r \in rows : \A s \in rows : s.commit <= r.commit}
    IN  Latest({r.event : r \in last} \cup outbox[b][u])

(* effective_position: what the server answers, unless an event that waits  *)
(* here is later.                                                           *)
Position(b, u) ==
    LET stored == {r.event : r \in {s \in journal : s.user = u}}
        waiting == outbox[b][u]
    IN  Latest({Latest(events) : events \in {stored, waiting} \ {{}}})
-----------------------------------------------------------------------------
(***************************************************************************)
(* Properties.                                                             *)
(***************************************************************************)

(* No turn is lost: once its report is over, unless the page died while it  *)
(* was pending, a turn of a chapter that still exists is in the journal or  *)
(* waits in local storage, whatever was lost, repeated, refused or          *)
(* acknowledged by another page meanwhile.                                  *)
NothingLost ==
    \A k \in 1 .. Len(turn) :
        (/\ status[k] = "over"
         /\ k \notin dropped
         /\ turn[k].unit \in known)
            => \/ \E r \in journal : r.event.turn = k
               \/ \E e \in outbox[BrowserOf[turn[k].tab]][turn[k].user] : e.turn = k
               \/ \E e \in outbox[BrowserOf[turn[k].tab]][NoUser] : e.turn = k

(* "Events are idempotent by id" (ADR-0002): however often an outbox is     *)
(* pushed, and by however many pages at once, an event has one row.         *)
ReplaysAreHarmless ==
    \A r, s \in journal : Id(r.event) = Id(s.event) => r = s

(* "Offline work belongs to its originating account" (ADR-0003): an event   *)
(* that went through an outbox is credited to the account that was reading. *)
NeverUnderAnother ==
    \A r \in journal : r.event.via = "outbox" => r.user = turn[r.event.turn].user

(* An event says when its position was observed: the offline events of one  *)
(* browser are stamped in the order in which the pages were turned, so that *)
(* the merge rule resumes at the last of them.                              *)
StampedInOrder ==
    \A b \in Browsers, o \in Owners : \A e, f \in outbox[b][o] :
        e.turn < f.turn => e.at < f.at

(* Reading resumes where it ended: once its reports are over, what a        *)
(* browser's reader is shown is the page turned last, in whatever order the *)
(* batches of its pages, their replays and the reports arrived; unless the  *)
(* server served a report after a later turn, which it stamps when it       *)
(* serves it.                                                               *)
ResumesAtLast ==
    \A b \in Browsers, u \in Users :
        LET read == {k \in 1 .. Len(turn) : turn[k].user = u /\ BrowserOf[turn[k].tab] = b}
        IN  (/\ read # {} /\ known = Units
             /\ \A k \in read : status[k] = "over" /\ k \notin dropped
             /\ \A r \in journal, k \in read :
                    r.event.via = "report" /\ r.event.turn < k => r.event.at < turn[k].at)
                => \A k \in read : k <= Position(b, u).turn

(* The journal is the append-only log of ADR-0002.                          *)
Log == INSTANCE ProgressLog
    WITH Facts <- Turns \X {"report", "outbox"},
         Accounts <- Users,
         log <- {[fact |-> Id(r.event), account |-> r.user] : r \in journal}

LogSpec == Log!Spec

(* When people stay signed in and reload no more, an outbox drains, even    *)
(* one with events the server refuses to record.                            *)
OutboxDrains ==
    \A b \in Browsers, u \in Users :
        (<>[](\E t \in Tabs : BrowserOf[t] = b /\ scope[t] = u /\ cookie[b] = u))
            => []<>(outbox[b][u] = {})
=============================================================================
