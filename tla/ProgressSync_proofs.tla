------------------------- MODULE ProgressSync_proofs -------------------------
(***************************************************************************)
(* Theorems about ProgressSync, for any accounts, browsers, pages and      *)
(* chapters and any number of turns and faults.                            *)
(*                                                                         *)
(* The argument: an event is made once, when its turn's report is over, so *)
(* its id determines it wherever it is (outboxes, batches, journal); a     *)
(* page acknowledges a batch only after the server has committed exactly   *)
(* that batch, because the one push it is waiting for carries it.  So      *)
(* every turn is kept somewhere, and where stamps grow with the turns, the *)
(* latest of what is kept is the last one.                                 *)
(***************************************************************************)
EXTENDS ProgressSync, FiniteSetTheorems, WellFoundedInduction, TLAPS

(* An event in local storage, in a page's hands or on the wire. *)
Pending(e) ==
    \/ \E b \in Browsers, o \in Owners : e \in outbox[b][o]
    \/ \E t \in Tabs : e \in pushed[t]
    \/ \E p \in pushes : e \in p.batch

Recorded(k) == \E r \in journal : r.event.turn = k

(* The turns so far are those whose status has been set. *)
TurnsCounted ==
    \A k \in Turns : status[k] = "unread" <=> k > Len(turn)

(* A report that is not over belongs to a page that still runs, for the     *)
(* account that was reading or, while it signs out, for nobody.             *)
ReportersRun ==
    \A k \in 1 .. Len(turn) :
        status[k] # "over" =>
            /\ stage[turn[k].tab] # "boot"
            /\ scope[turn[k].tab] \in {turn[k].user, NoUser}

(* An event is made once, when its report is over. *)
MadeOnce ==
    /\ \A e \in Event : Pending(e) =>
            /\ e.via = "outbox"
            /\ e.turn \in 1 .. Len(turn)
            /\ status[e.turn] = "over"
    /\ \A e, f \in Event : Pending(e) /\ Pending(f) /\ e.turn = f.turn => e = f

(* A report is served once, and is the only source of its row. *)
ServedOnce ==
    /\ \A r \in reports :
            /\ r.turn \in 1 .. Len(turn)
            /\ \A s \in reports : s.turn = r.turn => s = r
            /\ \A j \in journal : Id(j.event) # <<r.turn, "report">>
    /\ \A j \in journal : j.event.turn \in 1 .. Len(turn)

(* What the server has said yes to is in the journal. *)
AnswersAreTrue ==
    /\ \A k \in 1 .. Len(turn) :
            status[k] = "ok" /\ turn[k].unit \in known => Recorded(k)
    /\ \A t \in Tabs : drain[t] = "ok" =>
            \A e \in pushed[t] : turn[e.turn].unit \in known => Recorded(e.turn)

(* A page waits for one push, and that push carries the batch it will       *)
(* acknowledge.                                                             *)
OnePush ==
    /\ \A p \in pushes : ~p.stale =>
            /\ drain[p.tab] = "await"
            /\ p.batch = pushed[p.tab]
            /\ \A q \in pushes : ~q.stale /\ q.tab = p.tab => q = p
    /\ \A t \in Tabs : stage[t] = "boot" => drain[t] = "rest"

Finite ==
    /\ \A b \in Browsers, o \in Owners : IsFiniteSet(outbox[b][o])
    /\ \A t \in Tabs : IsFiniteSet(pushed[t])

IndInv ==
    /\ TypeOK /\ TurnsCounted /\ ReportersRun /\ MadeOnce /\ ServedOnce
    /\ AnswersAreTrue /\ OnePush /\ Finite /\ NothingLost /\ ReplaysAreHarmless

(* With one page per browser. *)
OnePage == \A t, v \in Tabs : BrowserOf[t] = BrowserOf[v] => t = v

(* An outbox holds the work of its account; a push carries its session or   *)
(* none; and the session of a page that is past its verification is the one *)
(* it verified, or has ended.                                               *)
OwnWork ==
    /\ \A b \in Browsers, u \in Users : \A e \in outbox[b][u] : turn[e.turn].user = u
    /\ \A p \in pushes :
            /\ p.user \in {p.owner, NoUser}
            /\ \A e \in p.batch : turn[e.turn].user = p.owner
    /\ \A t \in Tabs : drain[t] \notin {"rest", "verify"} /\ Active(t) =>
            cookie[BrowserOf[t]] \in {scope[t], NoUser}
    /\ NeverUnderAnother
-----------------------------------------------------------------------------
USE DEF FaultKinds, Turns, Owners

(* Counting a fault keeps the counters' type. *)
LEMMA FaultType ==
    ASSUME TypeOK, NEW kind \in FaultKinds, Fault(kind)
    PROVE  spent' \in [FaultKinds -> Nat]
BY DEF TypeOK, Fault

(* A push nobody waits for any longer is still a push. *)
LEMMA GivenUpType ==
    ASSUME pushes \subseteq Push, NEW t \in Tabs
    PROVE  GivenUp(t) \subseteq Push
<1>1. ASSUME NEW p \in pushes
      PROVE  (IF p.tab = t THEN [p EXCEPT !.stale = TRUE] ELSE p) \in Push
  BY <1>1 DEF Push
<1>2. QED
  BY <1>1 DEF GivenUp

(* An unloaded page's tasks are gone. *)
LEMMA UnloadType ==
    ASSUME TypeOK, NEW t \in Tabs, NEW next \in {"boot", "use", "revoked", "left"},
           Unload(t, next)
    PROVE  /\ stage' \in [Tabs -> {"boot", "use", "revoked", "left"}]
           /\ drain' \in [Tabs -> {"rest", "verify", "ready", "await", "ok", "413", "error"}]
           /\ limit' \in [Tabs -> Nat \ {0}]
           /\ pushed' \in [Tabs -> SUBSET Event]
           /\ pushes' \subseteq Push
           /\ status' \in [Turns -> Status]
           /\ dropped' \subseteq Turns
<1>1. pushes' \subseteq Push
  BY GivenUpType DEF TypeOK, Unload
<1> USE LimitAssumption DEF TypeOK, Unload, Rest, GoTo
<1>2. Len(turn) \in Nat /\ DOMAIN turn = 1 .. Len(turn)
  OBVIOUS
<1>3. stage' \in [Tabs -> {"boot", "use", "revoked", "left"}]
  OBVIOUS
<1>4. status' \in [Turns -> Status]
  BY DEF Status
<1>5. dropped' \subseteq Turns
  <2>1. 1 .. Len(turn) \subseteq Turns
    BY <1>2, BoundAssumption
  <2>2. QED
    BY <2>1
<1>6. /\ drain' \in [Tabs -> {"rest", "verify", "ready", "await", "ok", "413", "error"}]
      /\ limit' \in [Tabs -> Nat \ {0}]
      /\ pushed' \in [Tabs -> SUBSET Event]
  OBVIOUS
<1>7. QED
  BY <1>1, <1>3, <1>4, <1>5, <1>6

(* What may be told about another owner. *)
LEMMA SetOwnerType ==
    ASSUME TypeOK, NEW t \in Tabs, NEW user \in Owners, SetOwner(t, user)
    PROVE  /\ owner' \in [Browsers -> Owners]
           /\ notice' \in [Tabs -> BOOLEAN]
<1>1. owner' \in [Browsers -> Owners]
  BY BrowserAssumption DEF TypeOK, SetOwner, Browser
<1>2. notice' \in [Tabs -> BOOLEAN]
  BY Zenon DEF SetOwner
<1>3. QED
  BY <1>1, <1>2

(* A page reads and writes one outbox, of events.                            *)
LEMMA OutboxType ==
    ASSUME TypeOK, NEW t \in Tabs
    PROVE  /\ Outbox(t) \subseteq Event
           /\ \A events \in SUBSET Event : SetOutbox(t, events) =>
                outbox' \in [Browsers -> [Owners -> SUBSET Event]]
<1>1. BrowserOf[t] \in Browsers /\ scope[t] \in Owners
  BY BrowserAssumption DEF TypeOK
<1>2. outbox \in [Browsers -> [Owners -> SUBSET Event]]
  BY DEF TypeOK
<1>3. Outbox(t) \subseteq Event
  BY <1>1, <1>2 DEF Outbox, Browser
<1>4. ASSUME NEW events \in SUBSET Event, SetOutbox(t, events)
      PROVE  outbox' \in [Browsers -> [Owners -> SUBSET Event]]
  BY <1>1, <1>2, <1>4 DEF SetOutbox, Browser
<1>5. QED
  BY <1>3, <1>4

(* The reading and reporting actions keep the types. *)
LEMMA ReadingType ==
    ASSUME TypeOK,
           \/ \E t \in Tabs, u \in Units : TurnPage(t, u)
           \/ \E r \in reports : ServeReport(r) \/ LoseReport(r)
           \/ \E k \in 1 .. Len(turn) : ReportDone(k) \/ ReportFailed(k)
    PROVE  TypeOK'
<1> USE BoundAssumption
<1>1. ASSUME NEW t \in Tabs, NEW u \in Units, TurnPage(t, u)
      PROVE  TypeOK'
  <2> DEFINE k == Len(turn) + 1
  <2>1. k \in Turns /\ clock' = clock + 1 /\ clock' \in Nat
    BY <1>1 DEF TurnPage, TypeOK
  <2>2. scope[t] \in Users
    BY <1>1 DEF TurnPage, Active, TypeOK
  <2>3. [tab |-> t, user |-> scope[t], unit |-> u, at |-> clock'] \in Turn
    BY <2>1, <2>2 DEF Turn
  <2>4. turn' \in Seq(Turn) /\ Len(turn') <= MaxTurns
    BY <1>1, <2>1, <2>3 DEF TurnPage, TypeOK
  <2>5. reports' \subseteq Report
    BY <1>1, <2>1, BrowserAssumption, SMTT(30) DEF TurnPage, TypeOK, Report, Browser
  <2>6. status' \in [Turns -> Status]
    BY <1>1, <2>1 DEF TurnPage, TypeOK, Status
  <2>7. QED
    BY <1>1, <2>1, <2>4, <2>5, <2>6
    DEF TurnPage, TypeOK, server, storage, pages, drains
<1>2. ASSUME NEW r \in reports, ServeReport(r)
      PROVE  TypeOK'
  <2> DEFINE event == [turn |-> r.turn, via |-> "report", at |-> clock + 1]
  <2>1. r \in Report /\ r.turn \in Turns /\ r.user \in Owners
    BY DEF TypeOK, Report
  <2>2. event \in Event
    BY <2>1 DEF TypeOK, Event
  <2>3. r.user # NoUser => [event |-> event, user |-> r.user, commit |-> commits + 1] \in Row
    BY <2>1, <2>2 DEF TypeOK, Row
  <2> DEFINE accepted == r.user # NoUser /\ turn[r.turn].unit \in known
             answer == IF accepted THEN "ok" ELSE "refused"
  <2>4. journal \subseteq Row /\ commits \in Nat /\ clock \in Nat /\ status \in [Turns -> Status]
    BY DEF TypeOK
  <2>5. \/ accepted
           /\ journal' = journal \cup {[event |-> event, user |-> r.user, commit |-> commits + 1]}
           /\ commits' = commits + 1 /\ clock' = clock + 1
        \/ UNCHANGED <<journal, commits, clock>>
    BY <1>2 DEF ServeReport
  <2>6. accepted => r.user # NoUser
    OBVIOUS
  <2> HIDE DEF event, accepted
  <2>7. /\ journal' \subseteq Row
        /\ commits' \in Nat /\ clock' \in Nat
    BY <2>3, <2>4, <2>5, <2>6
  <2>8. status' \in [Turns -> Status]
    <3>1. status' = [status EXCEPT ![r.turn] = answer] \/ status' = status
      BY <1>2 DEF ServeReport, accepted
    <3>2. answer \in Status
      BY DEF Status
    <3> HIDE DEF answer
    <3>3. QED
      BY <3>1, <3>2, <2>1, <2>4
  <2>9. QED
    BY <1>2, <2>7, <2>8 DEF ServeReport, TypeOK, storage, pages, drains
<1>3. ASSUME NEW r \in reports, LoseReport(r)
      PROVE  TypeOK'
  BY <1>3 DEF LoseReport, TypeOK, server, storage, pages, drains, readers
<1>4. ASSUME NEW k \in 1 .. Len(turn), ReportDone(k)
      PROVE  TypeOK'
  <2>1. status' \in [Turns -> Status]
    BY <1>4 DEF ReportDone, TypeOK, Status
  <2>2. QED
    BY <1>4, <2>1 DEF ReportDone, TypeOK, server, storage, pages, drains
<1>5. ASSUME NEW k \in 1 .. Len(turn), ReportFailed(k)
      PROVE  TypeOK'
  <2> DEFINE t == turn[k].tab
             event == [turn |-> k, via |-> "outbox",
                       at |-> IF StampLate(k) THEN clock + 1 ELSE turn[k].at]
  <2>1. k \in Turns /\ turn[k] \in Turn
    BY DEF TypeOK
  <2>2. t \in Tabs /\ event \in Event
    <3>1. turn[k].at \in Nat /\ t \in Tabs
      BY <2>1 DEF Turn
    <3>2. (IF StampLate(k) THEN clock + 1 ELSE turn[k].at) \in Nat
      BY <3>1 DEF TypeOK
    <3>3. QED
      BY <2>1, <3>1, <3>2 DEF Event
  <2>3. outbox' \in [Browsers -> [Owners -> SUBSET Event]]
    <3>1. SetOutbox(t, Outbox(t) \cup {event})
      BY <1>5 DEF ReportFailed
    <3>2. Outbox(t) \cup {event} \in SUBSET Event
      BY <2>2, OutboxType
    <3>3. QED
      BY <2>2, <3>1, <3>2, OutboxType
  <2>4. spent' \in [FaultKinds -> Nat]
    BY <1>5, FaultType DEF ReportFailed, TypeOK
  <2>5. status' \in [Turns -> Status] /\ clock' \in Nat
    BY <1>5, <2>1 DEF ReportFailed, TypeOK, Status
  <2>6. QED
    BY <1>5, <2>3, <2>4, <2>5 DEF ReportFailed, TypeOK, server, pages, drains
<1>6. QED
  BY <1>1, <1>2, <1>3, <1>4, <1>5

(* The batch a drain takes is finite, so that half of it is a number. *)
LEMMA HalvedType ==
    ASSUME NEW batch, IsFiniteSet(batch)
    PROVE  Halved(Cardinality(batch)) \in Nat \ {0}
<1>1. Cardinality(batch) \in Nat
  BY FS_CardinalityType
<1>2. Cardinality(batch) \div 2 \in Nat
  BY <1>1
<1>3. QED
  BY <1>2 DEF Halved

(* The steps of a drain keep the types. *)
LEMMA DrainType ==
    ASSUME TypeOK, Finite, NEW t \in Tabs,
           DrainStep(t) \/ PushTimeout(t)
    PROVE  TypeOK'
<1> DEFINE Places == {"rest", "verify", "ready", "await", "ok", "413", "error"}
<1>1. CASE StartDrain(t)
  BY <1>1 DEF StartDrain, TypeOK, GoTo, server, storage, pages, readers
<1>2. CASE Verify(t)
  <2>1. cookie[Browser(t)] \in Owners
    BY BrowserAssumption DEF TypeOK, Browser
  <2>2. /\ owner' \in [Browsers -> Owners]
        /\ notice' \in [Tabs -> BOOLEAN]
    BY <1>2, <2>1, SetOwnerType DEF Verify, TypeOK
  <2>3. /\ stage' \in [Tabs -> {"boot", "use", "revoked", "left"}]
        /\ pushes' \subseteq Push
        /\ status' \in [Turns -> Status]
        /\ dropped' \subseteq Turns
    BY <1>2, UnloadType DEF Verify, TypeOK
  <2>4. drain' \in [Tabs -> Places] /\ limit' \in [Tabs -> Nat \ {0}]
        /\ pushed' \in [Tabs -> SUBSET Event]
    <3>1. Rest(t) \/ Unload(t, "boot") \/ (GoTo(t, "ready") /\ UNCHANGED <<limit, pushed>>)
      BY <1>2 DEF Verify
    <3>2. CASE Rest(t)
      BY <3>2, LimitAssumption DEF Rest, GoTo, TypeOK
    <3>3. CASE Unload(t, "boot")
      BY <3>3, UnloadType
    <3>4. CASE GoTo(t, "ready") /\ UNCHANGED <<limit, pushed>>
      BY <3>4 DEF GoTo, TypeOK
    <3>5. QED
      BY <3>1, <3>2, <3>3, <3>4
  <2>5. spent' \in [FaultKinds -> Nat]
    BY <1>2, FaultType DEF Verify, TypeOK
  <2>6. QED
    BY <1>2, <2>2, <2>3, <2>4, <2>5 DEF Verify, TypeOK, server
<1>3. CASE Send(t)
  <2>1. CASE Rest(t) /\ UNCHANGED pushes
    BY <1>3, <2>1, LimitAssumption DEF Send, Rest, GoTo, TypeOK, server, storage, pages, readers
  <2>2. ASSUME NEW batch \in SUBSET Outbox(t), Active(t),
               pushed' = [pushed EXCEPT ![t] = batch],
               pushes' = pushes \cup
                  {[tab |-> t, owner |-> scope[t], user |-> cookie[Browser(t)],
                    batch |-> batch, stale |-> FALSE]},
               GoTo(t, "await"), UNCHANGED limit
        PROVE  TypeOK'
    <3>1. batch \in SUBSET Event
      BY <2>2, OutboxType
    <3>2. scope[t] \in Users /\ cookie[Browser(t)] \in Owners
      BY <2>2, BrowserAssumption DEF TypeOK, Active, Browser
    <3>3. [tab |-> t, owner |-> scope[t], user |-> cookie[Browser(t)],
           batch |-> batch, stale |-> FALSE] \in Push
      BY <3>1, <3>2 DEF Push
    <3>4. pushes' \subseteq Push
      BY <2>2, <3>3 DEF TypeOK
    <3>5. drain' \in [Tabs -> Places] /\ pushed' \in [Tabs -> SUBSET Event]
      BY <2>2, <3>1 DEF TypeOK, GoTo
    <3>6. QED
      BY <1>3, <2>2, <3>4, <3>5 DEF Send, TypeOK, server, storage, pages, readers
  <2>3. QED
    BY <1>3, <2>1, <2>2 DEF Send
<1>4. CASE Acknowledge(t)
  <2>1. CASE SetOutbox(t, Remaining(t)) /\ GoTo(t, "ready") /\ UNCHANGED <<limit, pushed>>
    <3>1. Remaining(t) \in SUBSET Event
      BY OutboxType DEF Remaining
    <3>2. outbox' \in [Browsers -> [Owners -> SUBSET Event]]
      BY <2>1, <3>1, OutboxType
    <3>3. drain' \in [Tabs -> Places]
      BY <2>1 DEF GoTo, TypeOK
    <3>4. QED
      BY <1>4, <2>1, <3>2, <3>3 DEF Acknowledge, TypeOK, server, pages, readers
  <2>2. CASE Rest(t) /\ UNCHANGED outbox
    BY <1>4, <2>2, LimitAssumption
    DEF Acknowledge, Rest, GoTo, TypeOK, server, pages, readers
  <2>3. QED
    BY <1>4, <2>1, <2>2 DEF Acknowledge
<1>5. CASE PushFailed(t)
  <2>1. CASE limit' = [limit EXCEPT ![t] = Halved(Cardinality(pushed[t]))]
             /\ GoTo(t, "ready") /\ UNCHANGED pushed
    <3>1. Halved(Cardinality(pushed[t])) \in Nat \ {0}
      BY HalvedType DEF Finite
    <3>2. limit' \in [Tabs -> Nat \ {0}]
      BY <2>1, <3>1 DEF TypeOK
    <3>3. QED
      BY <1>5, <2>1, <3>2 DEF PushFailed, GoTo, TypeOK, server, storage, pages, readers
  <2>2. CASE Rest(t)
    BY <1>5, <2>2, LimitAssumption
    DEF PushFailed, Rest, GoTo, TypeOK, server, storage, pages, readers
  <2>3. QED
    BY <1>5, <2>1, <2>2 DEF PushFailed
<1>6. CASE PushTimeout(t)
  <2>1. spent' \in [FaultKinds -> Nat]
    BY <1>6, FaultType DEF PushTimeout
  <2>3. pushes' \subseteq Push
    BY <1>6, GivenUpType DEF TypeOK, PushTimeout
  <2>4. QED
    BY <1>6, <2>1, <2>3, LimitAssumption
    DEF PushTimeout, Rest, GoTo, TypeOK, server, storage, pages, readers
<1>7. QED
  BY <1>1, <1>2, <1>3, <1>4, <1>5, <1>6 DEF DrainStep

(* Serving a push keeps the types. *)
LEMMA PushType ==
    ASSUME TypeOK, NEW p \in pushes, ServePush(p) \/ LosePush(p)
    PROVE  TypeOK'
<1>1. CASE ServePush(p)
  <2>1. p \in Push /\ p.tab \in Tabs /\ p.batch \subseteq Event
    BY DEF TypeOK, Push
  <2>2. NewRows(p.batch, p.user) \subseteq Row \/ p.user = NoUser
    <3>1. ASSUME p.user # NoUser, NEW e \in p.batch
          PROVE  [event |-> e, user |-> p.user, commit |-> commits + 1] \in Row
      BY <2>1, <3>1 DEF TypeOK, Push, Row
    <3>2. journal \subseteq Row
      BY DEF TypeOK
    <3>3. QED
      BY <3>1, <3>2 DEF NewRows
  <2>3. \/ UNCHANGED <<journal, commits>>
        \/ /\ p.user # NoUser
           /\ journal' = NewRows(p.batch, p.user)
           /\ commits' = IF journal' = journal THEN commits ELSE commits + 1
    BY <1>1 DEF ServePush, Refused
  <2>4. journal' \subseteq Row /\ commits' \in Nat
    BY <2>2, <2>3 DEF TypeOK
  <2>5. drain' = drain \/ \E answer \in {"error", "413", "ok"} : GoTo(p.tab, answer)
    BY <1>1 DEF ServePush
  <2>6. drain' \in [Tabs -> {"rest", "verify", "ready", "await", "ok", "413", "error"}]
    BY <2>1, <2>5 DEF GoTo, TypeOK
  <2>7. QED
    BY <1>1, <2>4, <2>6 DEF ServePush, TypeOK, storage, pages, readers
<1>2. CASE LosePush(p)
  BY <1>2 DEF LosePush, TypeOK, server, storage, pages, drains, readers
<1>3. QED
  BY <1>1, <1>2

(* Loading, leaving and signing in and out keep the types. *)
LEMMA PageType ==
    ASSUME TypeOK, NEW t \in Tabs,
           \/ Boot(t) \/ Reload(t) \/ Notice(t) \/ Revoke(t) \/ SignOut(t) \/ LeavePage(t)
           \/ \E u \in Users : SignIn(t, u)
    PROVE  TypeOK'
<1>1. Browser(t) \in Browsers
  BY BrowserAssumption DEF Browser
<1>2. CASE Boot(t)
  <2>1. CASE SetOwner(t, cookie[Browser(t)]) /\ scope' = [scope EXCEPT ![t] = cookie[Browser(t)]]
             /\ UNCHANGED spent
    <3>1. cookie[Browser(t)] \in Owners
      BY <1>1 DEF TypeOK
    <3>2. owner' \in [Browsers -> Owners] /\ notice' \in [Tabs -> BOOLEAN]
      BY <2>1, <3>1, SetOwnerType
    <3>3. QED
      BY <1>2, <2>1, <3>1, <3>2 DEF Boot, TypeOK, server, drains, readers
  <2>2. CASE Fault("net") /\ scope' = [scope EXCEPT ![t] = owner[Browser(t)]]
             /\ notice' = [notice EXCEPT ![t] = FALSE] /\ UNCHANGED owner
    <3>1. owner[Browser(t)] \in Owners
      BY <1>1 DEF TypeOK
    <3>2. spent' \in [FaultKinds -> Nat]
      BY <2>2, FaultType
    <3>3. QED
      BY <1>2, <2>2, <3>1, <3>2 DEF Boot, TypeOK, server, drains, readers
  <2>3. QED
    BY <1>2, <2>1, <2>2 DEF Boot
<1>3. CASE Reload(t)
  <2>1. spent' \in [FaultKinds -> Nat]
    BY <1>3, FaultType DEF Reload
  <2>2. QED
    BY <1>3, <2>1, UnloadType DEF Reload, TypeOK, server, storage
<1>4. CASE Notice(t)
  BY <1>4, UnloadType DEF Notice, TypeOK, server, storage
<1>5. CASE Revoke(t)
  <2>1. spent' \in [FaultKinds -> Nat]
    BY <1>5, FaultType DEF Revoke
  <2>2. QED
    BY <1>1, <1>5, <2>1 DEF Revoke, TypeOK, server, drains, readers
<1>6. CASE SignOut(t)
  <2>1. owner' \in [Browsers -> Owners] /\ notice' \in [Tabs -> BOOLEAN]
    BY <1>6, SetOwnerType DEF SignOut
  <2>2. QED
    BY <1>6, <2>1 DEF SignOut, TypeOK, server, drains, readers
<1>7. CASE LeavePage(t)
  BY <1>7, UnloadType DEF LeavePage, TypeOK, server, storage
<1>8. ASSUME NEW u \in Users, SignIn(t, u)
      PROVE  TypeOK'
  BY <1>1, <1>8, UnloadType DEF SignIn, TypeOK, server
<1>9. QED
  BY <1>2, <1>3, <1>4, <1>5, <1>6, <1>7, <1>8

(* Every step keeps the types. *)
LEMMA TypeStep ==
    ASSUME TypeOK, Finite, [Next]_vars
    PROVE  TypeOK'
<1>1. ASSUME NEW b \in Browsers, Expire(b)
      PROVE  TypeOK'
  <2>1. spent' \in [FaultKinds -> Nat]
    BY <1>1, FaultType DEF Expire
  <2>2. QED
    BY <1>1, <2>1 DEF Expire, TypeOK, server, pages, drains, readers
<1>2. ASSUME NEW u \in Units, RemoveUnit(u)
      PROVE  TypeOK'
  <2>1. spent' \in [FaultKinds -> Nat]
    BY <1>2, FaultType DEF RemoveUnit
  <2>2. QED
    BY <1>2, <2>1 DEF RemoveUnit, TypeOK, storage, pages, drains, readers
<1>3. CASE RemovePublication
  <2>1. spent' \in [FaultKinds -> Nat]
    BY <1>3, FaultType DEF RemovePublication
  <2>2. QED
    BY <1>3, <2>1 DEF RemovePublication, TypeOK, storage, pages, drains, readers
<1>4. CASE UNCHANGED vars
  BY <1>4 DEF vars, TypeOK, server, storage, pages, drains, readers
<1>5. QED
  BY <1>1, <1>2, <1>3, <1>4, ReadingType, DrainType, PushType, PageType DEF Next
-----------------------------------------------------------------------------
(* A page unloads, whatever made it. *)
Unloading(t) ==
    /\ Unload(t, "boot")
    /\ UNCHANGED <<server, outbox, scope, reports, turn, clock>>

(* Only pages, accounts and drains move. *)
Quiet == UNCHANGED <<server, outbox, reports, readers, clock>>

(* Every step is one that concerns turns, events and rows, or quiet. *)
LEMMA Kinds ==
    ASSUME [Next]_vars
    PROVE  \/ \E t \in Tabs, u \in Units : TurnPage(t, u)
           \/ \E r \in reports : ServeReport(r) \/ LoseReport(r)
           \/ \E k \in 1 .. Len(turn) : ReportDone(k) \/ ReportFailed(k)
           \/ \E t \in Tabs : Acknowledge(t) \/ Unloading(t)
           \/ \E p \in pushes : ServePush(p)
           \/ \E u \in Units : RemoveUnit(u)
           \/ RemovePublication
           \/ Quiet
<1> USE DEF server, storage, pages, drains, readers, vars
<1>1. ASSUME NEW t \in Tabs, StartDrain(t) \/ Send(t) \/ PushFailed(t) \/ PushTimeout(t)
      PROVE  Quiet
  BY <1>1 DEF StartDrain, Send, PushFailed, PushTimeout, Quiet
<1>2. ASSUME NEW t \in Tabs, Verify(t)
      PROVE  Quiet \/ Unloading(t)
  BY <1>2 DEF Verify, Quiet, Unloading
<1>3. ASSUME NEW t \in Tabs, Reload(t) \/ Notice(t) \/ LeavePage(t)
      PROVE  Unloading(t)
  BY <1>3 DEF Reload, Notice, LeavePage, Unloading
<1>4. ASSUME NEW t \in Tabs, NEW u \in Users, SignIn(t, u)
      PROVE  Unloading(t)
  BY <1>4 DEF SignIn, Unloading
<1>5. ASSUME NEW t \in Tabs, Boot(t) \/ Revoke(t) \/ SignOut(t)
      PROVE  Quiet
  BY <1>5 DEF Boot, Revoke, SignOut, Quiet
<1>6. ASSUME NEW b \in Browsers, Expire(b)
      PROVE  Quiet
  BY <1>6 DEF Expire, Quiet
<1>7. ASSUME NEW p \in pushes, LosePush(p)
      PROVE  Quiet
  BY <1>7 DEF LosePush, Quiet
<1>8. CASE UNCHANGED vars
  BY <1>8 DEF Quiet
<1>9. QED
  BY <1>1, <1>2, <1>3, <1>4, <1>5, <1>6, <1>7, <1>8 DEF Next, DrainStep

(* What a step does to the turns: it adds one, which is waiting, or moves   *)
(* the status of some that are not over, or nothing.                        *)
LEMMA StatusStep ==
    ASSUME TypeOK, TurnsCounted, ServedOnce, [Next]_vars
    PROVE  /\ \/ turn' = turn
              \/ \E entry \in Turn :
                    /\ turn' = Append(turn, entry)
                    /\ Len(turn) + 1 \in Turns
                    /\ status' = [status EXCEPT ![Len(turn) + 1] = "waiting"]
           /\ \A k \in 1 .. Len(turn) :
                /\ status[k] = "over" => status'[k] = "over"
                /\ status'[k] # "unread"
           /\ turn' = turn => \A k \in Turns : k > Len(turn) => status'[k] = status[k]
<1> USE BoundAssumption DEF readers
<1>0. /\ Len(turn) \in Nat /\ 1 .. Len(turn) \subseteq Turns
      /\ status \in [Turns -> Status] /\ turn \in Seq(Turn)
      /\ \A k \in Turns : status[k] = "unread" <=> k > Len(turn)
  BY DEF TypeOK, TurnsCounted
<1>1. ASSUME NEW t \in Tabs, NEW u \in Units, TurnPage(t, u)
      PROVE  /\ \E entry \in Turn :
                    /\ turn' = Append(turn, entry)
                    /\ Len(turn) + 1 \in Turns
                    /\ status' = [status EXCEPT ![Len(turn) + 1] = "waiting"]
             /\ turn' # turn
  <2>1. [tab |-> t, user |-> scope[t], unit |-> u, at |-> clock'] \in Turn
    BY <1>1 DEF TurnPage, Active, TypeOK, Turn
  <2>2. QED
    BY <1>0, <1>1, <2>1 DEF TurnPage
<1>2. ASSUME NEW r \in reports, ServeReport(r)
      PROVE  /\ turn' = turn
             /\ r.turn \in 1 .. Len(turn)
             /\ \/ status' = status
                \/ /\ status[r.turn] = "waiting"
                   /\ \E answer \in {"ok", "refused"} :
                        status' = [status EXCEPT ![r.turn] = answer]
  BY <1>2 DEF ServeReport, ServedOnce
<1>3. ASSUME NEW k \in 1 .. Len(turn), ReportDone(k) \/ ReportFailed(k)
      PROVE  turn' = turn /\ status' = [status EXCEPT ![k] = "over"]
  BY <1>3 DEF ReportDone, ReportFailed
<1>4. ASSUME NEW t \in Tabs, Unloading(t)
      PROVE  /\ turn' = turn
             /\ \A k \in Turns : status'[k] = status[k] \/ (k \in 1 .. Len(turn) /\ status'[k] = "over")
  BY <1>4 DEF Unloading, Unload
<1>5. ASSUME \/ \E r \in reports : LoseReport(r)
             \/ \E t \in Tabs : Acknowledge(t)
             \/ \E p \in pushes : ServePush(p)
             \/ \E u \in Units : RemoveUnit(u)
             \/ RemovePublication
             \/ Quiet
      PROVE  turn' = turn /\ status' = status
  BY <1>5 DEF LoseReport, Acknowledge, ServePush, RemoveUnit, RemovePublication, Quiet
<1>6. CASE \E t \in Tabs, u \in Units : TurnPage(t, u)
  BY <1>0, <1>1, <1>6
<1>7. CASE \E r \in reports : ServeReport(r)
  <2>1. PICK r \in reports : ServeReport(r)
    BY <1>7
  <2>2. turn' = turn /\ r.turn \in Turns /\ r.turn \in 1 .. Len(turn)
    BY <1>0, <1>2, <2>1
  <2>3. CASE status' = status
    BY <1>0, <2>2, <2>3
  <2>4. ASSUME NEW answer \in {"ok", "refused"}, status[r.turn] = "waiting",
               status' = [status EXCEPT ![r.turn] = answer]
        PROVE  \A k \in Turns : \/ status'[k] = status[k]
                                \/ k = r.turn /\ status'[k] = answer
    BY <1>0, <2>2, <2>4
  <2>5. CASE /\ status[r.turn] = "waiting"
             /\ \E answer \in {"ok", "refused"} :
                   status' = [status EXCEPT ![r.turn] = answer]
    <3>1. PICK answer \in {"ok", "refused"} :
                 status' = [status EXCEPT ![r.turn] = answer]
      BY <2>5
    <3>2. \A k \in Turns : \/ status'[k] = status[k]
                           \/ k = r.turn /\ status'[k] = answer
      BY <2>4, <2>5, <3>1
    <3>3. \A k \in 1 .. Len(turn) : /\ status[k] = "over" => status'[k] = "over"
                                    /\ status'[k] # "unread"
      <4>1. \A k \in 1 .. Len(turn) : k \in Turns /\ status[k] # "unread"
        BY <1>0
      <4>2. QED
        BY <2>5, <3>2, <4>1
    <3>4. \A k \in Turns : k > Len(turn) => status'[k] = status[k]
      BY <1>0, <2>2, <3>2
    <3>5. QED
      BY <2>2, <3>3, <3>4
  <2>6. \/ status' = status
        \/ /\ status[r.turn] = "waiting"
           /\ \E answer \in {"ok", "refused"} :
                 status' = [status EXCEPT ![r.turn] = answer]
    BY <1>2, <2>1
  <2>7. QED
    BY <2>3, <2>5, <2>6
<1>8. CASE \E k \in 1 .. Len(turn) : ReportDone(k) \/ ReportFailed(k)
  <2>1. PICK k \in 1 .. Len(turn) : ReportDone(k) \/ ReportFailed(k)
    BY <1>8
  <2>2. turn' = turn /\ status' = [status EXCEPT ![k] = "over"]
    BY <1>3, <2>1
  <2>3. k \in Turns
    BY <1>0
  <2>4. \A j \in Turns : status'[j] = IF j = k THEN "over" ELSE status[j]
    BY <1>0, <2>2, <2>3
  <2>5. QED
    BY <1>0, <2>2, <2>4, SMTT(30)
<1>9. CASE \E t \in Tabs : Unloading(t)
  BY <1>0, <1>4, <1>9
<1>10. CASE turn' = turn /\ status' = status
  BY <1>0, <1>10
<1>11. QED
  BY Kinds, <1>5, <1>6, <1>7, <1>8, <1>9, <1>10

(* A turn's status is set when the turn is counted, and not before. *)
LEMMA TurnsCountedStep ==
    ASSUME TypeOK, TurnsCounted, ServedOnce, [Next]_vars
    PROVE  TurnsCounted'
<1>1. CASE turn' = turn
  <2>1. Len(turn) \in Nat
    BY DEF TypeOK
  <2>2. ASSUME NEW k \in Turns
        PROVE  k > Len(turn) \/ k \in 1 .. Len(turn)
    BY <2>1, BoundAssumption
  <2>3. \A k \in Turns : status'[k] = "unread" <=> k > Len(turn)
    BY <1>1, <2>1, <2>2, StatusStep DEF TurnsCounted
  <2>4. QED
    BY <1>1, <2>3 DEF TurnsCounted
<1>2. ASSUME NEW entry \in Turn, turn' = Append(turn, entry),
             Len(turn) + 1 \in Turns,
             status' = [status EXCEPT ![Len(turn) + 1] = "waiting"]
      PROVE  TurnsCounted'
  <2>1. Len(turn') = Len(turn) + 1 /\ Len(turn) \in Nat
    BY <1>2 DEF TypeOK
  <2>2. QED
    BY <1>2, <2>1, BoundAssumption DEF TurnsCounted, TypeOK
<1>3. QED
  BY <1>1, <1>2, StatusStep

(* The turns so far stay what they are. *)
LEMMA TurnsStay ==
    ASSUME TypeOK, TurnsCounted, ServedOnce, [Next]_vars
    PROVE  /\ Len(turn) \in Nat /\ Len(turn') \in Nat /\ Len(turn) <= Len(turn')
           /\ 1 .. Len(turn) \subseteq Turns
           /\ \A k \in 1 .. Len(turn) : turn'[k] = turn[k] /\ turn[k] \in Turn
<1>1. Len(turn) \in Nat /\ turn \in Seq(Turn) /\ 1 .. Len(turn) \subseteq Turns
  BY BoundAssumption DEF TypeOK
<1>2. CASE turn' = turn
  BY <1>1, <1>2
<1>3. ASSUME NEW entry \in Turn, turn' = Append(turn, entry)
      PROVE  /\ Len(turn') = Len(turn) + 1
             /\ \A k \in 1 .. Len(turn) : turn'[k] = turn[k] /\ turn[k] \in Turn
  BY <1>1, <1>3
<1>4. QED
  BY <1>1, <1>2, <1>3, StatusStep

(* Where the page of a pending report is: nothing takes it back to loading  *)
(* but an unloading that ends the report, and it changes account only to    *)
(* nobody's.                                                                *)
LEMMA ReportersRunStep ==
    ASSUME TypeOK, TurnsCounted, ReportersRun, ServedOnce, [Next]_vars
    PROVE  ReportersRun'
<1> DEFINE Runs(k) ==
       status[k] # "over" =>
            /\ stage[turn[k].tab] # "boot"
            /\ scope[turn[k].tab] \in {turn[k].user, NoUser}
<1> USE DEF readers, pages
<1>1. /\ Len(turn) \in Nat
      /\ \A k \in 1 .. Len(turn) : turn'[k] = turn[k] /\ turn[k].tab \in Tabs
      /\ \A k \in 1 .. Len(turn) : status[k] = "over" => status'[k] = "over"
      /\ stage \in [Tabs -> {"boot", "use", "revoked", "left"}] /\ scope \in [Tabs -> Owners]
  BY TurnsStay, StatusStep DEF TypeOK, Turn
<1>2. ASSUME NEW t \in Tabs, NEW u \in Units, TurnPage(t, u)
      PROVE  ReportersRun'
  <2>1. /\ stage' = stage /\ scope' = scope /\ stage[t] # "boot"
        /\ Len(turn') = Len(turn) + 1
        /\ turn'[Len(turn')] = [tab |-> t, user |-> scope[t], unit |-> u, at |-> clock']
    BY <1>2 DEF TurnPage, Active, TypeOK
  <2>2. ASSUME NEW k \in 1 .. Len(turn')
        PROVE  Runs(k)'
    <3>1. CASE k = Len(turn')
      BY <2>1, <3>1
    <3>2. CASE k # Len(turn')
      <4>1. k \in 1 .. Len(turn)
        BY <1>1, <2>1, <3>2
      <4>2. QED
        BY <1>1, <2>1, <4>1 DEF ReportersRun
    <3>3. QED
      BY <3>1, <3>2
  <2>3. QED
    BY <2>2 DEF ReportersRun
<1>3. ASSUME turn' = turn,
             \A k \in 1 .. Len(turn) : status'[k] # "over" =>
                /\ stage[turn[k].tab] # "boot" => stage'[turn[k].tab] # "boot"
                /\ scope'[turn[k].tab] \in {scope[turn[k].tab], NoUser}
                     \/ stage[turn[k].tab] = "boot"
      PROVE  ReportersRun'
  BY <1>1, <1>3 DEF ReportersRun
<1>4. ASSUME NEW t \in Tabs, Unload(t, "boot"), scope' = scope, turn' = turn
      PROVE  ReportersRun'
  <2>1. ASSUME NEW k \in 1 .. Len(turn), status'[k] # "over"
        PROVE  turn[k].tab # t
    <3>1. k \in Turns
      BY TurnsStay
    <3>2. QED
      BY <1>1, <1>4, <2>1, <3>1 DEF Unload
  <2>2. QED
    BY <1>1, <1>3, <1>4, <2>1 DEF Unload
<1>5. ASSUME NEW t \in Tabs, Boot(t) \/ Revoke(t) \/ SignOut(t)
      PROVE  ReportersRun'
  BY <1>1, <1>3, <1>5 DEF Boot, Revoke, SignOut
<1>6. ASSUME turn' = turn, stage' = stage, scope' = scope
      PROVE  ReportersRun'
  BY <1>1, <1>3, <1>6
<1>7. ASSUME NEW t \in Tabs, NEW u \in Users, SignIn(t, u)
      PROVE  ReportersRun'
  BY <1>4, <1>7 DEF SignIn
<1>8. ASSUME NEW t \in Tabs, Reload(t) \/ Notice(t) \/ LeavePage(t)
      PROVE  ReportersRun'
  BY <1>4, <1>8 DEF Reload, Notice, LeavePage
<1>9. ASSUME NEW t \in Tabs, DrainStep(t) \/ PushTimeout(t)
      PROVE  ReportersRun'
  <2>1. CASE Verify(t)
    BY <1>4, <1>6, <2>1 DEF Verify
  <2>2. CASE StartDrain(t) \/ Send(t) \/ Acknowledge(t) \/ PushFailed(t) \/ PushTimeout(t)
    BY <1>6, <2>2 DEF StartDrain, Send, Acknowledge, PushFailed, PushTimeout
  <2>3. QED
    BY <1>9, <2>1, <2>2 DEF DrainStep
<1>10. CASE \/ \E r \in reports : ServeReport(r) \/ LoseReport(r)
            \/ \E k \in 1 .. Len(turn) : ReportDone(k) \/ ReportFailed(k)
            \/ \E p \in pushes : ServePush(p) \/ LosePush(p)
            \/ \E b \in Browsers : Expire(b)
            \/ \E u \in Units : RemoveUnit(u)
            \/ RemovePublication
            \/ UNCHANGED vars
  BY <1>6, <1>10 DEF ServeReport, LoseReport, ReportDone, ReportFailed, ServePush, LosePush,
      Expire, RemoveUnit, RemovePublication, vars
<1>11. QED
  BY <1>2, <1>5, <1>7, <1>8, <1>9, <1>10 DEF Next
-----------------------------------------------------------------------------
(* The event a failing report leaves behind. *)
Left(k) == [turn |-> k, via |-> "outbox",
            at |-> IF StampLate(k) THEN clock + 1 ELSE turn[k].at]

(* An outbox gains the event of a failing report, loses what was            *)
(* acknowledged, or stays.                                                  *)
LEMMA OutboxStep ==
    ASSUME TypeOK, [Next]_vars
    PROVE  \/ outbox' = outbox
           \/ \E k \in 1 .. Len(turn) :
                /\ ReportFailed(k)
                /\ turn[k].tab \in Tabs
                /\ SetOutbox(turn[k].tab, Outbox(turn[k].tab) \cup {Left(k)})
           \/ \E t \in Tabs : Acknowledge(t) /\ SetOutbox(t, Remaining(t)) /\ drain[t] = "ok"
<1> USE DEF storage
<1>1. CASE \E k \in 1 .. Len(turn) : ReportFailed(k)
  <2>1. \A k \in 1 .. Len(turn) : turn[k] \in Turn
    BY DEF TypeOK
  <2>2. \A k \in 1 .. Len(turn) : turn[k].tab \in Tabs
    BY <2>1 DEF Turn
  <2>3. QED
    BY <1>1, <2>2 DEF ReportFailed, Left
<1>2. CASE \E t \in Tabs : Acknowledge(t)
  BY <1>2 DEF Acknowledge
<1>3. CASE \/ \E t \in Tabs, u \in Units : TurnPage(t, u)
           \/ \E r \in reports : ServeReport(r) \/ LoseReport(r)
           \/ \E k \in 1 .. Len(turn) : ReportDone(k)
           \/ \E t \in Tabs : Unloading(t)
           \/ \E p \in pushes : ServePush(p)
           \/ \E u \in Units : RemoveUnit(u)
           \/ RemovePublication
           \/ Quiet
  BY <1>3 DEF TurnPage, ServeReport, LoseReport, ReportDone, Unloading, ServePush,
     RemoveUnit, RemovePublication, Quiet
<1>4. QED
  BY Kinds, <1>1, <1>2, <1>3

(* What a page has in hand, and what is on the wire, came out of its outbox. *)
LEMMA BatchStep ==
    ASSUME TypeOK, [Next]_vars
    PROVE  /\ \A t \in Tabs : \/ pushed'[t] \in {pushed[t], {}}
                              \/ pushed'[t] \in SUBSET Outbox(t)
           /\ \A q \in pushes' : \/ \E p \in pushes : q.batch = p.batch /\ q.tab = p.tab
                                                      /\ q.user = p.user /\ q.owner = p.owner
                                 \/ \E t \in Tabs : Send(t) /\ q.batch \in SUBSET Outbox(t)
<1> DEFINE From(t) == \/ pushed'[t] \in {pushed[t], {}}
                      \/ pushed'[t] \in SUBSET Outbox(t)
           Old(q) == \E p \in pushes : q.batch = p.batch /\ q.tab = p.tab
                                       /\ q.user = p.user /\ q.owner = p.owner
           New(q) == \E t \in Tabs : Send(t) /\ q.batch \in SUBSET Outbox(t)
<1> USE DEF drains
<1>0. pushed \in [Tabs -> SUBSET Event]
  BY DEF TypeOK
<1>1. ASSUME NEW t \in Tabs, Rest(t) \/ pushed' = pushed, pushes' = pushes \/ pushes' = GivenUp(t)
      PROVE  (\A v \in Tabs : From(v)) /\ (\A q \in pushes' : Old(q))
  <2>1. \A v \in Tabs : From(v)
    BY <1>0, <1>1 DEF Rest
  <2>2. \A q \in pushes' : Old(q)
    <3>1. ASSUME NEW p \in pushes
          PROVE  LET q == IF p.tab = t THEN [p EXCEPT !.stale = TRUE] ELSE p
                 IN  q.batch = p.batch /\ q.tab = p.tab /\ q.user = p.user /\ q.owner = p.owner
      BY DEF TypeOK, Push
    <3>2. CASE pushes' = GivenUp(t)
      BY <3>1, <3>2, Zenon DEF GivenUp
    <3>3. QED
      BY <1>1, <3>2
  <2>3. QED
    BY <2>1, <2>2
<1>2. ASSUME NEW t \in Tabs, Send(t)
      PROVE  (\A v \in Tabs : From(v)) /\ (\A q \in pushes' : Old(q) \/ New(q))
  <2>1. CASE Rest(t) /\ UNCHANGED pushes
    BY <1>1, <2>1
  <2>2. ASSUME NEW batch \in SUBSET Outbox(t),
               pushed' = [pushed EXCEPT ![t] = batch],
               pushes' = pushes \cup
                  {[tab |-> t, owner |-> scope[t], user |-> cookie[Browser(t)],
                    batch |-> batch, stale |-> FALSE]}
        PROVE  (\A v \in Tabs : From(v)) /\ (\A q \in pushes' : Old(q) \/ New(q))
    BY <1>0, <1>2, <2>2
  <2>3. QED
    BY <1>2, <2>1, <2>2 DEF Send
<1>3. ASSUME NEW t \in Tabs, \/ StartDrain(t) \/ Verify(t) \/ Acknowledge(t) \/ PushFailed(t)
                             \/ PushTimeout(t) \/ Reload(t) \/ Notice(t) \/ LeavePage(t)
                             \/ \E u \in Users : SignIn(t, u)
      PROVE  (\A v \in Tabs : From(v)) /\ (\A q \in pushes' : Old(q))
  <2>1. Rest(t) \/ pushed' = pushed
    BY <1>3 DEF StartDrain, Verify, Acknowledge, PushFailed, PushTimeout, Reload, Notice,
       LeavePage, SignIn, Unload
  <2>2. pushes' = pushes \/ pushes' = GivenUp(t)
    BY <1>3 DEF StartDrain, Verify, Acknowledge, PushFailed, PushTimeout, Reload, Notice,
       LeavePage, SignIn, Unload
  <2>3. QED
    BY <1>1, <2>1, <2>2
<1>4. ASSUME pushed' = pushed, pushes' \subseteq pushes
      PROVE  (\A v \in Tabs : From(v)) /\ (\A q \in pushes' : Old(q))
  BY <1>4
<1>5. CASE \/ \E t \in Tabs, u \in Units : TurnPage(t, u)
           \/ \E t \in Tabs : Boot(t) \/ Revoke(t) \/ SignOut(t)
           \/ \E r \in reports : ServeReport(r) \/ LoseReport(r)
           \/ \E k \in 1 .. Len(turn) : ReportDone(k) \/ ReportFailed(k)
           \/ \E p \in pushes : ServePush(p) \/ LosePush(p)
           \/ \E b \in Browsers : Expire(b)
           \/ \E u \in Units : RemoveUnit(u)
           \/ RemovePublication
           \/ UNCHANGED vars
  <2>1. pushed' = pushed /\ pushes' \subseteq pushes
    BY <1>5 DEF TurnPage, Boot, Revoke, SignOut, ServeReport, LoseReport, ReportDone,
       ReportFailed, ServePush, LosePush, Expire, RemoveUnit, RemovePublication, vars
  <2>2. QED
    BY <1>4, <2>1
<1>6. QED
  BY <1>2, <1>3, <1>5 DEF Next, DrainStep

(* An event that is pending was so before, unless its report failed just now. *)
LEMMA PendingStep ==
    ASSUME TypeOK, [Next]_vars, NEW e, Pending(e)'
    PROVE  Pending(e) \/ \E k \in 1 .. Len(turn) : ReportFailed(k) /\ e = Left(k)
<1>1. ASSUME NEW t \in Tabs, e \in Outbox(t)
      PROVE  Pending(e)
  <2>1. BrowserOf[t] \in Browsers /\ scope[t] \in Owners
    BY BrowserAssumption DEF TypeOK
  <2>2. QED
    BY <1>1, <2>1 DEF Outbox, Browser, Pending
<1>2. ASSUME NEW b \in Browsers, NEW o \in Owners, e \in outbox'[b][o]
      PROVE  Pending(e) \/ \E k \in 1 .. Len(turn) : ReportFailed(k) /\ e = Left(k)
  <2>1. outbox \in [Browsers -> [Owners -> SUBSET Event]]
    BY DEF TypeOK
  <2>2. ASSUME NEW t \in Tabs, NEW events, SetOutbox(t, events)
        PROVE  e \in outbox[b][o] \/ e \in events
    BY <1>2, <2>1, <2>2 DEF SetOutbox, Browser
  <2>3. ASSUME NEW k \in 1 .. Len(turn), turn[k].tab \in Tabs, ReportFailed(k),
               SetOutbox(turn[k].tab, Outbox(turn[k].tab) \cup {Left(k)})
        PROVE  e \in outbox[b][o] \/ e \in Outbox(turn[k].tab) \/ e = Left(k)
    BY <2>2, <2>3
  <2>4. ASSUME NEW t \in Tabs, SetOutbox(t, Remaining(t))
        PROVE  e \in outbox[b][o] \/ e \in Outbox(t)
    BY <2>2, <2>4 DEF Remaining
  <2>5. e \in outbox[b][o] => Pending(e)
    BY DEF Pending
  <2>6. QED
    BY <1>1, <1>2, <2>3, <2>4, <2>5, OutboxStep
<1>3. ASSUME NEW t \in Tabs, e \in pushed'[t]
      PROVE  Pending(e)
  <2>1. e \in pushed[t] => Pending(e)
    BY DEF Pending
  <2>2. QED
    BY <1>1, <1>3, <2>1, BatchStep
<1>4. ASSUME NEW q \in pushes', e \in q.batch
      PROVE  Pending(e)
  <2>1. ASSUME NEW p \in pushes, e \in p.batch
        PROVE  Pending(e)
    BY <2>1 DEF Pending
  <2>2. QED
    BY <1>1, <1>4, <2>1, BatchStep
<1>5. QED
  BY <1>2, <1>3, <1>4 DEF Pending

(* An event is made once. *)
LEMMA MadeOnceStep ==
    ASSUME TypeOK, TurnsCounted, ServedOnce, MadeOnce, [Next]_vars
    PROVE  MadeOnce'
<1>1. ASSUME NEW k \in 1 .. Len(turn), ReportFailed(k)
      PROVE  status[k] # "over" /\ status'[k] = "over"
  BY <1>1, TurnsStay DEF ReportFailed, TypeOK
<1>2. ASSUME NEW e \in Event, Pending(e)
      PROVE  /\ e.via = "outbox"
             /\ e.turn \in 1 .. Len(turn')
             /\ status[e.turn] = "over" /\ status'[e.turn] = "over"
  BY <1>2, TurnsStay, StatusStep DEF MadeOnce
<1>3. ASSUME NEW k \in 1 .. Len(turn), ReportFailed(k)
      PROVE  /\ Left(k).via = "outbox" /\ Left(k).turn = k
             /\ k \in 1 .. Len(turn')
             /\ status'[k] = "over"
  BY <1>1, <1>3, TurnsStay DEF Left
<1>4. ASSUME NEW e \in Event, Pending(e)'
      PROVE  /\ e.via = "outbox"
             /\ e.turn \in 1 .. Len(turn')
             /\ status'[e.turn] = "over"
             /\ \/ Pending(e)
                \/ /\ ReportFailed(e.turn) /\ e = Left(e.turn)
                   /\ e.turn \in 1 .. Len(turn)
  BY <1>2, <1>3, <1>4, PendingStep
<1>5. ASSUME NEW e \in Event, NEW f \in Event, Pending(e)', Pending(f)', e.turn = f.turn
      PROVE  e = f
  BY <1>1, <1>2, <1>4, <1>5 DEF MadeOnce
<1>6. QED
  BY <1>4, <1>5 DEF MadeOnce
-----------------------------------------------------------------------------
(* The row a report becomes. *)
Reported(r) ==
    [event |-> [turn |-> r.turn, via |-> "report", at |-> clock + 1],
     user |-> r.user, commit |-> commits + 1]

(* The journal grows by one report or by the new events of one push, or a   *)
(* publication goes with all its rows.                                      *)
LEMMA JournalStep ==
    ASSUME [Next]_vars
    PROVE  /\ \/ journal' = journal
              \/ \E r \in reports : ServeReport(r) /\ journal' = journal \cup {Reported(r)}
              \/ \E p \in pushes : ServePush(p) /\ journal' = NewRows(p.batch, p.user)
                                   /\ p.user # NoUser
              \/ journal' = {} /\ known' = {}
           /\ known' \subseteq known
           /\ journal \subseteq journal' \/ (journal' = {} /\ known' = {})
<1> USE DEF server
<1>1. CASE \E r \in reports : ServeReport(r)
  BY <1>1 DEF ServeReport, Reported
<1>2. CASE \E p \in pushes : ServePush(p)
  BY <1>2 DEF ServePush, NewRows, Refused
<1>3. CASE RemovePublication
  BY <1>3 DEF RemovePublication
<1>4. CASE \E u \in Units : RemoveUnit(u)
  BY <1>4 DEF RemoveUnit
<1>5. CASE \/ \E t \in Tabs, u \in Units : TurnPage(t, u)
           \/ \E r \in reports : LoseReport(r)
           \/ \E k \in 1 .. Len(turn) : ReportDone(k) \/ ReportFailed(k)
           \/ \E t \in Tabs : Acknowledge(t) \/ Unloading(t)
           \/ Quiet
  BY <1>5 DEF TurnPage, LoseReport, ReportDone, ReportFailed, Acknowledge, Unloading, Quiet
<1>6. QED
  BY Kinds, <1>1, <1>2, <1>3, <1>4, <1>5

(* The reports on the wire: one more for a new turn, or fewer. *)
LEMMA ReportsStep ==
    ASSUME TypeOK, [Next]_vars
    PROVE  \/ reports' \subseteq reports
           \/ \E r : /\ reports' = reports \cup {r} /\ r.turn = Len(turn) + 1
                     /\ Len(turn') = Len(turn) + 1
                     /\ journal' = journal
<1>1. CASE \E t \in Tabs, u \in Units : TurnPage(t, u)
  <2>1. PICK t \in Tabs, u \in Units : TurnPage(t, u)
    BY <1>1
  <2>2. Len(turn') = Len(turn) + 1
    BY <2>1 DEF TurnPage, Active, TypeOK
  <2>3. QED
    BY <2>1, <2>2 DEF TurnPage, server
<1>2. CASE \/ \E r \in reports : ServeReport(r) \/ LoseReport(r)
           \/ \E k \in 1 .. Len(turn) : ReportDone(k) \/ ReportFailed(k)
           \/ \E t \in Tabs : Acknowledge(t) \/ Unloading(t)
           \/ \E p \in pushes : ServePush(p)
           \/ \E u \in Units : RemoveUnit(u)
           \/ RemovePublication
           \/ Quiet
  BY <1>2 DEF ServeReport, LoseReport, ReportDone, ReportFailed, Acknowledge, Unloading,
     ServePush, RemoveUnit, RemovePublication, Quiet
<1>3. QED
  BY Kinds, <1>1, <1>2

(* The new rows of a push: its own events, whose ids are not there yet. *)
LEMMA NewRowsFresh ==
    ASSUME TypeOK, MadeOnce, NEW p \in pushes, NEW r \in NewRows(p.batch, p.user)
    PROVE  \/ r \in journal
           \/ /\ r.event \in p.batch /\ r.event \in Event /\ Pending(r.event)
              /\ r.event.via = "outbox" /\ r.event.turn \in 1 .. Len(turn)
              /\ r.user = p.user /\ r.commit = commits + 1
              /\ \A s \in journal : Id(s.event) # Id(r.event)
<1>1. p.batch \subseteq Event
  BY DEF TypeOK, Push
<1>2. CASE r \in journal
  BY <1>2
<1>3. ASSUME NEW e \in p.batch, r = [event |-> e, user |-> p.user, commit |-> commits + 1],
             \A s \in journal : Id(e) # Id(s.event)
      PROVE  /\ r.event \in p.batch /\ r.event \in Event /\ Pending(r.event)
             /\ r.event.via = "outbox" /\ r.event.turn \in 1 .. Len(turn)
             /\ r.user = p.user /\ r.commit = commits + 1
             /\ \A s \in journal : Id(s.event) # Id(r.event)
  <2>1. Pending(e)
    BY <1>3 DEF Pending
  <2>2. QED
    BY <1>1, <1>3, <2>1 DEF MadeOnce
<1>4. QED
  BY <1>2, <1>3 DEF NewRows

(* A report is served once. *)
LEMMA ServedOnceStep ==
    ASSUME TypeOK, TurnsCounted, ServedOnce, MadeOnce, [Next]_vars
    PROVE  ServedOnce'
<1>1. Len(turn) \in Nat /\ Len(turn') \in Nat /\ Len(turn) <= Len(turn')
  BY TurnsStay
<1>2. \A j \in journal' : j.event.turn \in 1 .. Len(turn')
  <2>1. ASSUME NEW r \in reports
        PROVE  Reported(r).event.turn \in 1 .. Len(turn)
    BY DEF ServedOnce, Reported
  <2>2. \A j \in journal' : j.event.turn \in 1 .. Len(turn)
    BY <2>1, JournalStep, NewRowsFresh DEF ServedOnce
  <2>3. QED
    BY <1>1, <2>2
<1>3. ASSUME NEW r \in reports, NEW j \in journal', r \in reports'
      PROVE  Id(j.event) # <<r.turn, "report">>
  <2>1. \A s \in journal : Id(s.event) # <<r.turn, "report">>
    BY DEF ServedOnce
  <2>2. ASSUME NEW q \in reports, ServeReport(q)
        PROVE  Id(Reported(q).event) # <<r.turn, "report">>
    <3>1. q # r
      BY <1>3, <2>2 DEF ServeReport
    <3>2. q.turn # r.turn
      BY <3>1 DEF ServedOnce
    <3>3. QED
      BY <3>2 DEF Reported, Id
  <2>3. ASSUME NEW p \in pushes, NEW s \in NewRows(p.batch, p.user)
        PROVE  Id(s.event) # <<r.turn, "report">>
    BY <2>1, NewRowsFresh DEF Id
  <2>4. QED
    BY <2>1, <2>2, <2>3, JournalStep
<1>4. CASE reports' \subseteq reports
  <2>1. ASSUME NEW r \in reports'
        PROVE  /\ r.turn \in 1 .. Len(turn')
               /\ \A s \in reports' : s.turn = r.turn => s = r
    BY <1>1, <1>4 DEF ServedOnce
  <2>2. QED
    BY <1>2, <1>3, <1>4, <2>1 DEF ServedOnce
<1>5. ASSUME NEW r, reports' = reports \cup {r}, r.turn = Len(turn) + 1,
             Len(turn') = Len(turn) + 1, journal' = journal
      PROVE  ServedOnce'
  <2>1. \A s \in reports : s.turn # r.turn /\ s.turn \in 1 .. Len(turn')
    BY <1>1, <1>5 DEF ServedOnce
  <2>2. \A j \in journal : Id(j.event) # <<r.turn, "report">>
    BY <1>1, <1>5 DEF ServedOnce, Id
  <2>3. r.turn \in 1 .. Len(turn')
    BY <1>1, <1>5
  <2>4. QED
    BY <1>2, <1>5, <2>1, <2>2, <2>3 DEF ServedOnce
<1>6. QED
  BY <1>4, <1>5, ReportsStep

(* An event has one row. *)
LEMMA ReplaysStep ==
    ASSUME TypeOK, TurnsCounted, ServedOnce, MadeOnce, ReplaysAreHarmless, [Next]_vars
    PROVE  ReplaysAreHarmless'
<1>1. ASSUME NEW r \in reports, journal' = journal \cup {Reported(r)}
      PROVE  ReplaysAreHarmless'
  <2>1. Id(Reported(r).event) = <<r.turn, "report">>
    BY DEF Reported, Id
  <2>2. \A j \in journal : Id(j.event) # Id(Reported(r).event)
    BY <2>1 DEF ServedOnce
  <2>3. QED
    BY <1>1, <2>2 DEF ReplaysAreHarmless
<1>2. ASSUME NEW p \in pushes, journal' = NewRows(p.batch, p.user)
      PROVE  ReplaysAreHarmless'
  <2>1. ASSUME NEW r \in journal', NEW s \in journal', Id(r.event) = Id(s.event),
               r \notin journal, s \notin journal
        PROVE  r = s
    <3>1. /\ r.event \in Event /\ Pending(r.event) /\ r.user = p.user /\ r.commit = commits + 1
          /\ s.event \in Event /\ Pending(s.event) /\ s.user = p.user /\ s.commit = commits + 1
      BY <1>2, <2>1, NewRowsFresh
    <3>2. r.event.turn = s.event.turn
      BY <2>1 DEF Id
    <3>3. r.event = s.event
      BY <3>1, <3>2 DEF MadeOnce
    <3>4. QED
      BY <3>3, <1>2, <2>1 DEF NewRows
  <2>2. ASSUME NEW r \in journal', NEW s \in journal', Id(r.event) = Id(s.event),
               r \in journal \/ s \in journal
        PROVE  r = s
    BY <1>2, <2>2, NewRowsFresh DEF ReplaysAreHarmless
  <2>3. QED
    BY <2>1, <2>2 DEF ReplaysAreHarmless
<1>3. CASE journal' = journal \/ journal' = {}
  BY <1>3 DEF ReplaysAreHarmless
<1>4. QED
  BY <1>1, <1>2, <1>3, JournalStep

(* What waits in local storage or in a page's hands is finite. *)
LEMMA FiniteStep ==
    ASSUME TypeOK, Finite, [Next]_vars
    PROVE  Finite'
<1>1. ASSUME NEW t \in Tabs
      PROVE  IsFiniteSet(Outbox(t))
  <2>1. BrowserOf[t] \in Browsers /\ scope[t] \in Owners
    BY BrowserAssumption DEF TypeOK
  <2>2. QED
    BY <2>1 DEF Finite, Outbox, Browser
<1>2. ASSUME NEW t \in Tabs, NEW events, SetOutbox(t, events), IsFiniteSet(events)
      PROVE  \A b \in Browsers, o \in Owners : IsFiniteSet(outbox'[b][o])
  <2>1. \A b \in Browsers, o \in Owners : outbox'[b][o] \in {outbox[b][o], events}
    BY <1>2 DEF TypeOK, SetOutbox, Browser
  <2>2. QED
    BY <1>2, <2>1 DEF Finite
<1>3. ASSUME NEW t \in Tabs
      PROVE  \A x : IsFiniteSet(Outbox(t) \cup {x})
  BY <1>1, FS_AddElement
<1>4. ASSUME NEW t \in Tabs
      PROVE  IsFiniteSet(Remaining(t))
  BY <1>1, FS_Subset DEF Remaining
<1>5. \A b \in Browsers, o \in Owners : IsFiniteSet(outbox'[b][o])
  <2>1. CASE outbox' = outbox
    BY <2>1 DEF Finite
  <2>2. QED
    BY <1>2, <1>3, <1>4, <2>1, OutboxStep
<1>6. ASSUME NEW t \in Tabs
      PROVE  IsFiniteSet(pushed'[t])
  <2>1. CASE pushed'[t] \in {pushed[t], {}}
    BY <2>1, FS_EmptySet DEF Finite
  <2>2. CASE pushed'[t] \in SUBSET Outbox(t)
    BY <1>1, <2>2, FS_Subset
  <2>3. QED
    BY <2>1, <2>2, BatchStep
<1>7. QED
  BY <1>5, <1>6 DEF Finite

(* A page waits for one push. *)
LEMMA OnePushStep ==
    ASSUME TypeOK, OnePush, [Next]_vars
    PROVE  OnePush'
<1> DEFINE Waits(p) == /\ drain[p.tab] = "await"
                       /\ p.batch = pushed[p.tab]
           Boots(t) == stage[t] = "boot" => drain[t] = "rest"
           One == \A p, q \in pushes : ~p.stale /\ ~q.stale /\ q.tab = p.tab => q = p
<1> USE DEF pages, drains
<1>0. /\ drain \in [Tabs -> {"rest", "verify", "ready", "await", "ok", "413", "error"}]
      /\ stage \in [Tabs -> {"boot", "use", "revoked", "left"}]
      /\ pushed \in [Tabs -> SUBSET Event]
      /\ \A p \in pushes : p \in Push /\ p.tab \in Tabs
      /\ \A p \in pushes : ~p.stale => Waits(p)
      /\ One
      /\ \A t \in Tabs : Boots(t)
  BY DEF TypeOK, Push, OnePush
(* The pushes are as they were, or fewer, and so are the drains of those    *)
(* that are waited for.                                                     *)
<1>1. ASSUME pushes' \subseteq pushes,
             \A p \in pushes' : ~p.stale =>
                drain'[p.tab] = drain[p.tab] /\ pushed'[p.tab] = pushed[p.tab],
             \A t \in Tabs : Boots(t)'
      PROVE  OnePush'
  BY <1>0, <1>1 DEF OnePush
(* A page's push is given up and its drain ends. *)
<1>2. ASSUME NEW t \in Tabs, Rest(t), pushes' = GivenUp(t),
             \A v \in Tabs : stage'[v] = "boot" => v = t \/ stage[v] = "boot"
      PROVE  OnePush'
  <2>1. ASSUME NEW q \in pushes', ~q.stale
        PROVE  q \in pushes /\ q.tab # t
    <3>1. ASSUME NEW p \in pushes, p.tab = t
          PROVE  [p EXCEPT !.stale = TRUE].stale
      BY <1>0 DEF Push
    <3>2. QED
      BY <1>2, <2>1, <3>1 DEF GivenUp
  <2>2. \A v \in Tabs : v # t => drain'[v] = drain[v] /\ pushed'[v] = pushed[v]
    BY <1>0, <1>2 DEF Rest, GoTo
  <2>3. drain'[t] = "rest"
    BY <1>0, <1>2 DEF Rest, GoTo
  <2>4. \A p \in pushes' : ~p.stale => Waits(p)'
    BY <1>0, <2>1, <2>2
  <2>5. \A v \in Tabs : Boots(v)'
    BY <1>0, <1>2, <2>2, <2>3
  <2>6. \A p, q \in pushes' : ~p.stale /\ ~q.stale /\ q.tab = p.tab => q = p
    BY <1>0, <2>1
  <2>7. QED
    BY <2>4, <2>5, <2>6 DEF OnePush
(* A drain moves on with no push under way. *)
<1>3. ASSUME NEW t \in Tabs, drain[t] # "await", pushes' = pushes,
             \/ Rest(t)
             \/ \E place : GoTo(t, place) /\ stage[t] # "boot" /\ pushed' = pushed,
             stage' = stage
      PROVE  OnePush'
  <2>1. \A v \in Tabs : v # t => drain'[v] = drain[v] /\ pushed'[v] = pushed[v]
    BY <1>0, <1>3 DEF Rest, GoTo
  <2>2. drain'[t] = "rest" \/ stage[t] # "boot"
    BY <1>0, <1>3 DEF Rest, GoTo
  <2>3. \A v \in Tabs : Boots(v)'
    BY <1>0, <1>3, <2>1, <2>2
  <2>4. QED
    BY <1>0, <1>1, <1>3, <2>1, <2>3
<1>4. ASSUME NEW t \in Tabs, Unload(t, "boot")
      PROVE  OnePush'
  <2>1. \A v \in Tabs : stage'[v] = "boot" => v = t \/ stage[v] = "boot"
    BY <1>0, <1>4 DEF Unload
  <2>2. QED
    BY <1>2, <1>4, <2>1 DEF Unload
<1>5. ASSUME NEW t \in Tabs, Send(t)
      PROVE  OnePush'
  <2>1. CASE Rest(t) /\ UNCHANGED pushes
    BY <1>3, <1>5, <2>1 DEF Send
  <2>2. ASSUME NEW batch, NEW p,
               p = [tab |-> t, owner |-> scope[t], user |-> cookie[Browser(t)],
                    batch |-> batch, stale |-> FALSE],
               Active(t), stage' = stage,
               pushed' = [pushed EXCEPT ![t] = batch], pushes' = pushes \cup {p},
               drain[t] = "ready", GoTo(t, "await")
        PROVE  OnePush'
    <3>1. p.tab = t /\ ~p.stale /\ p.batch = batch
      BY <2>2
    <3>2. drain'[t] = "await" /\ pushed'[t] = batch
      BY <1>0, <2>2 DEF GoTo
    <3>3. \A v \in Tabs : v # t => drain'[v] = drain[v] /\ pushed'[v] = pushed[v]
      BY <1>0, <2>2 DEF GoTo
    <3>4. \A q \in pushes : ~q.stale => q.tab # t
      BY <1>0, <2>2
    <3>5. \A q \in pushes' : ~q.stale => Waits(q)'
      BY <1>0, <2>2, <3>1, <3>2, <3>3, <3>4
    <3>6. \A v \in Tabs : Boots(v)'
      BY <1>0, <2>2, <3>3 DEF Active
    <3>7. ASSUME NEW q \in pushes', NEW r \in pushes', ~q.stale, ~r.stale, r.tab = q.tab
          PROVE  r = q
      <4>1. q \in pushes \/ q = p
        BY <2>2
      <4>2. r \in pushes \/ r = p
        BY <2>2
      <4>3. CASE q \in pushes /\ r \in pushes
        BY <1>0, <3>7, <4>3
      <4>4. QED
        BY <3>1, <3>4, <3>7, <4>1, <4>2, <4>3
    <3>8. QED
      BY <3>5, <3>6, <3>7 DEF OnePush
  <2>3. QED
    BY <1>5, <2>1, <2>2 DEF Send
<1>6. ASSUME NEW t \in Tabs, StartDrain(t) \/ Acknowledge(t)
      PROVE  OnePush'
  BY <1>3, <1>6 DEF StartDrain, Acknowledge, Active
<1>7. ASSUME NEW t \in Tabs, PushFailed(t)
      PROVE  OnePush'
  <2>1. drain[t] \in {"413", "error"} /\ stage[t] # "boot"
    BY <1>0, <1>7 DEF PushFailed
  <2>2. QED
    BY <1>3, <1>7, <2>1 DEF PushFailed
<1>8. ASSUME NEW t \in Tabs, Verify(t)
      PROVE  OnePush'
  <2>1. drain[t] = "verify" /\ stage[t] # "boot"
    BY <1>0, <1>8 DEF Verify
  <2>2. QED
    BY <1>3, <1>4, <1>8, <2>1 DEF Verify
<1>9. ASSUME NEW t \in Tabs, PushTimeout(t)
      PROVE  OnePush'
  BY <1>0, <1>2, <1>9 DEF PushTimeout
<1>10. ASSUME NEW p \in pushes, ServePush(p)
       PROVE  OnePush'
  <2>1. pushes' = pushes \ {p} /\ pushed' = pushed /\ stage' = stage
    BY <1>10 DEF ServePush
  <2>2. CASE p.stale
    BY <1>0, <1>1, <1>10, <2>1, <2>2 DEF ServePush
  <2>3. CASE ~p.stale
    <3>1. \A v \in Tabs : v # p.tab => drain'[v] = drain[v]
      BY <1>0, <1>10, <2>3 DEF ServePush, GoTo
    <3>2. \A q \in pushes' : ~q.stale => q.tab # p.tab
      BY <1>0, <2>1, <2>3
    <3>3. stage[p.tab] # "boot"
      BY <1>0, <2>3
    <3>4. QED
      BY <1>0, <1>1, <2>1, <3>1, <3>2, <3>3
  <2>4. QED
    BY <2>2, <2>3
<1>11. ASSUME NEW t \in Tabs, Boot(t) \/ Revoke(t) \/ SignOut(t)
       PROVE  OnePush'
  BY <1>0, <1>1, <1>11 DEF Boot, Revoke, SignOut
<1>12. ASSUME NEW t \in Tabs, \/ Reload(t) \/ Notice(t) \/ LeavePage(t)
                              \/ \E u \in Users : SignIn(t, u)
       PROVE  OnePush'
  BY <1>4, <1>12 DEF Reload, Notice, LeavePage, SignIn
<1>13. CASE \/ \E t \in Tabs, u \in Units : TurnPage(t, u)
            \/ \E r \in reports : ServeReport(r) \/ LoseReport(r)
            \/ \E k \in 1 .. Len(turn) : ReportDone(k) \/ ReportFailed(k)
            \/ \E p \in pushes : LosePush(p)
            \/ \E b \in Browsers : Expire(b)
            \/ \E u \in Units : RemoveUnit(u)
            \/ RemovePublication
            \/ UNCHANGED vars
  <2>1. pushes' \subseteq pushes /\ drain' = drain /\ pushed' = pushed /\ stage' = stage
    BY <1>13 DEF TurnPage, ServeReport, LoseReport, ReportDone, ReportFailed, LosePush, Expire,
       RemoveUnit, RemovePublication, vars
  <2>2. QED
    BY <1>0, <1>1, <2>1
<1>14. QED
  BY <1>5, <1>6, <1>7, <1>8, <1>9, <1>10, <1>11, <1>12, <1>13 DEF Next, DrainStep
-----------------------------------------------------------------------------
(* What is recorded stays so while its chapter is known.                    *)
LEMMA RecordedStays ==
    ASSUME [Next]_vars, NEW k, Recorded(k)
    PROVE  Recorded(k)' \/ known' = {}
BY JournalStep DEF Recorded

(* What a push is answered with "ok" for is recorded. *)
LEMMA PushRecords ==
    ASSUME NEW p \in pushes, journal' = NewRows(p.batch, p.user), NEW e \in p.batch,
           turn[e.turn].unit \in known
    PROVE  Recorded(e.turn)'
<1> DEFINE row == [event |-> e, user |-> p.user, commit |-> commits + 1]
<1>1. CASE \A r \in journal : Id(e) # Id(r.event)
  <2>1. row \in journal'
    BY <1>1 DEF NewRows
  <2>2. row.event.turn = e.turn
    OBVIOUS
  <2>3. QED
    BY <2>1, <2>2 DEF Recorded
<1>2. ASSUME NEW r \in journal, Id(e) = Id(r.event)
      PROVE  Recorded(e.turn)'
  <2>1. r \in journal' /\ r.event.turn = e.turn
    BY <1>2 DEF NewRows, Id
  <2>2. QED
    BY <2>1 DEF Recorded
<1>3. QED
  BY <1>1, <1>2

(* What the server has said yes to is recorded: reports. *)
LEMMA ReportAnswers ==
    ASSUME TypeOK, TurnsCounted, ServedOnce, AnswersAreTrue, [Next]_vars,
           NEW k \in 1 .. Len(turn'), status'[k] = "ok", turn'[k].unit \in known'
    PROVE  Recorded(k)'
<1> USE DEF readers
<1>1. /\ Len(turn) \in Nat /\ 1 .. Len(turn) \subseteq Turns
      /\ status \in [Turns -> Status]
      /\ known' \subseteq known
      /\ \A i \in 1 .. Len(turn) : turn'[i] = turn[i]
  BY TurnsStay, JournalStep DEF TypeOK
<1>2. CASE k \in 1 .. Len(turn) /\ status[k] = "ok"
  <2>1. Recorded(k)
    BY <1>1, <1>2 DEF AnswersAreTrue
  <2>2. QED
    BY <2>1, RecordedStays
<1>3. ASSUME NEW r \in reports, ServeReport(r), status[k] # "ok"
      PROVE  Recorded(k)'
  <2>1. r.turn = k /\ r.user # NoUser /\ turn[r.turn].unit \in known
    BY <1>1, <1>3 DEF ServeReport, ServedOnce
  <2>2. Reported(r) \in journal'
    BY <1>3, <2>1 DEF ServeReport, Reported
  <2>3. Reported(r).event.turn = k
    BY <2>1 DEF Reported
  <2>4. QED
    BY <2>2, <2>3 DEF Recorded
<1>4. ASSUME NEW i \in 1 .. Len(turn), ReportDone(i) \/ ReportFailed(i)
      PROVE  status[k] = "ok" /\ turn' = turn
  BY <1>1, <1>4 DEF ReportDone, ReportFailed
<1>5. ASSUME NEW t \in Tabs, Unloading(t)
      PROVE  status[k] = "ok" /\ turn' = turn
  BY <1>1, <1>5 DEF Unloading, Unload
<1>6. ASSUME NEW t \in Tabs, NEW u \in Units, TurnPage(t, u)
      PROVE  k \in 1 .. Len(turn) /\ status[k] = "ok"
  <2>1. Len(turn') = Len(turn) + 1 /\ Len(turn') \in Turns
    BY <1>6 DEF TurnPage, Active, TypeOK
  <2>2. status' = [status EXCEPT ![Len(turn')] = "waiting"]
    BY <1>6, <2>1 DEF TurnPage
  <2>3. QED
    BY <1>1, <2>1, <2>2
<1>7. ASSUME \/ \E r \in reports : LoseReport(r)
             \/ \E t \in Tabs : Acknowledge(t)
             \/ \E p \in pushes : ServePush(p)
             \/ \E u \in Units : RemoveUnit(u)
             \/ RemovePublication
             \/ Quiet
      PROVE  turn' = turn /\ status' = status
  BY <1>7 DEF LoseReport, Acknowledge, ServePush, RemoveUnit, RemovePublication, Quiet
<1>8. ASSUME turn' = turn, status[k] = "ok"
      PROVE  Recorded(k)'
  BY <1>2, <1>8
<1>9. CASE \E r \in reports : ServeReport(r)
  <2>1. turn' = turn
    BY <1>9 DEF ServeReport
  <2>2. QED
    BY <1>3, <1>8, <1>9, <2>1
<1>10. QED
  BY Kinds, <1>2, <1>4, <1>5, <1>6, <1>7, <1>8, <1>9

(* A page whose push was answered "ok": nothing reaches that state but the  *)
(* serving of the push it waits for, and its batch is fixed meanwhile.      *)
LEMMA OkStep ==
    ASSUME TypeOK, OnePush, [Next]_vars, NEW t \in Tabs, drain'[t] = "ok"
    PROVE  /\ pushed'[t] = pushed[t]
           /\ \/ drain[t] = "ok"
              \/ \E p \in pushes : /\ p.tab = t /\ p.batch = pushed[t] /\ ServePush(p)
                                   /\ journal' = NewRows(p.batch, p.user)
<1> USE DEF drains
<1>0. /\ drain \in [Tabs -> {"rest", "verify", "ready", "await", "ok", "413", "error"}]
      /\ pushed \in [Tabs -> SUBSET Event]
      /\ \A p \in pushes : p.tab \in Tabs
  BY DEF TypeOK, Push
<1>1. ASSUME NEW v \in Tabs, \/ Rest(v)
                             \/ \E place \in {"verify", "ready", "await"} : GoTo(v, place)
      PROVE  t # v /\ drain[t] = "ok"
  BY <1>0, <1>1 DEF Rest, GoTo
<1>2. ASSUME NEW v \in Tabs, Rest(v)
      PROVE  pushed'[t] = pushed[t]
  BY <1>0, <1>1, <1>2 DEF Rest
<1>3. ASSUME NEW v \in Tabs, \/ DrainStep(v) \/ PushTimeout(v) \/ Reload(v) \/ Notice(v)
                             \/ LeavePage(v) \/ \E u \in Users : SignIn(v, u)
      PROVE  /\ Rest(v) \/ \E place \in {"verify", "ready", "await"} : GoTo(v, place)
             /\ Rest(v) \/ pushed' = pushed \/ \E batch : pushed' = [pushed EXCEPT ![v] = batch]
  BY <1>3 DEF DrainStep, StartDrain, Verify, Send, Acknowledge, PushFailed, PushTimeout,
     Reload, Notice, LeavePage, SignIn, Unload
<1>4. CASE \E v \in Tabs : \/ DrainStep(v) \/ PushTimeout(v) \/ Reload(v) \/ Notice(v)
                           \/ LeavePage(v) \/ \E u \in Users : SignIn(v, u)
  BY <1>0, <1>1, <1>2, <1>3, <1>4
<1>5. ASSUME NEW p \in pushes, ServePush(p)
      PROVE  /\ pushed'[t] = pushed[t]
             /\ \/ drain[t] = "ok"
                \/ /\ p.tab = t /\ p.batch = pushed[t]
                   /\ journal' = NewRows(p.batch, p.user)
  <2>1. pushed' = pushed
    BY <1>5 DEF ServePush
  <2>2. CASE p.stale \/ p.tab # t
    BY <1>0, <1>5, <2>1, <2>2 DEF ServePush, GoTo
  <2>3. CASE ~p.stale /\ p.tab = t
    <3>1. p.batch = pushed[t]
      BY <2>3 DEF OnePush
    <3>2. \/ GoTo(t, "error") \/ GoTo(t, "413")
          \/ GoTo(t, "ok") /\ journal' = NewRows(p.batch, p.user)
      BY <1>5, <2>3 DEF ServePush
    <3>3. QED
      BY <1>0, <2>1, <2>3, <3>1, <3>2 DEF GoTo
  <2>4. QED
    BY <2>2, <2>3
<1>6. CASE \/ \E v \in Tabs, u \in Units : TurnPage(v, u)
           \/ \E v \in Tabs : Boot(v) \/ Revoke(v) \/ SignOut(v)
           \/ \E r \in reports : ServeReport(r) \/ LoseReport(r)
           \/ \E k \in 1 .. Len(turn) : ReportDone(k) \/ ReportFailed(k)
           \/ \E p \in pushes : LosePush(p)
           \/ \E b \in Browsers : Expire(b)
           \/ \E u \in Units : RemoveUnit(u)
           \/ RemovePublication
           \/ UNCHANGED vars
  <2>1. drain' = drain /\ pushed' = pushed
    BY <1>6 DEF TurnPage, Boot, Revoke, SignOut, ServeReport, LoseReport, ReportDone,
       ReportFailed, LosePush, Expire, RemoveUnit, RemovePublication, vars
  <2>2. QED
    BY <2>1
<1>7. QED
  BY <1>4, <1>5, <1>6 DEF Next

(* What the server has said yes to is recorded: reports and pushes. *)
LEMMA AnswersStep ==
    ASSUME TypeOK, TurnsCounted, ServedOnce, MadeOnce, OnePush, AnswersAreTrue, [Next]_vars
    PROVE  AnswersAreTrue'
<1>1. ASSUME NEW t \in Tabs, drain'[t] = "ok", NEW e \in pushed'[t],
             turn'[e.turn].unit \in known'
      PROVE  Recorded(e.turn)'
  <2>1. e \in pushed[t] /\ e \in Event
    BY <1>1, OkStep DEF TypeOK
  <2>2. e.turn \in 1 .. Len(turn)
    BY <2>1 DEF MadeOnce, Pending
  <2>3. turn[e.turn].unit \in known
    BY <1>1, <2>2, TurnsStay, JournalStep
  <2>4. CASE drain[t] = "ok"
    <3>1. Recorded(e.turn)
      BY <2>1, <2>3, <2>4 DEF AnswersAreTrue
    <3>2. QED
      BY <1>1, <3>1, RecordedStays
  <2>5. ASSUME NEW p \in pushes, p.batch = pushed[t], journal' = NewRows(p.batch, p.user)
        PROVE  Recorded(e.turn)'
    BY <2>1, <2>3, <2>5, PushRecords
  <2>6. QED
    BY <1>1, <2>4, <2>5, OkStep
<1>2. QED
  BY <1>1, ReportAnswers DEF AnswersAreTrue

(* A turn whose event waits in an outbox of its browser. *)
Waits(k) ==
    \/ \E e \in outbox[BrowserOf[turn[k].tab]][turn[k].user] : e.turn = k
    \/ \E e \in outbox[BrowserOf[turn[k].tab]][NoUser] : e.turn = k

(* How a report ends: answered, left in an outbox, or with its page. *)
LEMMA ReportEnds ==
    ASSUME TypeOK, TurnsCounted, ReportersRun, ServedOnce, [Next]_vars,
           NEW k \in 1 .. Len(turn), status[k] # "over", status'[k] = "over"
    PROVE  status[k] = "ok" \/ Waits(k)' \/ k \in dropped'
<1> USE DEF readers
<1>1. /\ k \in Turns /\ status \in [Turns -> Status]
      /\ turn[k].tab \in Tabs /\ turn[k].user \in Users /\ turn'[k] = turn[k]
  BY TurnsStay DEF TypeOK, Turn
<1>2. ASSUME NEW i \in 1 .. Len(turn), ReportDone(i)
      PROVE  status[k] = "ok"
  BY <1>1, <1>2 DEF ReportDone, TypeOK
<1>3. ASSUME NEW i \in 1 .. Len(turn), ReportFailed(i)
      PROVE  Waits(k)'
  <2>1. i = k
    BY <1>1, <1>3 DEF ReportFailed, TypeOK
  <2>2. SetOutbox(turn[k].tab, Outbox(turn[k].tab) \cup {Left(k)})
    BY <1>3, <2>1 DEF ReportFailed, Left
  <2>3. /\ BrowserOf[turn[k].tab] \in Browsers
        /\ scope[turn[k].tab] \in Owners
        /\ scope[turn[k].tab] \in {turn[k].user, NoUser}
    BY <1>1, BrowserAssumption DEF TypeOK, ReportersRun
  <2>4. outbox \in [Browsers -> [Owners -> SUBSET Event]]
    BY DEF TypeOK
  <2>5. Left(k) \in outbox'[BrowserOf[turn[k].tab]][scope[turn[k].tab]]
    BY <2>2, <2>3, <2>4 DEF SetOutbox, Browser
  <2>6. Left(k).turn = k
    BY DEF Left
  <2>7. QED
    BY <1>1, <2>3, <2>5, <2>6 DEF Waits
<1>4. ASSUME NEW t \in Tabs, Unloading(t)
      PROVE  k \in dropped'
  BY <1>1, <1>4 DEF Unloading, Unload
<1>5. ASSUME NEW t \in Tabs, NEW u \in Units, TurnPage(t, u)
      PROVE  FALSE
  <2>1. status' = [status EXCEPT ![Len(turn) + 1] = "waiting"]
    BY <1>5 DEF TurnPage
  <2>2. QED
    BY <1>1, <2>1
<1>6. ASSUME NEW r \in reports, ServeReport(r)
      PROVE  FALSE
  BY <1>1, <1>6 DEF ServeReport
<1>7. CASE \/ \E r \in reports : LoseReport(r)
           \/ \E t \in Tabs : Acknowledge(t)
           \/ \E p \in pushes : ServePush(p)
           \/ \E u \in Units : RemoveUnit(u)
           \/ RemovePublication
           \/ Quiet
  BY <1>7 DEF LoseReport, Acknowledge, ServePush, RemoveUnit, RemovePublication, Quiet
<1>8. QED
  BY Kinds, <1>2, <1>3, <1>4, <1>5, <1>6, <1>7

(* What waits in an outbox leaves it only when it is recorded. *)
LEMMA WaitsStay ==
    ASSUME TypeOK, TurnsCounted, ServedOnce, AnswersAreTrue, [Next]_vars,
           NEW k \in 1 .. Len(turn), Waits(k), turn[k].unit \in known
    PROVE  Waits(k)' \/ Recorded(k)
<1>1. /\ turn[k].tab \in Tabs /\ turn[k].user \in Users /\ turn'[k] = turn[k]
      /\ BrowserOf[turn[k].tab] \in Browsers
  <2>1. turn[k].tab \in Tabs /\ turn[k].user \in Users /\ turn'[k] = turn[k]
    BY TurnsStay DEF Turn
  <2>2. QED
    BY <2>1, BrowserAssumption
<1> DEFINE In(o, e) == e \in outbox[BrowserOf[turn[k].tab]][o] /\ e.turn = k
<1>1a. PICK o \in {turn[k].user, NoUser} : \E e : In(o, e)
  <2>1. (\E e : In(turn[k].user, e)) \/ (\E e : In(NoUser, e))
    BY DEF Waits
  <2> HIDE DEF In
  <2>2. QED
    BY <2>1
<1>2. PICK e : In(o, e)
  BY <1>1a
<1> DEFINE b == BrowserOf[turn[k].tab]
<1>3. outbox \in [Browsers -> [Owners -> SUBSET Event]] /\ b \in Browsers /\ o \in Owners
  BY <1>1 DEF TypeOK
<1>4. e \in outbox'[b][o] => Waits(k)'
  BY <1>1, <1>2 DEF Waits
<1> HIDE DEF b
<1>5. e \in outbox[b][o]
  BY <1>2 DEF b
<1>6. ASSUME NEW t \in Tabs, NEW events, SetOutbox(t, events)
      PROVE  \/ e \in outbox'[b][o]
             \/ e \in Outbox(t) /\ e \notin events
  <2>1. BrowserOf[t] \in Browsers /\ scope[t] \in Owners
    BY BrowserAssumption DEF TypeOK
  <2>2. CASE b = BrowserOf[t] /\ o = scope[t]
    BY <1>3, <1>5, <1>6, <2>1, <2>2 DEF SetOutbox, Outbox, Browser
  <2>3. CASE ~(b = BrowserOf[t] /\ o = scope[t])
    BY <1>3, <1>5, <1>6, <2>1, <2>3 DEF SetOutbox, Browser
  <2>4. QED
    BY <2>2, <2>3
<1>7. ASSUME NEW t \in Tabs, SetOutbox(t, Remaining(t)), drain[t] = "ok"
      PROVE  Waits(k)' \/ Recorded(k)
  <2>1. CASE e \in Outbox(t) /\ e \notin Remaining(t)
    <3>1. PICK f \in pushed[t] : Id(e) = Id(f)
      BY <2>1 DEF Remaining
    <3>2. f.turn = k
      BY <1>2, <3>1 DEF Id
    <3>3. QED
      BY <1>7, <3>1, <3>2 DEF AnswersAreTrue
  <2>2. QED
    BY <1>4, <1>6, <1>7, <2>1
<1>8. ASSUME NEW i \in 1 .. Len(turn), turn[i].tab \in Tabs,
             SetOutbox(turn[i].tab, Outbox(turn[i].tab) \cup {Left(i)})
      PROVE  Waits(k)'
  BY <1>4, <1>6, <1>8
<1>9. CASE outbox' = outbox
  BY <1>4, <1>5, <1>9
<1>10. QED
  BY <1>7, <1>8, <1>9, OutboxStep

(* No turn is lost by a step. *)
LEMMA NothingLostStep ==
    ASSUME IndInv, [Next]_vars
    PROVE  NothingLost'
<1> USE DEF IndInv
<1>1. ASSUME NEW k \in 1 .. Len(turn'), status'[k] = "over", k \notin dropped',
             turn'[k].unit \in known'
      PROVE  Recorded(k)' \/ Waits(k)'
  <2>1. known' # {} /\ known' \subseteq known /\ dropped \subseteq dropped'
    <3>1. dropped \subseteq dropped'
      BY Kinds DEF TurnPage, ServeReport, LoseReport, ReportDone, ReportFailed, Acknowledge,
         Unloading, Unload, ServePush, RemoveUnit, RemovePublication, Quiet, readers
    <3>2. QED
      BY <1>1, <3>1, JournalStep
  <2>2. ASSUME k \notin 1 .. Len(turn)
        PROVE  FALSE
    <3>1. k > Len(turn) /\ k \in Turns
      <4>1. TypeOK'
        BY TypeStep
      <4>2. Len(turn') <= MaxTurns
        BY <4>1 DEF TypeOK
      <4>3. Len(turn) \in Nat /\ Len(turn') \in Nat
        BY TurnsStay
      <4>4. QED
        BY <1>1, <2>2, <4>2, <4>3, BoundAssumption
    <3>2. PICK entry \in Turn : /\ turn' = Append(turn, entry)
                                /\ status' = [status EXCEPT ![Len(turn) + 1] = "waiting"]
      BY <1>1, <2>2, StatusStep
    <3>3. k = Len(turn) + 1
      BY <1>1, <3>1, <3>2, TurnsStay DEF TypeOK
    <3>4. QED
      BY <1>1, <3>1, <3>2, <3>3 DEF TypeOK
  <2>3. k \in 1 .. Len(turn) /\ turn[k].unit \in known /\ k \notin dropped
    BY <1>1, <2>1, <2>2, TurnsStay
  <2>4. CASE status[k] = "over"
    <3>1. Recorded(k) \/ Waits(k)
      BY <2>3, <2>4 DEF NothingLost, Recorded, Waits
    <3>2. QED
      BY <2>1, <2>3, <3>1, WaitsStay, RecordedStays
  <2>5. CASE status[k] # "over"
    <3>1. status[k] = "ok" => Recorded(k)
      BY <2>3 DEF AnswersAreTrue
    <3>2. QED
      BY <1>1, <2>1, <2>3, <2>5, <3>1, ReportEnds, RecordedStays
  <2>6. QED
    BY <2>4, <2>5
<1>2. QED
  BY <1>1 DEF NothingLost, Recorded, Waits
-----------------------------------------------------------------------------
(* The inductive invariant holds at the start.                               *)
LEMMA IndInvInit ==
    ASSUME Init
    PROVE  IndInv
<1> USE DEF Init
<1>1. TypeOK
  <2>1. turn \in Seq(Turn) /\ Len(turn) = 0
    OBVIOUS
  <2>2. scope \in [Tabs -> Owners]
    BY BrowserAssumption
  <2>3. limit \in [Tabs -> Nat \ {0}]
    BY LimitAssumption
  <2>4. QED
    BY <2>1, <2>2, <2>3, BoundAssumption DEF TypeOK, Status
<1>2. TurnsCounted /\ ReportersRun /\ NothingLost
  BY BoundAssumption DEF TurnsCounted, ReportersRun, NothingLost
<1>3. \A e : ~Pending(e)
  BY DEF Pending
<1>4. MadeOnce
  BY <1>3 DEF MadeOnce
<1>5. ServedOnce /\ ReplaysAreHarmless
  BY DEF ServedOnce, ReplaysAreHarmless
<1>6. AnswersAreTrue /\ OnePush
  BY DEF AnswersAreTrue, OnePush
<1>7. Finite
  BY FS_EmptySet DEF Finite
<1>8. QED
  BY <1>1, <1>2, <1>4, <1>5, <1>6, <1>7 DEF IndInv

(* Every step preserves the inductive invariant.                             *)
LEMMA IndInvStep ==
    ASSUME IndInv, [Next]_vars
    PROVE  IndInv'
BY TypeStep, TurnsCountedStep, ReportersRunStep, MadeOnceStep, ServedOnceStep, AnswersStep,
   OnePushStep, FiniteStep, NothingLostStep, ReplaysStep DEF IndInv

(* The inductive invariant holds throughout. *)
THEOREM SpecIndInv == Spec => []IndInv
BY IndInvInit, IndInvStep, PTL DEF Spec

(* The variables keep their types: in particular, the halved limit of a     *)
(* batch the server found too large is a positive number, and a push names  *)
(* an account. *)
THEOREM TypeCorrect == Spec => []TypeOK
<1>1. IndInv => TypeOK
  BY DEF IndInv
<1>2. QED
  BY <1>1, SpecIndInv, PTL

(* No turn is lost: one whose report is over, and whose page was not        *)
(* unloaded before, is in the journal or waits in an outbox, however many   *)
(* pages share it and whatever is lost, late or repeated.                   *)
THEOREM NoTurnIsLost == Spec => []NothingLost
<1>1. IndInv => NothingLost
  BY DEF IndInv
<1>2. QED
  BY <1>1, SpecIndInv, PTL

(* An event has at most one row, however often and by however many pages    *)
(* it is pushed.                                                            *)
THEOREM EventsAreIdempotent == Spec => []ReplaysAreHarmless
<1>1. IndInv => ReplaysAreHarmless
  BY DEF IndInv
<1>2. QED
  BY <1>1, SpecIndInv, PTL

(* The log the journal stands for. *)
Entries == {[fact |-> Id(r.event), account |-> r.user] : r \in journal}

(* The journal implements the append-only log of ADR-0002: rows are only    *)
(* added, by facts that are not there yet, until their publication goes.    *)
THEOREM ImplementsLog == Spec => LogSpec
<1>1. Init => Log!Init
  BY DEF Init, Log!Init
<1>2. ASSUME IndInv, [Next]_vars
      PROVE  Log!Next \/ Entries' = Entries
  <2> USE DEF IndInv, Entries
  <2>1. ASSUME NEW batch \in SUBSET (Turns \X {"report", "outbox"}), NEW user \in Users,
               \A f \in batch : \A r \in journal : Id(r.event) # f,
               Entries' = Entries \cup {[fact |-> f, account |-> user] : f \in batch}
        PROVE  Log!Next
    <3>1. \A f \in batch : \A e \in Entries : e.fact # f
      BY <2>1
    <3>2. Log!Record(batch, user)
      BY <2>1, <3>1 DEF Log!Record
    <3>3. QED
      BY <3>2 DEF Log!Next
  <2>2. ASSUME NEW r \in reports, ServeReport(r), journal' = journal \cup {Reported(r)}
        PROVE  Log!Next \/ Entries' = Entries
    <3>1. CASE r.user = NoUser
      BY <2>2, <3>1 DEF ServeReport
    <3>2. CASE r.user # NoUser
      <4>1. r.user \in Users /\ r.turn \in Turns
        BY <1>2, <3>2 DEF TypeOK, Report
      <4>2. Id(Reported(r).event) = <<r.turn, "report">> /\ Reported(r).user = r.user
        BY DEF Reported, Id
      <4>3. Entries' = Entries \cup {[fact |-> f, account |-> r.user] : f \in {<<r.turn, "report">>}}
        BY <2>2, <4>2
      <4>4. \A s \in journal : Id(s.event) # <<r.turn, "report">>
        BY <1>2 DEF ServedOnce
      <4>5. {<<r.turn, "report">>} \in SUBSET (Turns \X {"report", "outbox"})
        BY <4>1
      <4>6. \A f \in {<<r.turn, "report">>} : \A s \in journal : Id(s.event) # f
        BY <4>4
      <4>7. QED
        BY <2>1, <4>1, <4>3, <4>5, <4>6
    <3>3. QED
      BY <3>1, <3>2
  <2>3. ASSUME NEW p \in pushes, journal' = NewRows(p.batch, p.user), p.user # NoUser
        PROVE  Log!Next
    <3> DEFINE fresh == {f \in p.batch : /\ turn[f.turn].unit \in known
                                         /\ \A r \in journal : Id(f) # Id(r.event)}
               batch == {Id(e) : e \in fresh}
    <3>1. p.user \in Users /\ p.batch \subseteq Event
      BY <1>2, <2>3 DEF TypeOK, Push
    <3>2. batch \subseteq Turns \X {"report", "outbox"}
      BY <3>1 DEF Id, Event
    <3>3. \A f \in batch : \A r \in journal : Id(r.event) # f
      OBVIOUS
    <3>4. journal' = journal \cup {[event |-> e, user |-> p.user, commit |-> commits + 1] : e \in fresh}
      BY <2>3 DEF NewRows
    <3>5. Entries' = Entries \cup {[fact |-> f, account |-> p.user] : f \in batch}
      <4>1. \A x : x \in Entries' =>
               x \in Entries \cup {[fact |-> f, account |-> p.user] : f \in batch}
        BY <3>4
      <4>2. \A x \in Entries : x \in Entries'
        BY <3>4
      <4>3. ASSUME NEW e \in fresh
            PROVE  [fact |-> Id(e), account |-> p.user] \in Entries'
        <5>1. [event |-> e, user |-> p.user, commit |-> commits + 1] \in journal'
          BY <3>4
        <5>2. QED
          BY <5>1
      <4>4. \A f \in batch : [fact |-> f, account |-> p.user] \in Entries'
        BY <4>3
      <4> HIDE DEF batch
      <4>5. QED
        BY <4>1, <4>2, <4>4, Zenon
    <3>6. QED
      BY <2>1, <3>1, <3>2, <3>3, <3>5
  <2>4. CASE journal' = {}
    BY <2>4 DEF Log!Next, Log!RemovePublication
  <2>5. CASE journal' = journal
    BY <2>5
  <2>6. QED
    BY <1>2, <2>2, <2>3, <2>4, <2>5, JournalStep
<1>3. IndInv /\ [Next]_vars => [Log!Next]_Entries
  BY <1>2
<1>4. QED
  BY <1>1, <1>3, SpecIndInv, PTL DEF Spec, LogSpec, Log!Spec, Entries
-----------------------------------------------------------------------------
(* An outbox holds the work of its account.                                 *)
LEMMA OutboxesAreOwn ==
    ASSUME IndInv, OwnWork, [Next]_vars
    PROVE  \A b \in Browsers, u \in Users : \A e \in outbox'[b][u] : turn'[e.turn].user = u
<1> USE DEF IndInv
<1>1. ASSUME NEW b \in Browsers, NEW u \in Users, NEW e \in outbox[b][u]
      PROVE  turn'[e.turn].user = u
  <2>1. u \in Owners /\ e \in Event
    BY <1>1 DEF TypeOK
  <2>2. e.turn \in 1 .. Len(turn)
    BY <1>1, <2>1 DEF MadeOnce, Pending
  <2>3. QED
    BY <1>1, <2>2, TurnsStay DEF OwnWork
<1>2. ASSUME NEW k \in 1 .. Len(turn), ReportFailed(k), turn[k].tab \in Tabs,
             SetOutbox(turn[k].tab, Outbox(turn[k].tab) \cup {Left(k)}),
             NEW b \in Browsers, NEW u \in Users, NEW e \in outbox'[b][u]
      PROVE  turn'[e.turn].user = u
  <2>1. /\ Left(k).turn = k /\ turn'[k] = turn[k]
        /\ scope[turn[k].tab] \in {turn[k].user, NoUser}
    BY <1>2, TurnsStay DEF Left, ReportFailed, TypeOK, ReportersRun
  <2>2. e \in outbox[b][u] \/ (e = Left(k) /\ u = scope[turn[k].tab])
    <3>1. outbox \in [Browsers -> [Owners -> SUBSET Event]]
      BY DEF TypeOK
    <3>2. QED
      BY <1>2, <3>1 DEF SetOutbox, Outbox, Browser
  <2>3. QED
    BY <1>1, <1>2, <2>1, <2>2, NobodyAssumption
<1>3. ASSUME NEW t \in Tabs, SetOutbox(t, Remaining(t)),
             NEW b \in Browsers, NEW u \in Users, NEW e \in outbox'[b][u]
      PROVE  e \in outbox[b][u]
  <2>1. outbox \in [Browsers -> [Owners -> SUBSET Event]]
    BY DEF TypeOK
  <2>2. QED
    BY <1>3, <2>1 DEF SetOutbox, Remaining, Outbox, Browser
<1>4. QED
  BY <1>1, <1>2, <1>3, OutboxStep

(* With one page per browser, the session of a page whose drain is past its *)
(* verification is the one it verified, or none.                            *)
LEMMA VerifiedStays ==
    ASSUME OnePage, IndInv, OwnWork, [Next]_vars, NEW t \in Tabs,
           drain'[t] \notin {"rest", "verify"}, Active(t)'
    PROVE  cookie'[BrowserOf[t]] \in {scope'[t], NoUser}
<1> USE DEF pages, drains, storage, readers
<1>0. /\ drain \in [Tabs -> {"rest", "verify", "ready", "await", "ok", "413", "error"}]
      /\ scope \in [Tabs -> Owners] /\ cookie \in [Browsers -> Owners]
      /\ stage \in [Tabs -> {"boot", "use", "revoked", "left"}]
      /\ BrowserOf[t] \in Browsers
      /\ \A p \in pushes : p.tab \in Tabs /\ (~p.stale => drain[p.tab] = "await")
      /\ \A v \in Tabs : stage[v] = "boot" => drain[v] = "rest"
  BY BrowserAssumption DEF IndInv, TypeOK, Push, OnePush
<1>1. ASSUME drain[t] \notin {"rest", "verify"}, scope'[t] = scope[t],
             stage'[t] = stage[t] \/ stage[t] \in {"use", "revoked"},
             cookie'[BrowserOf[t]] \in {cookie[BrowserOf[t]], NoUser}
      PROVE  cookie'[BrowserOf[t]] \in {scope'[t], NoUser}
  BY <1>0, <1>1 DEF Active, OwnWork
<1>2. ASSUME NEW v \in Tabs, Rest(v), scope' = scope,
             v # t => stage'[t] = stage[t] /\ cookie'[BrowserOf[t]] = cookie[BrowserOf[t]]
      PROVE  cookie'[BrowserOf[t]] \in {scope'[t], NoUser}
  <2>1. v # t /\ drain'[t] = drain[t]
    BY <1>0, <1>2 DEF Rest, GoTo
  <2>2. QED
    BY <1>1, <1>2, <2>1
<1>3. ASSUME NEW v \in Tabs, NEW place, GoTo(v, place), drain[v] \notin {"rest", "verify"},
             scope' = scope, stage' = stage, cookie' = cookie
      PROVE  cookie'[BrowserOf[t]] \in {scope'[t], NoUser}
  <2>1. drain[t] \notin {"rest", "verify"}
    BY <1>0, <1>3 DEF GoTo
  <2>2. QED
    BY <1>1, <1>3, <2>1
<1>4. ASSUME NEW v \in Tabs, StartDrain(v)
      PROVE  cookie'[BrowserOf[t]] \in {scope'[t], NoUser}
  <2>1. drain'[t] = drain[t] /\ drain[t] \notin {"rest", "verify"}
    BY <1>0, <1>4 DEF StartDrain, GoTo
  <2>2. QED
    BY <1>1, <1>4, <2>1 DEF StartDrain
<1>5. ASSUME NEW v \in Tabs, Verify(v)
      PROVE  cookie'[BrowserOf[t]] \in {scope'[t], NoUser}
  <2>1. scope' = scope /\ cookie' = cookie
    BY <1>5 DEF Verify
  <2>2. CASE VerifiedAs(v) /\ GoTo(v, "ready") /\ UNCHANGED stage
    <3>1. CASE v = t
      BY <2>1, <2>2, <3>1 DEF VerifiedAs, Browser
    <3>2. CASE v # t
      <4>1. drain'[t] = drain[t]
        BY <1>0, <2>2, <3>2 DEF GoTo
      <4>2. QED
        BY <1>1, <2>1, <2>2, <4>1
    <3>3. QED
      BY <3>1, <3>2
  <2>3. CASE Rest(v) /\ UNCHANGED stage
    BY <1>2, <2>1, <2>3
  <2>4. CASE Unload(v, "boot")
    BY <1>0, <1>2, <2>1, <2>4 DEF Unload
  <2>5. QED
    BY <1>5, <2>2, <2>3, <2>4 DEF Verify
<1>6. ASSUME NEW v \in Tabs, Send(v) \/ Acknowledge(v) \/ PushFailed(v) \/ PushTimeout(v)
      PROVE  cookie'[BrowserOf[t]] \in {scope'[t], NoUser}
  <2>1. /\ drain[v] \notin {"rest", "verify"}
        /\ scope' = scope /\ stage' = stage /\ cookie' = cookie
        /\ Rest(v) \/ GoTo(v, "await") \/ GoTo(v, "ready")
    BY <1>6 DEF Send, Acknowledge, PushFailed, PushTimeout
  <2>2. QED
    BY <1>2, <1>3, <2>1
<1>7. ASSUME NEW p \in pushes, ServePush(p)
      PROVE  cookie'[BrowserOf[t]] \in {scope'[t], NoUser}
  <2>1. scope' = scope /\ stage' = stage /\ cookie' = cookie
    BY <1>7 DEF ServePush
  <2>2. CASE drain' = drain
    BY <1>1, <2>1, <2>2
  <2>3. CASE ~p.stale /\ \E place : GoTo(p.tab, place)
    BY <1>0, <1>3, <2>1, <2>3
  <2>4. QED
    BY <1>7, <2>2, <2>3 DEF ServePush
<1>8. ASSUME NEW v \in Tabs, Boot(v) \/ SignOut(v)
      PROVE  cookie'[BrowserOf[t]] \in {scope'[t], NoUser}
  <2>1. drain' = drain /\ cookie' = cookie
    BY <1>8 DEF Boot, SignOut
  <2>2. CASE v = t
    <3>1. stage'[t] # "left"
      BY DEF Active
    <3>2. ~SignOut(t)
      BY <1>0, <3>1 DEF SignOut
    <3>3. QED
      BY <1>0, <1>8, <2>1, <2>2, <3>2 DEF Boot
  <2>3. CASE v # t
    <3>1. scope'[t] = scope[t] /\ stage'[t] = stage[t]
      BY <1>0, <1>8, <2>3 DEF Boot, SignOut
    <3>2. QED
      BY <1>1, <2>1, <3>1
  <2>4. QED
    BY <2>2, <2>3
<1>9. ASSUME NEW v \in Tabs, Revoke(v)
      PROVE  cookie'[BrowserOf[t]] \in {scope'[t], NoUser}
  <2>1. drain' = drain /\ scope' = scope
    BY <1>9 DEF Revoke
  <2>2. cookie'[BrowserOf[t]] \in {cookie[BrowserOf[t]], NoUser}
    BY <1>0, <1>9 DEF Revoke
  <2>3. stage'[t] = stage[t] \/ stage[t] = "use"
    BY <1>0, <1>9 DEF Revoke
  <2>4. QED
    BY <1>1, <2>1, <2>2, <2>3
<1>10. ASSUME NEW v \in Tabs, Reload(v) \/ Notice(v) \/ LeavePage(v)
       PROVE  cookie'[BrowserOf[t]] \in {scope'[t], NoUser}
  <2>1. Rest(v) /\ scope' = scope /\ cookie' = cookie /\ stage' = [stage EXCEPT ![v] = "boot"]
    BY <1>10 DEF Reload, Notice, LeavePage, Unload
  <2>2. QED
    BY <1>0, <1>2, <2>1
<1>11. ASSUME NEW v \in Tabs, NEW u \in Users, SignIn(v, u)
       PROVE  cookie'[BrowserOf[t]] \in {scope'[t], NoUser}
  <2>1. /\ Rest(v) /\ scope' = scope /\ stage' = [stage EXCEPT ![v] = "boot"]
        /\ cookie' = [cookie EXCEPT ![BrowserOf[v]] = u]
    BY <1>11 DEF SignIn, Unload, Browser
  <2>2. v # t => cookie'[BrowserOf[t]] = cookie[BrowserOf[t]]
    BY <1>0, <2>1 DEF OnePage
  <2>3. QED
    BY <1>0, <1>2, <2>1, <2>2
<1>12. CASE \E b \in Browsers : Expire(b)
  <2>1. drain' = drain /\ scope' = scope /\ stage' = stage
    BY <1>12 DEF Expire
  <2>2. cookie'[BrowserOf[t]] \in {cookie[BrowserOf[t]], NoUser}
    BY <1>0, <1>12 DEF Expire
  <2>3. QED
    BY <1>1, <2>1, <2>2
<1>13. CASE \/ \E v \in Tabs, u \in Units : TurnPage(v, u)
            \/ \E r \in reports : ServeReport(r) \/ LoseReport(r)
            \/ \E k \in 1 .. Len(turn) : ReportDone(k) \/ ReportFailed(k)
            \/ \E p \in pushes : LosePush(p)
            \/ \E u \in Units : RemoveUnit(u)
            \/ RemovePublication
            \/ UNCHANGED vars
  <2>1. drain' = drain /\ scope' = scope /\ stage' = stage /\ cookie' = cookie
    BY <1>13 DEF TurnPage, ServeReport, LoseReport, ReportDone, ReportFailed, LosePush,
       RemoveUnit, RemovePublication, vars
  <2>2. QED
    BY <1>1, <2>1
<1>14. QED
  BY <1>4, <1>5, <1>6, <1>7, <1>8, <1>9, <1>10, <1>11, <1>12, <1>13 DEF Next, DrainStep

(* A push carries the work of the account it was sent for, under that       *)
(* account's session or none.                                               *)
LEMMA PushesAreOwn ==
    ASSUME IndInv, OwnWork, [Next]_vars
    PROVE  \A q \in pushes' : /\ q.user \in {q.owner, NoUser}
                              /\ \A e \in q.batch : turn'[e.turn].user = q.owner
<1> USE DEF IndInv
<1>1. ASSUME NEW p \in pushes, NEW e \in p.batch
      PROVE  turn'[e.turn].user = p.owner
  <2>1. e \in Event
    BY DEF TypeOK, Push
  <2>2. e.turn \in 1 .. Len(turn)
    BY <2>1 DEF MadeOnce, Pending
  <2>3. QED
    BY <2>2, TurnsStay DEF OwnWork
<1>2. ASSUME NEW t \in Tabs, Send(t), NEW q \in pushes', q \notin pushes
      PROVE  /\ q.user \in {q.owner, NoUser}
             /\ \A e \in q.batch : turn'[e.turn].user = q.owner
  <2>1. /\ q.owner = scope[t] /\ q.user = cookie[BrowserOf[t]]
        /\ q.batch \in SUBSET Outbox(t)
        /\ Active(t) /\ drain[t] = "ready" /\ turn' = turn
    BY <1>2 DEF Send, Browser, readers
  <2>2. q.user \in {q.owner, NoUser}
    BY <2>1 DEF OwnWork
  <2>3. scope[t] \in Users /\ BrowserOf[t] \in Browsers
    BY <2>1, BrowserAssumption DEF Active, TypeOK
  <2>4. QED
    BY <2>1, <2>2, <2>3 DEF OwnWork, Outbox, Browser
<1>3. ASSUME NEW q \in pushes', NEW p \in pushes,
             q.batch = p.batch, q.user = p.user, q.owner = p.owner
      PROVE  /\ q.user \in {q.owner, NoUser}
             /\ \A e \in q.batch : turn'[e.turn].user = q.owner
  BY <1>1, <1>3 DEF OwnWork
<1>4. QED
  BY <1>2, <1>3, BatchStep

(* What goes through an outbox is credited to the account that read it. *)
LEMMA RowsAreOwn ==
    ASSUME IndInv, OwnWork, [Next]_vars
    PROVE  NeverUnderAnother'
<1> USE DEF IndInv
<1>1. ASSUME NEW r \in journal, r.event.via = "outbox"
      PROVE  r.user = turn'[r.event.turn].user
  <2>1. r.event.turn \in 1 .. Len(turn)
    BY DEF ServedOnce
  <2>2. QED
    BY <1>1, <2>1, TurnsStay DEF OwnWork, NeverUnderAnother
<1>2. ASSUME NEW r \in reports
      PROVE  Reported(r).event.via = "report"
  BY DEF Reported
<1>3. ASSUME NEW p \in pushes, p.user # NoUser, NEW r \in NewRows(p.batch, p.user),
             r.event.via = "outbox"
      PROVE  r.user = turn'[r.event.turn].user
  <2>1. CASE r \in journal
    BY <1>1, <1>3, <2>1
  <2>2. CASE r.event \in p.batch /\ r.user = p.user /\ r.event.turn \in 1 .. Len(turn)
    BY <1>3, <2>2, TurnsStay DEF OwnWork
  <2>3. QED
    BY <2>1, <2>2, NewRowsFresh
<1>4. QED
  BY <1>1, <1>2, <1>3, JournalStep DEF NeverUnderAnother

(* While a browser runs one page at a time, offline work is credited to the *)
(* account that was reading, whoever signs in and out and whenever sessions *)
(* end: the drain's one verification and the reloads that follow a change   *)
(* of account are enough.  (With two pages they are not: see the run        *)
(* progress_switch.)                                                        *)
THEOREM OfflineWorkIsOwn ==
    ASSUME OnePage
    PROVE  Spec => []NeverUnderAnother
<1>1. Init => OwnWork
  BY DEF Init, OwnWork, NeverUnderAnother
<1>2. IndInv /\ OwnWork /\ [Next]_vars => OwnWork'
  <2>1. ASSUME IndInv, OwnWork, [Next]_vars
        PROVE  OwnWork'
    BY <2>1, OutboxesAreOwn, PushesAreOwn, RowsAreOwn, VerifiedStays DEF OwnWork
  <2>2. QED
    BY <2>1
<1>3. OwnWork => NeverUnderAnother
  BY DEF OwnWork
<1>4. QED
  BY <1>1, <1>2, <1>3, SpecIndInv, PTL DEF Spec
-----------------------------------------------------------------------------
(* With no chapter read in the comic reader.  Turns are stamped by a clock  *)
(* that never goes back, and a pending event has the stamp of its turn.     *)
NobodyLate == LateStamped = {}

InTime ==
    /\ \A k \in 1 .. Len(turn) : turn[k].at <= clock
    /\ \A i, j \in 1 .. Len(turn) : i < j => turn[i].at < turn[j].at
    /\ \A e \in Event : Pending(e) => e.at = turn[e.turn].at

LEMMA ClockStep ==
    ASSUME TypeOK, [Next]_vars
    PROVE  /\ clock \in Nat /\ clock' \in Nat /\ clock <= clock'
           /\ \/ turn' = turn
              \/ \E entry \in Turn :
                    entry.at = clock + 1 /\ clock' = clock + 1 /\ turn' = Append(turn, entry)
<1>1. clock \in Nat
  BY DEF TypeOK
<1>2. ASSUME NEW t \in Tabs, NEW u \in Units, TurnPage(t, u)
      PROVE  \E entry \in Turn :
                entry.at = clock + 1 /\ clock' = clock + 1 /\ turn' = Append(turn, entry)
  <2> DEFINE entry == [tab |-> t, user |-> scope[t], unit |-> u, at |-> clock + 1]
  <2>1. scope[t] \in Users
    BY <1>2 DEF TurnPage, Active, TypeOK
  <2>2. entry \in Turn /\ entry.at = clock + 1
    BY <1>1, <2>1 DEF Turn
  <2>3. turn' = Append(turn, entry) /\ clock' = clock + 1
    BY <1>2 DEF TurnPage
  <2> HIDE DEF entry
  <2>4. QED
    BY <2>2, <2>3
<1>3. CASE \/ \E r \in reports : ServeReport(r) \/ LoseReport(r)
           \/ \E k \in 1 .. Len(turn) : ReportDone(k) \/ ReportFailed(k)
  <2>1. turn' = turn
    BY <1>3 DEF ServeReport, LoseReport, ReportDone, ReportFailed, readers
  <2>2. clock' \in {clock, clock + 1}
    BY <1>3 DEF ServeReport, LoseReport, ReportDone, ReportFailed
  <2>3. QED
    BY <1>1, <2>1, <2>2
<1>4. CASE \/ \E t \in Tabs : Acknowledge(t) \/ Unloading(t)
           \/ \E p \in pushes : ServePush(p)
           \/ \E u \in Units : RemoveUnit(u)
           \/ RemovePublication
           \/ Quiet
  <2>1. turn' = turn /\ clock' = clock
    BY <1>4 DEF Acknowledge, Unloading, ServePush, RemoveUnit, RemovePublication,
       Quiet, readers
  <2>2. QED
    BY <1>1, <2>1
<1>5. QED
  BY Kinds, <1>1, <1>2, <1>3, <1>4

LEMMA InTimeStep ==
    ASSUME NobodyLate, IndInv, InTime, [Next]_vars
    PROVE  InTime'
<1>1. TypeOK /\ TurnsCounted /\ ServedOnce /\ MadeOnce
  BY DEF IndInv
<1>2. \A k \in 1 .. Len(turn) : turn[k].at \in Nat
  BY <1>1, TurnsStay DEF Turn
<1>3. ASSUME NEW entry \in Turn, entry.at = clock + 1, clock' = clock + 1,
             turn' = Append(turn, entry)
      PROVE  /\ \A k \in 1 .. Len(turn') : turn'[k].at <= clock'
             /\ \A i, j \in 1 .. Len(turn') : i < j => turn'[i].at < turn'[j].at
  <2>1. /\ Len(turn') = Len(turn) + 1
        /\ \A k \in 1 .. Len(turn) : turn'[k] = turn[k]
        /\ turn'[Len(turn) + 1] = entry
    BY <1>1, <1>3 DEF TypeOK
  <2>2. Len(turn) \in Nat /\ clock \in Nat
    BY <1>1, TurnsStay, ClockStep
  <2>3. ASSUME NEW k \in 1 .. Len(turn') PROVE turn'[k].at <= clock'
    BY <1>2, <1>3, <2>1, <2>2, <2>3 DEF InTime
  <2>4. ASSUME NEW i \in 1 .. Len(turn'), NEW j \in 1 .. Len(turn'), i < j
        PROVE  turn'[i].at < turn'[j].at
    <3>1. i \in 1 .. Len(turn) /\ turn'[i].at = turn[i].at /\ turn[i].at <= clock
      BY <2>1, <2>2, <2>4 DEF InTime
    <3>2. CASE j \in 1 .. Len(turn)
      BY <2>1, <2>4, <3>1, <3>2 DEF InTime
    <3>3. CASE j = Len(turn) + 1
      BY <1>2, <1>3, <2>1, <2>2, <3>1, <3>3
    <3>4. QED
      BY <2>1, <2>2, <3>2, <3>3
  <2>5. QED
    BY <2>3, <2>4
<1>4. ASSUME turn' = turn
      PROVE  /\ \A k \in 1 .. Len(turn') : turn'[k].at <= clock'
             /\ \A i, j \in 1 .. Len(turn') : i < j => turn'[i].at < turn'[j].at
  <2>1. /\ Len(turn') = Len(turn)
        /\ \A k \in 1 .. Len(turn) : turn'[k] = turn[k]
    BY <1>4
  <2>2. clock \in Nat /\ clock' \in Nat /\ clock <= clock'
    BY <1>1, ClockStep
  <2>3. ASSUME NEW k \in 1 .. Len(turn') PROVE turn'[k].at <= clock'
    BY <1>2, <2>1, <2>2, <2>3 DEF InTime
  <2>4. QED
    BY <2>1, <2>3 DEF InTime
<1>5. /\ \A k \in 1 .. Len(turn') : turn'[k].at <= clock'
      /\ \A i, j \in 1 .. Len(turn') : i < j => turn'[i].at < turn'[j].at
  BY <1>1, <1>3, <1>4, ClockStep DEF InTime
<1>6. ASSUME NEW e \in Event, Pending(e)'
      PROVE  e.at = turn'[e.turn].at
  <2>1. CASE Pending(e)
    <3>1. e.turn \in 1 .. Len(turn) /\ e.at = turn[e.turn].at
      BY <1>1, <2>1 DEF MadeOnce, InTime
    <3>2. QED
      BY <1>1, <3>1, TurnsStay
  <2>2. ASSUME NEW k \in 1 .. Len(turn), e = Left(k)
        PROVE  e.at = turn'[e.turn].at
    <3>1. e.turn = k /\ e.at = turn[k].at
      BY <2>2 DEF Left, StampLate, NobodyLate
    <3>2. QED
      BY <1>1, <3>1, TurnsStay
  <2>3. QED
    BY <1>1, <1>6, <2>1, <2>2, PendingStep
<1>7. QED
  BY <1>5, <1>6 DEF InTime

(* Where nothing is read in the comic reader, the events of an outbox are   *)
(* in the order of the turns, in whatever order their reports failed.  (The *)
(* comic reader stamps them as they fail: see the run progress_comic.)      *)
THEOREM BooksAreStampedInOrder ==
    ASSUME NobodyLate
    PROVE  Spec => []StampedInOrder
<1>1. Init => InTime
  BY DEF Init, InTime, Pending
<1>2. IndInv /\ InTime /\ [Next]_vars => InTime'
  BY InTimeStep
<1>3. IndInv /\ InTime => StampedInOrder
  <2>1. ASSUME IndInv, InTime, NEW b \in Browsers, NEW o \in Owners,
               NEW e \in outbox[b][o], NEW f \in outbox[b][o], e.turn < f.turn
        PROVE  e.at < f.at
    <3>1. e \in Event /\ f \in Event /\ Pending(e) /\ Pending(f)
      BY <2>1 DEF IndInv, TypeOK, Pending
    <3>2. /\ e.turn \in 1 .. Len(turn) /\ f.turn \in 1 .. Len(turn)
          /\ e.at = turn[e.turn].at /\ f.at = turn[f.turn].at
      BY <2>1, <3>1 DEF IndInv, MadeOnce, InTime
    <3>3. QED
      BY <2>1, <3>2 DEF InTime
  <2>2. QED
    BY <2>1 DEF StampedInOrder
<1>4. QED
  BY <1>1, <1>2, <1>3, SpecIndInv, PTL DEF Spec
-----------------------------------------------------------------------------
(* A browser stays in one hand: where somebody has read, no other account   *)
(* gets a session.  Sessions may end and be renewed.                        *)
InOneHand ==
    \A k \in 1 .. Len(turn) : cookie[BrowserOf[turn[k].tab]] \in {NoUser, turn[k].user}

(* An outbox keeps what its account read in its browser; what is left of    *)
(* someone who signs out meanwhile is in nobody's.                          *)
Stored(e, b, o) ==
    /\ BrowserOf[turn[e.turn].tab] = b
    /\ o # NoUser => turn[e.turn].user = o

WorkIsOwn ==
    /\ \A b \in Browsers, o \in Owners : \A e \in outbox[b][o] : Stored(e, b, o)
    /\ \A p \in pushes : \A e \in p.batch : p.user \in {NoUser, turn[e.turn].user}
    /\ \A r \in reports : r.user \in {NoUser, turn[r.turn].user}
    /\ \A r \in journal : r.user = turn[r.event.turn].user

(* No row says that its turn was seen before it was, one from an outbox     *)
(* says when.                                                               *)
RowsInTime ==
    \A r \in journal :
        /\ r.event.at <= clock
        /\ turn[r.event.turn].at <= r.event.at
        /\ r.event.via = "outbox" => r.event.at = turn[r.event.turn].at

(* Sets of numbers have a least one, and so those with a bound a greatest.  *)
LEMMA LeastNatural ==
    ASSUME NEW T \in SUBSET Nat, T # {}
    PROVE  \E x \in T : \A y \in T : x <= y
<1>1. IsWellFoundedOn({ss \in Nat \X Nat : ss[1] < ss[2]}, Nat)
  BY NatLessThanWellFounded, Zenon DEF OpToRel
<1>2. PICK x \in T : \A y \in T : <<y, x>> \notin {ss \in Nat \X Nat : ss[1] < ss[2]}
  BY <1>1, WFMin, Zenon
<1>3. ASSUME NEW y \in T
      PROVE  x <= y
  <2>1. <<y, x>> \in Nat \X Nat
    OBVIOUS
  <2>2. ~ (<<y, x>>[1] < <<y, x>>[2])
    BY <1>2, <2>1, Zenon
  <2>3. QED
    BY <2>2
<1>4. QED
  BY <1>3

LEMMA LatestIsLatest ==
    ASSUME NEW S \in SUBSET Event, S # {}, NEW N \in Nat, \A e \in S : e.at <= N
    PROVE  Latest(S) \in S /\ \A f \in S : f.at <= Latest(S).at
<1> DEFINE T == {N - e.at : e \in S}
<1>1. \A e \in S : e.at \in Nat
  BY DEF Event
<1>2. T \in SUBSET Nat /\ T # {}
  BY <1>1
<1>3. PICK x \in T : \A y \in T : x <= y
  <2> HIDE DEF T
  <2>1. QED
    BY <1>2, LeastNatural
<1>4. PICK e \in S : x = N - e.at
  BY <1>3
<1>5. ASSUME NEW f \in S
      PROVE  f.at <= e.at
  <2>1. x <= N - f.at
    BY <1>3
  <2>2. QED
    BY <1>1, <1>4, <2>1
<1>6. QED
  BY <1>5, Zenon DEF Latest

(* Turns come one at a time, of a reader's page.                            *)
LEMMA TurnIsPage ==
    ASSUME [Next]_vars
    PROVE  turn' = turn \/ \E t \in Tabs, u \in Units : TurnPage(t, u)
<1>1. CASE \/ \E r \in reports : ServeReport(r) \/ LoseReport(r)
           \/ \E k \in 1 .. Len(turn) : ReportDone(k) \/ ReportFailed(k)
           \/ \E t \in Tabs : Acknowledge(t) \/ Unloading(t)
           \/ \E p \in pushes : ServePush(p)
           \/ \E u \in Units : RemoveUnit(u)
           \/ RemovePublication
           \/ Quiet
  BY <1>1 DEF ServeReport, LoseReport, ReportDone, ReportFailed, Acknowledge, Unloading,
     ServePush, RemoveUnit, RemovePublication, Quiet, readers
<1>2. QED
  BY Kinds, <1>1

(* What waits in an outbox was read in its browser, by its account.         *)
LEMMA OutboxesStayOwn ==
    ASSUME IndInv, WorkIsOwn, [Next]_vars
    PROVE  \A b \in Browsers, o \in Owners : \A e \in outbox'[b][o] : Stored(e, b, o)'
<1> USE DEF IndInv, Stored
<1>1. ASSUME NEW b \in Browsers, NEW o \in Owners, NEW e \in outbox[b][o]
      PROVE  Stored(e, b, o)'
  <2>1. e \in Event
    BY <1>1 DEF TypeOK
  <2>2. e.turn \in 1 .. Len(turn)
    BY <1>1, <2>1 DEF MadeOnce, Pending
  <2>3. QED
    BY <1>1, <2>2, TurnsStay DEF WorkIsOwn
<1>2. ASSUME NEW k \in 1 .. Len(turn), ReportFailed(k), turn[k].tab \in Tabs,
             SetOutbox(turn[k].tab, Outbox(turn[k].tab) \cup {Left(k)}),
             NEW b \in Browsers, NEW o \in Owners, NEW e \in outbox'[b][o]
      PROVE  Stored(e, b, o)'
  <2>1. /\ Left(k).turn = k /\ turn'[k] = turn[k]
        /\ scope[turn[k].tab] \in {turn[k].user, NoUser}
    BY <1>2, TurnsStay DEF Left, ReportFailed, TypeOK, ReportersRun
  <2>2. \/ e \in outbox[b][o]
        \/ e = Left(k) /\ o = scope[turn[k].tab] /\ b = BrowserOf[turn[k].tab]
    <3>1. outbox \in [Browsers -> [Owners -> SUBSET Event]]
      BY DEF TypeOK
    <3>2. QED
      BY <1>2, <3>1 DEF SetOutbox, Outbox, Browser
  <2>3. QED
    BY <1>1, <1>2, <2>1, <2>2
<1>3. ASSUME NEW t \in Tabs, SetOutbox(t, Remaining(t)),
             NEW b \in Browsers, NEW o \in Owners, NEW e \in outbox'[b][o]
      PROVE  e \in outbox[b][o]
  <2>1. outbox \in [Browsers -> [Owners -> SUBSET Event]]
    BY DEF TypeOK
  <2>2. QED
    BY <1>3, <2>1 DEF SetOutbox, Remaining, Outbox, Browser
<1>4. ASSUME NEW b \in Browsers, NEW o \in Owners, NEW e \in outbox'[b][o]
      PROVE  Stored(e, b, o)'
  <2>1. CASE e \in outbox[b][o]
    BY <1>1, <2>1
  <2>2. CASE e \notin outbox[b][o]
    BY <1>2, <1>3, <1>4, <2>2, OutboxStep
  <2>3. QED
    BY <2>1, <2>2
<1>5. QED
  BY <1>4

(* Pushes and reports carry the session their turns were read under, or     *)
(* none.                                                                    *)
LEMMA RequestsStayOwn ==
    ASSUME IndInv, WorkIsOwn, InOneHand, InOneHand', [Next]_vars
    PROVE  /\ \A p \in pushes' : \A e \in p.batch : p.user \in {NoUser, turn'[e.turn].user}
           /\ \A r \in reports' : r.user \in {NoUser, turn'[r.turn].user}
<1> USE DEF IndInv
<1>1. ASSUME NEW p \in pushes, NEW e \in p.batch
      PROVE  p.user \in {NoUser, turn'[e.turn].user}
  <2>1. e \in Event
    BY DEF TypeOK, Push
  <2>2. e.turn \in 1 .. Len(turn)
    BY <2>1 DEF MadeOnce, Pending
  <2>3. QED
    BY <2>2, TurnsStay DEF WorkIsOwn
<1>2. ASSUME NEW t \in Tabs, Send(t), NEW q \in pushes', q \notin pushes, NEW e \in q.batch
      PROVE  q.user \in {NoUser, turn'[e.turn].user}
  <2>1. /\ q.user = cookie[BrowserOf[t]] /\ q.batch \in SUBSET Outbox(t)
        /\ Active(t) /\ turn' = turn
    BY <1>2 DEF Send, Browser, readers
  <2>2. scope[t] \in Owners /\ BrowserOf[t] \in Browsers
    BY BrowserAssumption DEF TypeOK
  <2>3. e \in outbox[BrowserOf[t]][scope[t]] /\ e \in Event
    BY <1>2, <2>1, <2>2 DEF Outbox, Browser, TypeOK
  <2>4. e.turn \in 1 .. Len(turn) /\ BrowserOf[turn[e.turn].tab] = BrowserOf[t]
    BY <2>2, <2>3 DEF WorkIsOwn, Stored, MadeOnce, Pending
  <2>5. QED
    BY <2>1, <2>4 DEF InOneHand
<1>3. ASSUME NEW q \in pushes', NEW p \in pushes, q.batch = p.batch, q.user = p.user,
             NEW e \in q.batch
      PROVE  q.user \in {NoUser, turn'[e.turn].user}
  BY <1>1, <1>3
<1>4. ASSUME NEW q \in pushes', NEW e \in q.batch
      PROVE  q.user \in {NoUser, turn'[e.turn].user}
  <2>1. CASE q \in pushes
    BY <1>1, <1>4, <2>1
  <2>2. CASE \E t \in Tabs : Send(t) /\ q \notin pushes
    BY <1>2, <1>4, <2>2
  <2>3. CASE \E p \in pushes : q.batch = p.batch /\ q.user = p.user
    BY <1>3, <1>4, <2>3
  <2>4. QED
    BY <2>1, <2>2, <2>3, BatchStep
<1>5. ASSUME NEW r \in reports
      PROVE  r.user \in {NoUser, turn'[r.turn].user}
  <2>1. r.turn \in 1 .. Len(turn)
    BY DEF ServedOnce
  <2>2. QED
    BY <2>1, TurnsStay DEF WorkIsOwn
<1>6. ASSUME NEW t \in Tabs, NEW u \in Units, TurnPage(t, u), NEW r \in reports'
      PROVE  r.user \in {NoUser, turn'[r.turn].user}
  <2>1. Len(turn) \in Nat /\ turn \in Seq(Turn)
    BY DEF TypeOK
  <2>2. CASE r \in reports
    BY <1>5, <2>2
  <2>3. CASE r = [turn |-> Len(turn) + 1, user |-> cookie[BrowserOf[t]]]
    <3>1. /\ turn'[Len(turn) + 1] = [tab |-> t, user |-> scope[t], unit |-> u, at |-> clock']
          /\ Len(turn') = Len(turn) + 1 /\ cookie' = cookie
      BY <1>6, <2>1 DEF TurnPage, storage
    <3>2. Len(turn) + 1 \in 1 .. Len(turn')
      BY <2>1, <3>1
    <3>3. cookie[BrowserOf[t]] \in {NoUser, scope[t]}
      BY <3>1, <3>2 DEF InOneHand
    <3>4. QED
      BY <2>3, <3>1, <3>3
  <2>4. QED
    BY <1>6, <2>2, <2>3 DEF TurnPage, Browser
<1>7. ASSUME reports' \subseteq reports
      PROVE  \A r \in reports' : r.user \in {NoUser, turn'[r.turn].user}
  BY <1>5, <1>7
<1>8. reports' \subseteq reports \/ \E t \in Tabs, u \in Units : TurnPage(t, u)
  <2>1. CASE \/ \E r \in reports : ServeReport(r) \/ LoseReport(r)
             \/ \E k \in 1 .. Len(turn) : ReportDone(k) \/ ReportFailed(k)
             \/ \E t \in Tabs : Acknowledge(t) \/ Unloading(t)
             \/ \E p \in pushes : ServePush(p)
             \/ \E u \in Units : RemoveUnit(u)
             \/ RemovePublication
             \/ Quiet
    BY <2>1 DEF ServeReport, LoseReport, ReportDone, ReportFailed, Acknowledge, Unloading,
       ServePush, RemoveUnit, RemovePublication, Quiet
  <2>2. QED
    BY <2>1, Kinds, Zenon
<1>9. \A r \in reports' : r.user \in {NoUser, turn'[r.turn].user}
  <2>1. CASE \E t \in Tabs, u \in Units : TurnPage(t, u)
    BY <1>6, <2>1
  <2>2. QED
    BY <1>7, <1>8, <2>1
<1>10. QED
  BY <1>4, <1>9, Zenon

(* The journal credits each turn to who read it.                            *)
LEMMA RowsStayOwn ==
    ASSUME IndInv, WorkIsOwn, [Next]_vars
    PROVE  \A r \in journal' : r.user = turn'[r.event.turn].user
<1> USE DEF IndInv
<1>1. ASSUME NEW r \in journal
      PROVE  r.user = turn'[r.event.turn].user
  <2>1. r.event.turn \in 1 .. Len(turn)
    BY DEF ServedOnce
  <2>2. QED
    BY <2>1, TurnsStay DEF WorkIsOwn
<1>2. ASSUME NEW r \in reports, ServeReport(r), journal' = journal \cup {Reported(r)},
             NEW s \in journal'
      PROVE  s.user = turn'[s.event.turn].user
  <2>1. r.turn \in 1 .. Len(turn) /\ r.user \in {NoUser, turn[r.turn].user}
    BY DEF ServedOnce, WorkIsOwn
  <2>2. Reported(r).event.turn = r.turn /\ Reported(r).user = r.user
    BY DEF Reported
  <2>3. CASE s \in journal
    BY <1>1, <2>3
  <2>4. CASE s \notin journal
    <3>1. s = Reported(r) /\ r.user # NoUser
      BY <1>2, <2>4 DEF ServeReport
    <3>2. QED
      BY <2>1, <2>2, <3>1, TurnsStay
  <2>5. QED
    BY <2>3, <2>4
<1>3. ASSUME NEW p \in pushes, p.user # NoUser, NEW r \in NewRows(p.batch, p.user)
      PROVE  r.user = turn'[r.event.turn].user
  <2>1. CASE r.event \in p.batch /\ r.user = p.user /\ r.event.turn \in 1 .. Len(turn)
    BY <1>3, <2>1, TurnsStay DEF WorkIsOwn
  <2>2. QED
    BY <1>1, <2>1, NewRowsFresh
<1>4. QED
  BY <1>1, <1>2, <1>3, JournalStep

(* While a browser stays in one hand, its work is its reader's.             *)
LEMMA OwnStep ==
    ASSUME IndInv, WorkIsOwn, InOneHand, InOneHand', [Next]_vars
    PROVE  WorkIsOwn'
<1>1. \A b \in Browsers, o \in Owners : \A e \in outbox'[b][o] : Stored(e, b, o)'
  BY OutboxesStayOwn
<1>2. /\ \A p \in pushes' : \A e \in p.batch : p.user \in {NoUser, turn'[e.turn].user}
      /\ \A r \in reports' : r.user \in {NoUser, turn'[r.turn].user}
  BY RequestsStayOwn
<1>3. \A r \in journal' : r.user = turn'[r.event.turn].user
  BY RowsStayOwn
<1>4. QED
  BY <1>1, <1>2, <1>3 DEF WorkIsOwn

LEMMA OwnFirst == Init => WorkIsOwn
BY DEF Init, WorkIsOwn, Stored

(* Rows and the stamps of their turns.                                      *)
LEMMA RowsInTimeStep ==
    ASSUME NobodyLate, IndInv, InTime, RowsInTime, [Next]_vars
    PROVE  RowsInTime'
<1> DEFINE Timely(r) ==
        /\ r.event.at <= clock
        /\ turn[r.event.turn].at <= r.event.at
        /\ r.event.via = "outbox" => r.event.at = turn[r.event.turn].at
<1> USE DEF IndInv
<1>0. clock \in Nat /\ clock' \in Nat /\ clock <= clock'
  BY ClockStep
<1>1. ASSUME NEW r \in journal
      PROVE  Timely(r)'
  <2>1. r.event.turn \in 1 .. Len(turn) /\ r.event.at \in Nat
    BY DEF ServedOnce, TypeOK, Row, Event
  <2>2. QED
    BY <1>0, <2>1, TurnsStay DEF RowsInTime
<1>2. ASSUME NEW r \in reports, ServeReport(r), journal' = journal \cup {Reported(r)}
      PROVE  RowsInTime'
  <2>1. /\ Reported(r).event.turn = r.turn /\ Reported(r).event.at = clock + 1
        /\ Reported(r).event.via = "report"
    BY DEF Reported
  <2>2. r.turn \in 1 .. Len(turn) /\ turn[r.turn].at \in Nat /\ turn[r.turn].at <= clock
    BY TurnsStay DEF ServedOnce, InTime, Turn
  <2>3. CASE Reported(r) \in journal
    BY <1>1, <1>2, <2>3 DEF RowsInTime
  <2>4. CASE Reported(r) \notin journal
    <3>1. clock' = clock + 1
      <4>1. journal' # journal
        BY <1>2, <2>4
      <4>2. QED
        BY <1>2, <4>1 DEF ServeReport
    <3>2. ASSUME NEW s \in journal'
          PROVE  Timely(s)'
      <4>1. CASE s = Reported(r)
        <5>1. turn'[r.turn] = turn[r.turn]
          BY <2>2, TurnsStay
        <5>2. QED
          BY <1>0, <2>1, <2>2, <3>1, <4>1, <5>1
      <4>2. QED
        BY <1>1, <1>2, <3>2, <4>1
    <3>3. QED
      BY <3>2 DEF RowsInTime
  <2>5. QED
    BY <2>3, <2>4
<1>3. ASSUME NEW p \in pushes, NEW r \in NewRows(p.batch, p.user)
      PROVE  Timely(r)'
  <2>1. CASE /\ r.event \in Event /\ Pending(r.event)
             /\ r.event.via = "outbox" /\ r.event.turn \in 1 .. Len(turn)
    <3>1. /\ r.event.at = turn[r.event.turn].at /\ r.event.at <= clock
          /\ turn[r.event.turn].at \in Nat
      BY <2>1, TurnsStay DEF InTime, Turn
    <3>2. QED
      BY <1>0, <2>1, <3>1, TurnsStay
  <2>2. QED
    BY <1>1, <2>1, NewRowsFresh
<1>4. QED
  BY <1>1, <1>2, <1>3, JournalStep DEF RowsInTime

(* Of the events kept for an account here and on the server, the position   *)
(* is one that no other is later than.                                      *)
LEMMA PositionIsLatest ==
    ASSUME IndInv, InTime, RowsInTime, NEW b \in Browsers, NEW u \in Users,
           NEW f, f \in {r.event : r \in {s \in journal : s.user = u}} \cup outbox[b][u]
    PROVE  /\ Position(b, u) \in {r.event : r \in {s \in journal : s.user = u}} \cup outbox[b][u]
           /\ f.at <= Position(b, u).at
<1> DEFINE stored == {r.event : r \in {s \in journal : s.user = u}}
           waiting == outbox[b][u]
           last == {Latest(events) : events \in {stored, waiting} \ {{}}}
<1> USE DEF IndInv
<1>1. clock \in Nat /\ stored \in SUBSET Event /\ waiting \in SUBSET Event
  BY DEF TypeOK, Row
<1>2. \A e \in stored : e.at <= clock
  BY DEF RowsInTime
<1>3. \A e \in waiting : e.at <= clock
  <2>1. ASSUME NEW e \in waiting
        PROVE  e.at <= clock
    <3>1. e \in Event /\ Pending(e)
      BY <1>1, <2>1 DEF Pending
    <3>2. QED
      BY <3>1 DEF MadeOnce, InTime
  <2>2. QED
    BY <2>1
<1>4. Position(b, u) = Latest(last)
  BY DEF Position
<1> HIDE DEF stored, waiting
<1>5. stored # {} => Latest(stored) \in stored /\ \A e \in stored : e.at <= Latest(stored).at
  BY <1>1, <1>2, LatestIsLatest
<1>6. waiting # {} => Latest(waiting) \in waiting /\ \A e \in waiting : e.at <= Latest(waiting).at
  BY <1>1, <1>3, LatestIsLatest
<1>7. \A x \in last : x \in stored \cup waiting
  BY <1>5, <1>6
<1>8. PICK g \in last : f.at <= g.at
  <2>1. CASE f \in stored
    BY <1>5, <2>1
  <2>2. CASE f \in waiting
    BY <1>6, <2>2
  <2>3. QED
    BY <2>1, <2>2 DEF stored, waiting
<1>9. last \in SUBSET Event /\ last # {} /\ \A e \in last : e.at <= clock
  BY <1>1, <1>2, <1>3, <1>7, <1>8
<1> HIDE DEF last
<1>10. Latest(last) \in last /\ g.at <= Latest(last).at
  BY <1>1, <1>8, <1>9, LatestIsLatest
<1>11. \A e \in Event : e.at \in Nat
  BY DEF Event
<1>12. f \in Event
  BY <1>1 DEF stored, waiting
<1>13. f.at <= Latest(last).at
  BY <1>8, <1>9, <1>10, <1>11, <1>12
<1>14. QED
  BY <1>4, <1>7, <1>10, <1>13 DEF stored, waiting

(* While a browser stays in one hand, offline work is credited to the       *)
(* account that was reading, with any number of pages, whenever sessions    *)
(* end and whoever signs out: the window of progress_switch needs a change  *)
(* of hands.                                                                *)
THEOREM OneHandKeepsWorkOwn == Spec /\ []InOneHand => []NeverUnderAnother
<1>1. WorkIsOwn => NeverUnderAnother
  BY DEF WorkIsOwn, NeverUnderAnother
<1>2. IndInv /\ WorkIsOwn /\ InOneHand /\ InOneHand' /\ [Next]_vars => WorkIsOwn'
  BY OwnStep
<1>3. QED
  BY <1>1, <1>2, OwnFirst, SpecIndInv, PTL DEF Spec
-----------------------------------------------------------------------------
(* Where nobody signs out, a page whose report is open works for who turned *)
(* it, and nothing is left behind for nobody.                               *)
NobodySignsOut == MaxFaults["leave"] = 0

Attended ==
    /\ \A t \in Tabs : stage[t] \in {"boot", "use"}
    /\ \A k \in 1 .. Len(turn) : status[k] # "over" => scope[turn[k].tab] = turn[k].user
    /\ \A b \in Browsers : outbox[b][NoUser] = {}

(* A page changes its account only by loading again.                        *)
LEMMA PagesStayIn ==
    ASSUME NobodySignsOut, TypeOK, \A t \in Tabs : stage[t] \in {"boot", "use"}, [Next]_vars
    PROVE  /\ \A t \in Tabs : stage'[t] \in {"boot", "use"}
           /\ \A t \in Tabs : stage[t] # "boot" => scope'[t] = scope[t]
<1> DEFINE Goal == /\ \A t \in Tabs : stage'[t] \in {"boot", "use"}
                   /\ \A t \in Tabs : stage[t] # "boot" => scope'[t] = scope[t]
<1>1. /\ scope \in [Tabs -> Owners]
      /\ stage \in [Tabs -> {"boot", "use", "revoked", "left"}]
  BY DEF TypeOK
<1>2. ~Fault("leave")
  BY DEF TypeOK, Fault, NobodySignsOut
<1>3. ASSUME UNCHANGED <<scope, stage>>
      PROVE  Goal
  BY <1>3
<1>4. ASSUME NEW t \in Tabs, NEW next \in {"boot", "use"}, Unload(t, next), scope' = scope
      PROVE  Goal
  BY <1>1, <1>4 DEF Unload
<1>5. ASSUME NEW t \in Tabs, Boot(t)
      PROVE  Goal
  BY <1>1, <1>5 DEF Boot
<1>6. ASSUME NEW t \in Tabs, \/ Reload(t) \/ Notice(t) \/ \E u \in Users : SignIn(t, u)
      PROVE  Goal
  BY <1>4, <1>6 DEF Reload, Notice, SignIn
<1>7. ASSUME NEW t \in Tabs, Verify(t)
      PROVE  Goal
  <2>1. scope' = scope /\ (UNCHANGED stage \/ Unload(t, "boot"))
    BY <1>7 DEF Verify
  <2>2. QED
    BY <1>3, <1>4, <2>1
<1>8. ASSUME NEW t \in Tabs, Revoke(t) \/ SignOut(t) \/ LeavePage(t)
      PROVE  Goal
  BY <1>2, <1>8 DEF Revoke, SignOut, LeavePage
<1>9. ASSUME NEW t \in Tabs, StartDrain(t) \/ Send(t) \/ Acknowledge(t) \/ PushFailed(t)
                               \/ PushTimeout(t)
      PROVE  Goal
  BY <1>3, <1>9 DEF StartDrain, Send, Acknowledge, PushFailed, PushTimeout, pages
<1>10. CASE \/ \E t \in Tabs, u \in Units : TurnPage(t, u)
            \/ \E r \in reports : ServeReport(r) \/ LoseReport(r)
            \/ \E k \in 1 .. Len(turn) : ReportDone(k) \/ ReportFailed(k)
            \/ \E p \in pushes : ServePush(p) \/ LosePush(p)
            \/ \E b \in Browsers : Expire(b)
            \/ \E u \in Units : RemoveUnit(u)
            \/ RemovePublication
            \/ UNCHANGED vars
  BY <1>3, <1>10 DEF TurnPage, ServeReport, LoseReport, ReportDone, ReportFailed, ServePush,
     LosePush, Expire, RemoveUnit, RemovePublication, pages, vars
<1>11. QED
  BY <1>5, <1>6, <1>7, <1>8, <1>9, <1>10 DEF Next, DrainStep

LEMMA AttendedStep ==
    ASSUME NobodySignsOut, IndInv, Attended, [Next]_vars
    PROVE  Attended'
<1>1. TypeOK /\ TurnsCounted /\ ServedOnce /\ ReportersRun
  BY DEF IndInv
<1>2. /\ \A t \in Tabs : stage'[t] \in {"boot", "use"}
      /\ \A t \in Tabs : stage[t] # "boot" => scope'[t] = scope[t]
  BY <1>1, PagesStayIn DEF Attended
<1>3. ASSUME NEW k \in 1 .. Len(turn), status'[k] # "over"
      PROVE  scope'[turn'[k].tab] = turn'[k].user
  <2>1. turn'[k] = turn[k] /\ turn[k].tab \in Tabs
    BY <1>1, TurnsStay DEF Turn
  <2>2. status[k] # "over"
    BY <1>1, <1>3, StatusStep
  <2>3. QED
    BY <1>1, <1>2, <2>1, <2>2 DEF Attended, ReportersRun
<1>4. ASSUME NEW k \in 1 .. Len(turn'), status'[k] # "over"
      PROVE  scope'[turn'[k].tab] = turn'[k].user
  <2>1. CASE turn' = turn
    BY <1>3, <1>4, <2>1
  <2>2. ASSUME NEW t \in Tabs, NEW u \in Units, TurnPage(t, u)
        PROVE  scope'[turn'[k].tab] = turn'[k].user
    <3>1. /\ Len(turn') = Len(turn) + 1 /\ Len(turn) \in Nat
          /\ turn'[Len(turn')].tab = t /\ turn'[Len(turn')].user = scope[t]
          /\ scope' = scope
      BY <1>1, <2>2 DEF TurnPage, TypeOK, pages
    <3>2. CASE k = Len(turn')
      BY <3>1, <3>2
    <3>3. CASE k \in 1 .. Len(turn)
      BY <1>3, <1>4, <3>3
    <3>4. QED
      BY <3>1, <3>2, <3>3
  <2>3. QED
    BY <2>1, <2>2, TurnIsPage
<1>5. ASSUME NEW b \in Browsers
      PROVE  outbox'[b][NoUser] = {}
  <2>1. outbox \in [Browsers -> [Owners -> SUBSET Event]] /\ NoUser \in Owners
    BY <1>1 DEF TypeOK
  <2>2. outbox[b][NoUser] = {}
    BY DEF Attended
  <2>3. ASSUME NEW k \in 1 .. Len(turn), ReportFailed(k), turn[k].tab \in Tabs,
               SetOutbox(turn[k].tab, Outbox(turn[k].tab) \cup {Left(k)})
        PROVE  outbox'[b][NoUser] = {}
    <3>1. status[k] # "over" /\ turn[k] \in Turn
      BY <1>1, <2>3 DEF ReportFailed, TypeOK
    <3>2. scope[turn[k].tab] # NoUser
      BY <3>1, NobodyAssumption DEF Attended, Turn
    <3>3. QED
      BY <2>1, <2>2, <2>3, <3>2 DEF SetOutbox, Browser
  <2>4. ASSUME NEW t \in Tabs, SetOutbox(t, Remaining(t))
        PROVE  outbox'[b][NoUser] = {}
    BY <2>1, <2>2, <2>4 DEF SetOutbox, Remaining, Outbox, Browser
  <2>5. QED
    BY <1>1, <2>2, <2>3, <2>4, OutboxStep
<1>6. QED
  BY <1>2, <1>4, <1>5 DEF Attended

(* Of books, with any number of accounts, browsers and pages, reading       *)
(* resumes at the page turned last in a browser, whatever was lost,         *)
(* repeated or reordered and whenever sessions end, while a browser stays   *)
(* in one hand and nobody signs out.                                        *)
THEOREM BooksResumeInOneHand ==
    ASSUME NobodyLate, NobodySignsOut
    PROVE  Spec /\ []InOneHand => []ResumesAtLast
<1> DEFINE Inv == InTime /\ RowsInTime /\ Attended /\ WorkIsOwn
<1>1. Init => Inv
  BY OwnFirst DEF Init, InTime, Pending, RowsInTime, Attended
<1>2. IndInv /\ Inv /\ InOneHand /\ InOneHand' /\ [Next]_vars => Inv'
  BY InTimeStep, RowsInTimeStep, AttendedStep, OwnStep
<1>3. IndInv /\ Inv => ResumesAtLast
  <2> SUFFICES ASSUME IndInv, Inv, NEW b \in Browsers, NEW u \in Users,
                      NEW k \in 1 .. Len(turn), turn[k].user = u, BrowserOf[turn[k].tab] = b,
                      known = Units, status[k] = "over", k \notin dropped,
                      \A r \in journal :
                          r.event.via = "report" /\ r.event.turn < k => r.event.at < turn[k].at
               PROVE  k <= Position(b, u).turn
    BY DEF ResumesAtLast
  <2> DEFINE kept == {r.event : r \in {s \in journal : s.user = u}} \cup outbox[b][u]
             p == Position(b, u)
  <2>1. turn[k] \in Turn
    BY DEF IndInv, TypeOK
  <2>2. PICK f \in kept : f.turn = k
    <3>1. u # NoUser /\ NoUser \in Owners /\ turn[k].unit \in known
      BY <2>1, NobodyAssumption DEF Turn
    <3>2. \A e \in outbox[b][NoUser] : e.turn # k
      BY DEF Attended
    <3>3. \A r \in journal : r.event.turn = k => r.user = u
      BY DEF WorkIsOwn
    <3>4. QED
      BY <3>1, <3>2, <3>3 DEF IndInv, NothingLost
  <2>3. \A e \in kept : /\ e \in Event /\ e.turn \in 1 .. Len(turn)
                        /\ turn[e.turn].at <= e.at
                        /\ \/ e.at = turn[e.turn].at
                           \/ e.turn < k => e.at < turn[k].at
    <3>1. ASSUME NEW r \in journal
          PROVE  /\ r.event \in Event /\ r.event.turn \in 1 .. Len(turn)
                 /\ turn[r.event.turn].at <= r.event.at
                 /\ \/ r.event.at = turn[r.event.turn].at
                    \/ r.event.turn < k => r.event.at < turn[k].at
      <4>1. r.event \in Event /\ r.event.via \in {"report", "outbox"}
        BY DEF IndInv, TypeOK, Row, Event
      <4>2. QED
        BY <4>1 DEF IndInv, ServedOnce, RowsInTime
    <3>2. ASSUME NEW e \in outbox[b][u]
          PROVE  e \in Event /\ e.turn \in 1 .. Len(turn) /\ e.at = turn[e.turn].at
      <4>1. e \in Event /\ Pending(e)
        BY <3>2 DEF IndInv, TypeOK, Pending
      <4>2. QED
        BY <4>1 DEF IndInv, MadeOnce, InTime
    <3>3. \A e \in Event : e.at \in Nat
      BY DEF Event
    <3>4. QED
      BY <3>1, <3>2, <3>3
  <2>4. p \in kept /\ f.at <= p.at
    BY <2>2, PositionIsLatest
  <2> HIDE DEF kept, p
  <2>5. /\ p.turn \in 1 .. Len(turn) /\ turn[k].at <= f.at
        /\ p.at \in Nat /\ f.at \in Nat /\ turn[k].at \in Nat
    BY <2>1, <2>2, <2>3, <2>4 DEF Event, Turn
  <2>6. ASSUME p.turn < k
        PROVE  FALSE
    <3>1. turn[p.turn].at < turn[k].at
      BY <2>5, <2>6 DEF InTime
    <3>2. p.at < turn[k].at
      BY <2>3, <2>4, <2>6, <3>1
    <3>3. QED
      BY <2>4, <2>5, <3>2
  <2>7. QED
    BY <2>5, <2>6 DEF p
<1>4. QED
  <2> HIDE DEF Inv
  <2>1. QED
    BY <1>1, <1>2, <1>3, SpecIndInv, PTL DEF Spec
-----------------------------------------------------------------------------
(* Where nobody signs out and no session ends, a page works for nobody yet  *)
(* or for the account of its browser.                                       *)
NobodyLeaves == MaxFaults["leave"] = 0 /\ MaxFaults["expire"] = 0

SignedIn ==
    /\ \A t \in Tabs : stage[t] \in {"boot", "use"}
    /\ \A t \in Tabs : scope[t] \in {NoUser, cookie[BrowserOf[t]]}
    /\ \A b \in Browsers : owner[b] \in {NoUser, cookie[b]}

(* All that was read in a browser is that account's.                        *)
TurnsAreOwn == \A k \in 1 .. Len(turn) : turn[k].user = cookie[BrowserOf[turn[k].tab]]

(* Nobody leaves, so a page changes its account only by loading again, and  *)
(* a session is gained and never lost.                                      *)
LEMMA SignedInStep ==
    ASSUME NobodyLeaves, TypeOK, SignedIn, [Next]_vars
    PROVE  /\ SignedIn'
           /\ \A b \in Browsers : cookie[b] # NoUser => cookie'[b] = cookie[b]
           /\ \A t \in Tabs : stage[t] # "boot" => scope'[t] = scope[t]
<1> DEFINE Goal == /\ SignedIn'
                   /\ \A b \in Browsers : cookie[b] # NoUser => cookie'[b] = cookie[b]
                   /\ \A t \in Tabs : stage[t] # "boot" => scope'[t] = scope[t]
<1> USE BrowserAssumption DEF SignedIn
<1>1. /\ cookie \in [Browsers -> Owners] /\ owner \in [Browsers -> Owners]
      /\ scope \in [Tabs -> Owners]
      /\ stage \in [Tabs -> {"boot", "use", "revoked", "left"}]
  BY DEF TypeOK
<1>2. ~Fault("leave") /\ ~Fault("expire")
  BY DEF TypeOK, Fault, NobodyLeaves
<1>3. ASSUME UNCHANGED <<cookie, owner, scope, stage>>
      PROVE  Goal
  BY <1>3
<1>4. ASSUME NEW t \in Tabs, NEW next \in {"boot", "use"}, Unload(t, next),
             UNCHANGED <<cookie, owner, scope>>
      PROVE  Goal
  BY <1>1, <1>4 DEF Unload
<1>5. ASSUME NEW t \in Tabs, Boot(t)
      PROVE  Goal
  <2>1. stage' = [stage EXCEPT ![t] = "use"] /\ stage[t] = "boot" /\ UNCHANGED cookie
    BY <1>5 DEF Boot
  <2>2. CASE SetOwner(t, cookie[BrowserOf[t]]) /\ scope' = [scope EXCEPT ![t] = cookie[BrowserOf[t]]]
    BY <1>1, <2>1, <2>2 DEF SetOwner, Browser
  <2>3. CASE owner' = owner /\ scope' = [scope EXCEPT ![t] = owner[BrowserOf[t]]]
    BY <1>1, <2>1, <2>3
  <2>4. QED
    BY <1>5, <2>2, <2>3 DEF Boot, Browser
<1>6. ASSUME NEW t \in Tabs, NEW u \in Users, SignIn(t, u)
      PROVE  Goal
  <2>1. /\ cookie[BrowserOf[t]] = NoUser
        /\ cookie' = [cookie EXCEPT ![BrowserOf[t]] = u]
        /\ UNCHANGED <<owner, scope>>
        /\ stage' = [stage EXCEPT ![t] = "boot"]
    BY <1>6 DEF SignIn, Unload, Browser
  <2>2. QED
    BY <1>1, <2>1
<1>7. ASSUME NEW t \in Tabs, Verify(t)
      PROVE  Goal
  <2>1. CASE SetOwner(t, cookie[BrowserOf[t]]) /\ Unload(t, "boot")
    BY <1>1, <1>7, <2>1 DEF Verify, SetOwner, Unload, Browser
  <2>2. CASE UNCHANGED <<owner, stage>>
    BY <1>3, <1>7, <2>2 DEF Verify
  <2>3. QED
    BY <1>7, <2>1, <2>2 DEF Verify, Browser
<1>8. ASSUME NEW t \in Tabs, Revoke(t) \/ SignOut(t) \/ LeavePage(t)
      PROVE  Goal
  BY <1>2, <1>8 DEF Revoke, SignOut, LeavePage
<1>9. ASSUME NEW b \in Browsers, Expire(b)
      PROVE  Goal
  BY <1>2, <1>9 DEF Expire
<1>10. ASSUME NEW t \in Tabs, Reload(t) \/ Notice(t)
       PROVE  Goal
  BY <1>4, <1>10 DEF Reload, Notice, storage
<1>11. ASSUME NEW t \in Tabs, StartDrain(t) \/ Send(t) \/ Acknowledge(t) \/ PushFailed(t)
                               \/ PushTimeout(t)
       PROVE  Goal
  BY <1>3, <1>11 DEF StartDrain, Send, Acknowledge, PushFailed, PushTimeout, storage, pages
<1>12. CASE \/ \E t \in Tabs, u \in Units : TurnPage(t, u)
            \/ \E r \in reports : ServeReport(r) \/ LoseReport(r)
            \/ \E k \in 1 .. Len(turn) : ReportDone(k) \/ ReportFailed(k)
            \/ \E p \in pushes : ServePush(p) \/ LosePush(p)
            \/ \E u \in Units : RemoveUnit(u)
            \/ RemovePublication
            \/ UNCHANGED vars
  BY <1>3, <1>12 DEF TurnPage, ServeReport, LoseReport, ReportDone, ReportFailed, ServePush,
     LosePush, RemoveUnit, RemovePublication, storage, pages, vars
<1>13. QED
  BY <1>5, <1>6, <1>7, <1>8, <1>9, <1>10, <1>11, <1>12 DEF Next, DrainStep

(* A turn is its browser's account's, which stays.                          *)
LEMMA TurnsAreOwnStep ==
    ASSUME NobodyLeaves, IndInv, SignedIn, TurnsAreOwn, [Next]_vars
    PROVE  TurnsAreOwn'
<1>1. TypeOK /\ TurnsCounted /\ ServedOnce
  BY DEF IndInv
<1>2. ASSUME NEW k \in 1 .. Len(turn)
      PROVE  turn'[k].user = cookie'[BrowserOf[turn'[k].tab]]
  <2>1. /\ turn'[k] = turn[k]
        /\ turn[k].tab \in Tabs /\ turn[k].user \in Users
        /\ BrowserOf[turn[k].tab] \in Browsers
    BY <1>1, TurnsStay, BrowserAssumption DEF Turn
  <2>2. QED
    BY <1>1, <2>1, SignedInStep, NobodyAssumption DEF TurnsAreOwn
<1>3. CASE turn' = turn
  BY <1>2, <1>3 DEF TurnsAreOwn
<1>4. ASSUME NEW t \in Tabs, NEW u \in Units, TurnPage(t, u)
      PROVE  TurnsAreOwn'
  <2>1. /\ Len(turn') = Len(turn) + 1 /\ Len(turn) \in Nat
        /\ turn'[Len(turn')].tab = t /\ turn'[Len(turn')].user = scope[t]
        /\ scope[t] # NoUser /\ UNCHANGED <<cookie, scope>>
    BY <1>1, <1>4 DEF TurnPage, Active, TypeOK, storage, pages
  <2>2. scope[t] = cookie[BrowserOf[t]]
    BY <2>1 DEF SignedIn
  <2>3. ASSUME NEW k \in 1 .. Len(turn')
        PROVE  turn'[k].user = cookie'[BrowserOf[turn'[k].tab]]
    <3>1. CASE k = Len(turn')
      BY <2>1, <2>2, <3>1
    <3>2. CASE k \in 1 .. Len(turn)
      BY <1>2, <3>2
    <3>3. QED
      BY <2>1, <3>1, <3>2
  <2>4. QED
    BY <2>3 DEF TurnsAreOwn
<1>5. QED
  BY <1>1, <1>3, <1>4, TurnIsPage

(* So such browsers stay in one hand.                                       *)
LEMMA StayingInIsOneHand ==
    ASSUME NobodyLeaves
    PROVE  Spec => []InOneHand
<1> DEFINE Inv == SignedIn /\ TurnsAreOwn
<1>1. Init => Inv
  BY BrowserAssumption DEF Init, SignedIn, TurnsAreOwn
<1>2. IndInv /\ Inv /\ [Next]_vars => Inv'
  BY SignedInStep, TurnsAreOwnStep DEF IndInv
<1>3. Inv => InOneHand
  BY DEF TurnsAreOwn, InOneHand
<1> HIDE DEF Inv
<1>4. QED
  BY <1>1, <1>2, <1>3, SpecIndInv, PTL DEF Spec

(* While people stay signed in and nothing is read in the comic reader,     *)
(* reading resumes at the page turned last in a browser, for any number of  *)
(* accounts, browsers and pages, whatever was lost, repeated or reordered.  *)
THEOREM BooksResumeAtLast ==
    ASSUME NobodyLate, NobodyLeaves
    PROVE  Spec => []ResumesAtLast
<1>1. NobodySignsOut
  BY DEF NobodyLeaves, NobodySignsOut
<1>2. QED
  BY <1>1, StayingInIsOneHand, BooksResumeInOneHand, PTL

(* With any number of pages in a browser, too, offline work is credited to  *)
(* the account that was reading, as long as nobody signs out and no session *)
(* ends.                                                                    *)
THEOREM StayingInKeepsWorkOwn ==
    ASSUME NobodyLeaves
    PROVE  Spec => []NeverUnderAnother
BY StayingInIsOneHand, OneHandKeepsWorkOwn, PTL
=============================================================================
