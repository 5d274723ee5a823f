------------------------------ MODULE Accounts ------------------------------
(***************************************************************************)
(* Accounts of the server: sign-ins that find or create the account of a   *)
(* subject of the identity provider, statement by statement and side by    *)
(* side; the start-up that rejoins accounts an older build had split; and  *)
(* the one-time transfer of the history read before accounts existed.      *)
(***************************************************************************)
EXTENDS Naturals, FiniteSets, Functions

CONSTANTS
    Subjects,       \* subjects of the identity provider
    NameOf,         \* the username of each: one person may have several
    SignIns,        \* requests that resolve a subject at the same time
    MaxWritten,     \* bound: chapters read, old ones included
    MaxStarts       \* bound: starts of the server

Names == {NameOf[s] : s \in Subjects}
Ids == Nat \ {0}
Shared == 0             \* SHARED_USER; also: no account
Everyone == "everyone"  \* who reads without accounts: nobody's username

ASSUME SubjectsAssumption ==
    /\ IsFiniteSet(Subjects) /\ Subjects # {}
    /\ Everyone \notin Names
    /\ MaxStarts \in Nat

VARIABLES
    users,      \* rows of users, the shared account's aside
    identities, \* user_identities: the account of each subject
    claim,      \* the singleton row of shared_history_claim
    journal,    \* progress_events
    lastSeq,    \* the last number given to a row of it (AUTOINCREMENT)
    readers,    \* accounts that have read marks
    sessions,   \* each request's session, if it opened one
    signIn,     \* each request: where upsert_oidc_user is, and with whom;
                \* history: the newest account when it looked for the sole one
    server,     \* "down", "starting", or the mode it runs in
    lastId, starts

accountVars == <<users, identities, claim, journal, lastSeq, readers, sessions, signIn,
                 server, lastId, starts>>
rows == <<users, identities, lastId>>
history == <<claim, journal, lastSeq, readers>>

(* A qualified username is an older build's "<username>-<subject>". *)
UserRow == [id : Ids, subject : Subjects, name : Names, qualified : BOOLEAN]
EventRow == [seq : Ids, owner : {Shared} \cup Ids,
             first : Ids,                   \* history: its number when it was read,
             by : Names \cup {Everyone},    \* who read,
             late : BOOLEAN]                \* and whether the claim had been made
Place == {"idle", "identity", "subject", "name", "insert", "winner", "register",
          "refresh", "claim", "refused"}

AccountsTypeOK ==
    /\ users \subseteq UserRow
    /\ identities \in [Subjects -> {Shared} \cup Ids]
    /\ claim \in {Shared} \cup Ids
    /\ journal \subseteq EventRow /\ lastSeq \in Nat
    /\ readers \subseteq {Shared} \cup Ids
    /\ sessions \in [SignIns -> {Shared} \cup Ids]
    /\ signIn \in [SignIns -> [at : Place, subject : Subjects,
                               who : {Shared} \cup Ids, sole : {Shared} \cup Ids,
                               last : Nat]]
    /\ server \in {"down", "starting", "single", "oidc"}
    /\ lastId \in {Shared} \cup Ids /\ starts \in 0 .. MaxStarts

Idle == [at |-> "idle", subject |-> CHOOSE s \in Subjects : TRUE, who |-> Shared,
         sole |-> Shared, last |-> 0]

(* What an older build left: accounts created one after the other, of which *)
(* a later one of the same person was qualified; each has read something.   *)
Older(S, id) ==
    {[id |-> id[s], subject |-> s, name |-> NameOf[s],
      qualified |-> \E t \in S : NameOf[t] = NameOf[s] /\ id[t] < id[s]] : s \in S}

EventOf(n, owner, by) ==
    [seq |-> n, owner |-> owner, first |-> n, by |-> by, late |-> claim # Shared]

AccountsInit ==
    /\ claim = Shared
    /\ \E S \in SUBSET Subjects :
       \E id \in Bijection(S, 1 .. Cardinality(S)) :
          /\ users = Older(S, id)
          /\ identities = [s \in Subjects |-> IF s \in S THEN id[s] ELSE Shared]
          /\ journal = {EventOf(1, Shared, Everyone)}
                        \cup {EventOf(u.id + 1, u.id, u.name) : u \in users}
          /\ readers = 0 .. Cardinality(S)
          /\ lastId = Cardinality(S) /\ lastSeq = lastId + 1
    /\ sessions = [r \in SignIns |-> Shared]
    /\ signIn = [r \in SignIns |-> Idle]
    /\ server = "down" /\ starts = 0
-----------------------------------------------------------------------------
(* upsert_oidc_user, one statement at a time. *)
Subject(r) == signIn[r].subject
Go(r, at) == signIn' = [signIn EXCEPT ![r].at = at]
Resolved(r, who, at) == signIn' = [signIn EXCEPT ![r].at = at, ![r].who = who]

SignIn(r, s) ==
    /\ server = "oidc" /\ signIn[r].at = "idle"
    /\ signIn' = [signIn EXCEPT ![r] = [Idle EXCEPT !.at = "identity", !.subject = s]]
    /\ UNCHANGED <<rows, history, sessions, server, starts>>

LookUp(r) ==
    LET bySubject == {u \in users : u.subject = Subject(r)}
        byName == {u \in users : u.name = NameOf[Subject(r)] /\ ~u.qualified}
        Found(among) == \E u \in among : Resolved(r, u.id, "register")
    IN  /\ CASE signIn[r].at = "identity" ->
                  IF identities[Subject(r)] # Shared
                  THEN Resolved(r, identities[Subject(r)], "refresh") ELSE Go(r, "subject")
             [] signIn[r].at = "subject" ->
                  IF bySubject # {} THEN Found(bySubject) ELSE Go(r, "name")
             [] signIn[r].at = "name" ->
                  IF byName # {} THEN Found(byName) ELSE Go(r, "insert")
             [] signIn[r].at = "winner" ->
                  IF identities[Subject(r)] # Shared
                  THEN Resolved(r, identities[Subject(r)], "register")
                  ELSE IF bySubject \cup byName # {} THEN Found(bySubject \cup byName)
                  ELSE Go(r, "refused")
             [] OTHER -> FALSE
        /\ UNCHANGED <<rows, history, sessions, server, starts>>

(* Mutant of Taken: only the subject is unique. *)
TakenSubject(s) == \E u \in users : u.subject = s

(* The unique columns of users. *)
Taken(s) == \E u \in users : u.subject = s \/ (u.name = NameOf[s] /\ ~u.qualified)

InsertUser(r) ==
    /\ signIn[r].at = "insert"
    /\ IF Taken(Subject(r)) THEN Go(r, "winner") /\ UNCHANGED rows
       ELSE /\ lastId' = lastId + 1
            /\ users' = users \cup {[id |-> lastId + 1, subject |-> Subject(r),
                                     name |-> NameOf[Subject(r)], qualified |-> FALSE]}
            /\ Resolved(r, lastId + 1, "register")
            /\ UNCHANGED identities
    /\ UNCHANGED <<history, sessions, server, starts>>

(* register_identity: the first stays. *)
RegisterIdentity(r) ==
    /\ signIn[r].at = "register"
    /\ identities' = [identities EXCEPT ![Subject(r)] = IF @ = Shared THEN signIn[r].who ELSE @]
    /\ Go(r, "refresh")
    /\ UNCHANGED <<users, lastId, history, sessions, server, starts>>

-----------------------------------------------------------------------------
(* claim_shared_history_if_sole_oidc_user: the test, then the transaction. *)

(* Mutant of Sole: the oldest of several. *)
SoleOldest == {u.id : u \in {v \in users : \A w \in users : v.id <= w.id}}

Sole == {u.id : u \in {v \in users : users = {v}}}

(* refresh_user must find the row; the test follows it at once, since rows  *)
(* go only while no request is served.                                      *)
LookForSole(r) ==
    /\ signIn[r].at = "refresh"
    /\ IF \A u \in users : u.id # signIn[r].who THEN Go(r, "refused")
       ELSE \/ \E id \in Sole :
                  signIn' = [signIn EXCEPT ![r].at = "claim", ![r].sole = id,
                                           ![r].last = lastId]
            \/ Sole = {} /\ Go(r, "claim")
    /\ UNCHANGED <<rows, history, sessions, server, starts>>

SharedRows == {e \in journal : e.owner = Shared}
ToAccount(e, id) == [e EXCEPT !.owner = id, !.seq = lastSeq + e.seq]

(* Mutant of Transfer: the claim row is not looked at. *)
TransferAgain(id) ==
    /\ claim' = id
    /\ journal' = (journal \ SharedRows) \cup {ToAccount(e, id) : e \in SharedRows}
    /\ lastSeq' = 2 * lastSeq
    /\ readers' = IF Shared \in readers THEN (readers \ {Shared}) \cup {id} ELSE readers

(* Marks and events go to the account, the events with new numbers (their   *)
(* gaps aside) in their old order, and leave the shared account: once,      *)
(* whole.                                                                   *)
Transfer(id) ==
    IF id = Shared \/ claim # Shared THEN UNCHANGED history
    ELSE /\ claim' = id
         /\ journal' = (journal \ SharedRows) \cup {ToAccount(e, id) : e \in SharedRows}
         /\ lastSeq' = 2 * lastSeq
         /\ readers' = IF Shared \in readers THEN (readers \ {Shared}) \cup {id} ELSE readers

(* The end of a sign-in, which may open a session (the OIDC callback) or    *)
(* not (the identity a proxy vouches for).                                  *)
Claim(r) ==
    /\ signIn[r].at = "claim"
    /\ Transfer(signIn[r].sole)
    /\ \/ sessions' = [sessions EXCEPT ![r] = signIn[r].who]
       \/ UNCHANGED sessions
    /\ signIn' = [signIn EXCEPT ![r] = Idle]
    /\ UNCHANGED <<rows, server, starts>>

Logout(r) ==
    /\ server = "oidc" /\ sessions[r] # Shared
    /\ sessions' = [sessions EXCEPT ![r] = Shared]
    /\ UNCHANGED <<rows, history, signIn, server, starts>>
-----------------------------------------------------------------------------
(* A chapter is read: progress and a mark, under the account of the request.*)
Write(owner, by) ==
    /\ Cardinality(journal) < MaxWritten
    /\ lastSeq' = lastSeq + 1
    /\ journal' = journal \cup {EventOf(lastSeq + 1, owner, by)}
    /\ readers' = readers \cup {owner}
    /\ UNCHANGED <<rows, claim, sessions, signIn, server, starts>>

Read ==
    \/ server = "single" /\ Write(Shared, Everyone)
    \/ /\ server = "oidc"
       /\ \E r \in SignIns, u \in users : u.id = sessions[r] /\ Write(u.id, u.name)
-----------------------------------------------------------------------------
Split == {d \in users : d.qualified /\ \E u \in users : u.name = d.name /\ ~u.qualified}

Start ==
    /\ server = "down" /\ starts < MaxStarts
    /\ server' = "starting"
    /\ starts' = starts + 1
    /\ UNCHANGED <<rows, history, sessions, signIn>>

Moved(f, from, to) == [x \in DOMAIN f |-> IF f[x] = from THEN to ELSE f[x]]

(* reconcile_qualified_users: one transaction for each. *)
Unify(d, u) ==
    /\ server = "starting"
    /\ d \in Split /\ u \in users
    /\ u.name = d.name /\ ~u.qualified
    /\ users' = users \ {d}
    /\ identities' = Moved(identities, d.id, u.id)
    /\ sessions' = Moved(sessions, d.id, u.id)
    /\ claim' = IF claim = d.id THEN u.id ELSE claim
    /\ journal' = {[e EXCEPT !.owner = IF @ = d.id THEN u.id ELSE @] : e \in journal}
    /\ readers' = IF d.id \in readers THEN (readers \ {d.id}) \cup {u.id} ELSE readers
    /\ UNCHANGED <<lastSeq, signIn, server, lastId, starts>>

Open(mode) ==
    /\ server = "starting" /\ Split = {}
    /\ server' = mode
    /\ \/ \E id \in Sole : Transfer(id)
       \/ Sole = {} /\ UNCHANGED history
    /\ UNCHANGED <<rows, sessions, signIn, starts>>

(* Stopped at any point; what a request had written stays. *)
Stop ==
    /\ server # "down" /\ starts < MaxStarts
    /\ server' = "down"
    /\ signIn' = [r \in SignIns |-> Idle]
    /\ UNCHANGED <<rows, history, sessions, starts>>

SignInStep(r) ==
    LookUp(r) \/ InsertUser(r) \/ RegisterIdentity(r) \/ LookForSole(r) \/ Claim(r)

AccountsNext ==
    \/ \E r \in SignIns : SignInStep(r) \/ Logout(r) \/ (\E s \in Subjects : SignIn(r, s))
    \/ Read
    \/ Start \/ Stop
    \/ \E d, u \in users : Unify(d, u)
    \/ \E mode \in {"single", "oidc"} : Open(mode)

AccountsSpec == AccountsInit /\ [][AccountsNext]_accountVars
-----------------------------------------------------------------------------
(* One person, one account, through whichever subjects, requests at the     *)
(* same time and stops in between; every subject and every session leads to *)
(* an account that is there and is theirs; nobody is refused.               *)
OneAccountEach ==
    server \in {"single", "oidc"} =>
        /\ \A u, v \in users : u.name = v.name => u = v
        /\ \A s \in Subjects : identities[s] # Shared =>
              \E u \in users : u.id = identities[s] /\ u.name = NameOf[s]
        /\ \A r \in SignIns : sessions[r] # Shared => \E u \in users : u.id = sessions[r]
        /\ \A r \in SignIns : signIn[r].at # "refused"

(* Readings are kept under who read them. What was read before there were   *)
(* accounts is either all with the shared account or all with the one that  *)
(* claimed it, in the order it was read; what is read with the shared       *)
(* account later stays there; and the marks are where the events are.       *)
HistoryWhole ==
    /\ \A e \in journal :
          /\ IF e.by = Everyone THEN e.owner = IF e.late THEN Shared ELSE claim
             ELSE \E u \in users : u.id = e.owner /\ u.name = e.by
          /\ e.owner \in readers
    /\ \A d, e \in journal :
          d.by = Everyone /\ e.by = Everyone /\ d.owner = e.owner =>
              (d.seq < e.seq <=> d.first < e.first)

(* "There is no ambiguity while exactly one real account exists": whoever   *)
(* is given the history was the only account, but for those created between *)
(* the test and the transfer.                                               *)
ClaimedAlone ==
    [][claim = Shared /\ claim' # Shared =>
         \/ users = {u \in users : u.id = claim'}
         \/ \E r \in SignIns : /\ signIn[r].sole = claim'
                              /\ \A u \in users : u.id = claim' \/ u.id > signIn[r].last
      ]_accountVars
=============================================================================
