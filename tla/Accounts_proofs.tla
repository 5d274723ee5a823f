-------------------------- MODULE Accounts_proofs --------------------------
(***************************************************************************)
(* Theorems about Accounts, for any subjects, names and sign-ins and any   *)
(* number of starts.                                                       *)
(*                                                                         *)
(* The argument: a username has at most one row that bears it bare, and at *)
(* least one, so once the start has rejoined what an older build split     *)
(* there is one account a person. Where a sign-in has got to tells which   *)
(* account it found, and rows go only while no sign-in is under way; the   *)
(* account it found alone stays the only one but for later, higher ids.    *)
(*                                                                         *)
(* The history.  What nobody's name is on lies with the claimant from the  *)
(* claim on, and until then with nobody, because the claim looks at its    *)
(* row in the transaction that moves the events. A move copies the rows in *)
(* order under new, higher numbers, so they keep the order they were read  *)
(* in.                                                                     *)
(***************************************************************************)
EXTENDS Accounts, FiniteSetTheorems, WellFoundedInduction, TLAPS

SignInSet == [at : Place, subject : Subjects, who : {Shared} \cup Ids,
              sole : {Shared} \cup Ids, last : Nat]

(* The types, but for the history. *)
AccountsTyped ==
    /\ users \subseteq UserRow
    /\ identities \in [Subjects -> {Shared} \cup Ids]
    /\ sessions \in [SignIns -> {Shared} \cup Ids]
    /\ signIn \in [SignIns -> SignInSet]
    /\ server \in {"down", "starting", "single", "oidc"}
    /\ lastId \in Nat

(* The rows of users: numbered in order, one bare row for each name.        *)
RowsWhole ==
    /\ \A u, v \in users : u.id = v.id => u = v
    /\ \A u \in users : u.id <= lastId /\ u.name = NameOf[u.subject]
    /\ \A u, v \in users : u.name = v.name /\ ~u.qualified /\ ~v.qualified => u = v
    /\ \A u \in users : \E v \in users : v.name = u.name /\ ~v.qualified

HasRow(id, name) == \E u \in users : u.id = id /\ u.name = name

(* What is known of the account a sign-in is at. *)
SignInKnows(s) ==
    /\ s.at \in {"register", "refresh", "claim"} => HasRow(s.who, NameOf[s.subject])
    /\ s.at = "winner" => Taken(s.subject)
    /\ s.at # "refused"

LeadsHome ==
    /\ \A s \in Subjects : identities[s] # Shared => HasRow(identities[s], NameOf[s])
    /\ \A r \in SignIns : sessions[r] # Shared => \E u \in users : u.id = sessions[r]
    /\ \A r \in SignIns : SignInKnows(signIn[r])

(* Sign-ins are served once the start has unified the accounts. *)
ServedUnified ==
    /\ server \in {"single", "oidc"} => \A u \in users : ~u.qualified
    /\ server # "oidc" => \A r \in SignIns : signIn[r].at = "idle"

(* Who was alone when a sign-in looked has only newer accounts beside it.   *)
StaysOldest(s) ==
    s.sole # Shared => s.last <= lastId /\ \A u \in users : u.id = s.sole \/ u.id > s.last
SoleStaysOldest == \A r \in SignIns : StaysOldest(signIn[r])

AccountsIndInv ==
    /\ AccountsTyped
    /\ RowsWhole
    /\ LeadsHome
    /\ ServedUnified
    /\ SoleStaysOldest
-----------------------------------------------------------------------------
USE SubjectsAssumption DEF Shared, Ids

(* A set of numbers has a least one. *)
LEMMA Smallest ==
    ASSUME NEW T \in SUBSET Nat, T # {}
    PROVE  \E x \in T : \A y \in T : x <= y
<1> DEFINE R == OpToRel(<, Nat)
<1>1. R = {p \in Nat \X Nat : p[1] < p[2]}
  BY Zenon DEF OpToRel
<1>2. IsWellFoundedOn(R, Nat)
  BY NatLessThanWellFounded, Zenon
<1> HIDE DEF R
<1>3. PICK x \in T : \A y \in T : ~ (<<y, x>> \in R)
  BY <1>2, WFMin, Zenon
<1>4. ASSUME NEW y \in T, y < x
      PROVE  FALSE
  <2>1. <<y, x>> \in Nat \X Nat
    OBVIOUS
  <2>2. <<y, x>> \in R
    BY <1>1, <1>4, <2>1
  <2>3. QED
    BY <1>3, <2>2
<1>5. QED
  BY <1>4

LEMMA IdleIsSignIn == Idle \in SignInSet /\ Idle.at = "idle" /\ Idle.sole = Shared
BY DEF Idle, SignInSet, Place

LEMMA AccountsInitIndInv == AccountsInit => AccountsIndInv
<1> SUFFICES ASSUME AccountsInit PROVE AccountsIndInv
  OBVIOUS
<1>1. PICK S \in SUBSET Subjects : \E id \in Bijection(S, 1 .. Cardinality(S)) :
          /\ users = Older(S, id)
          /\ identities = [s \in Subjects |-> IF s \in S THEN id[s] ELSE Shared]
          /\ lastId = Cardinality(S)
  BY DEF AccountsInit
<1>2. PICK id \in Bijection(S, 1 .. Cardinality(S)) :
          /\ users = Older(S, id)
          /\ identities = [s \in Subjects |-> IF s \in S THEN id[s] ELSE Shared]
          /\ lastId = Cardinality(S)
  BY <1>1
<1>3. Cardinality(S) \in Nat
  BY FS_Subset, FS_CardinalityType
<1>4. /\ id \in [S -> 1 .. Cardinality(S)]
      /\ \A s, t \in S : id[s] = id[t] => s = t
  BY DEF Bijection, Injection, IsInjective
<1> DEFINE After(s) == \E t \in S : NameOf[t] = NameOf[s] /\ id[t] < id[s]
           row(s) == [id |-> id[s], subject |-> s, name |-> NameOf[s], qualified |-> After(s)]
<1>5. users = {row(s) : s \in S}
  BY <1>2 DEF Older
<1>6. \A s \in S : row(s) \in UserRow
  <2>1. \A s \in S : NameOf[s] \in Names /\ After(s) \in BOOLEAN
    BY DEF Names
  <2>2. \A s \in S : id[s] \in Nat \ {0}
    BY <1>3, <1>4
  <2> HIDE DEF After
  <2>3. QED
    BY <2>1, <2>2 DEF UserRow
<1>7. AccountsTyped
  <2>1. users \subseteq UserRow
    BY <1>5, <1>6
  <2>2. identities \in [Subjects -> {Shared} \cup Ids]
    BY <1>2, <1>3, <1>4
  <2>3. signIn \in [SignIns -> SignInSet] /\ sessions \in [SignIns -> {Shared} \cup Ids]
    BY IdleIsSignIn DEF AccountsInit
  <2>4. server \in {"down", "starting", "single", "oidc"} /\ lastId \in Nat
    BY <1>2, <1>3 DEF AccountsInit
  <2>5. QED
    BY <2>1, <2>2, <2>3, <2>4 DEF AccountsTyped
<1>8. \A s \in S : \E t \in S : NameOf[t] = NameOf[s] /\ ~After(t)
  <2> SUFFICES ASSUME NEW s \in S
               PROVE  \E t \in S : NameOf[t] = NameOf[s] /\ ~After(t)
    OBVIOUS
  <2> DEFINE T == {id[t] : t \in {v \in S : NameOf[v] = NameOf[s]}}
  <2>1. T \in SUBSET Nat /\ T # {}
    BY <1>3, <1>4
  <2>2. PICK x \in T : \A y \in T : x <= y
    <3> HIDE DEF T
    <3>1. QED
      BY <2>1, Smallest
  <2>3. PICK t \in S : NameOf[t] = NameOf[s] /\ x = id[t]
    OBVIOUS
  <2>4. ASSUME NEW v \in S, NameOf[v] = NameOf[t], id[v] < id[t]
        PROVE  FALSE
    <3>1. id[v] \in T /\ id[v] \in Nat /\ id[t] \in Nat
      BY <1>3, <1>4, <2>3, <2>4
    <3>2. x <= id[v]
      BY <2>2, <3>1
    <3>3. QED
      BY <2>3, <2>4, <3>1, <3>2
  <2>5. ~After(t)
    BY <2>4
  <2>6. QED
    BY <2>3, <2>5
<1>9. \A s \in S : /\ row(s).id = id[s] /\ row(s).subject = s /\ row(s).name = NameOf[s]
                   /\ row(s).qualified = After(s)
  <2> HIDE DEF After
  <2>1. QED
    OBVIOUS
<1> HIDE DEF row
<1>10. \A u \in users : /\ u.subject \in S /\ u = row(u.subject)
                       /\ u.id = id[u.subject] /\ u.name = NameOf[u.subject]
                       /\ u.qualified = After(u.subject)
  <2> HIDE DEF After
  <2>1. QED
    BY <1>5, <1>9
<1>11. \A s \in S : row(s) \in users
  BY <1>5
<1>12. RowsWhole
  <2>1. ASSUME NEW s \in S, NEW t \in S, NameOf[s] = NameOf[t], ~After(s), ~After(t)
        PROVE  s = t
    BY <1>3, <1>4, <2>1
  <2> HIDE DEF After
  <2>2. \A u, v \in users : u.id = v.id => u = v
    BY <1>4, <1>10
  <2>3. \A u \in users : u.id <= lastId /\ u.name = NameOf[u.subject]
    BY <1>2, <1>3, <1>4, <1>10
  <2>4. \A u, v \in users : u.name = v.name /\ ~u.qualified /\ ~v.qualified => u = v
    BY <1>10, <2>1
  <2>5. \A u \in users : \E v \in users : v.name = u.name /\ ~v.qualified
    BY <1>8, <1>9, <1>10, <1>11
  <2>6. QED
    BY <2>2, <2>3, <2>4, <2>5 DEF RowsWhole
<1>13. LeadsHome
  <2>1. \A s \in Subjects : identities[s] # Shared => HasRow(identities[s], NameOf[s])
    BY <1>2, <1>9, <1>11 DEF HasRow
  <2>2. \A r \in SignIns : sessions[r] = Shared /\ SignInKnows(signIn[r])
    BY IdleIsSignIn DEF AccountsInit, SignInKnows
  <2>3. QED
    BY <2>1, <2>2 DEF LeadsHome
<1>14. ServedUnified /\ SoleStaysOldest
  BY IdleIsSignIn DEF AccountsInit, ServedUnified, SoleStaysOldest, StaysOldest
<1>15. QED
  BY <1>7, <1>12, <1>13, <1>14 DEF AccountsIndInv

(* A statement of one sign-in: where it goes and whom it has found.         *)
LEMMA ResolvedIs ==
    ASSUME AccountsTyped, NEW r \in SignIns, NEW at \in Place, NEW who \in {Shared} \cup Ids,
           Resolved(r, who, at)
    PROVE  /\ signIn' \in [SignIns -> SignInSet]
           /\ signIn'[r].at = at /\ signIn'[r].who = who
           /\ signIn'[r].subject = signIn[r].subject
           /\ signIn'[r].sole = signIn[r].sole /\ signIn'[r].last = signIn[r].last
           /\ \A q \in SignIns : q # r => signIn'[q] = signIn[q]
<1> DEFINE s == [signIn[r] EXCEPT !.at = at, !.who = who]
<1>1. signIn[r] \in SignInSet
  BY DEF AccountsTyped
<1>2. signIn' = [signIn EXCEPT ![r] = s]
  BY DEF Resolved, AccountsTyped
<1>3. /\ s \in SignInSet
      /\ s.at = at /\ s.who = who /\ s.subject = signIn[r].subject
      /\ s.sole = signIn[r].sole /\ s.last = signIn[r].last
  BY <1>1 DEF SignInSet
<1> HIDE DEF s
<1>4. QED
  BY <1>2, <1>3 DEF AccountsTyped

LEMMA GoIsResolved ==
    ASSUME AccountsTyped, NEW r \in SignIns, NEW at \in Place, Go(r, at)
    PROVE  Resolved(r, signIn[r].who, at) /\ signIn[r].who \in {Shared} \cup Ids
<1>1. signIn[r] \in SignInSet
  BY DEF AccountsTyped
<1>2. [signIn[r] EXCEPT !.at = at] = [signIn[r] EXCEPT !.at = at, !.who = signIn[r].who]
  BY <1>1 DEF SignInSet
<1>3. signIn' = [signIn EXCEPT ![r] = [signIn[r] EXCEPT !.at = at]]
  BY DEF Go
<1>4. signIn' = [signIn EXCEPT ![r] = [signIn[r] EXCEPT !.at = at, !.who = signIn[r].who]]
  BY <1>2, <1>3
<1>5. Resolved(r, signIn[r].who, at)
  BY <1>4 DEF Resolved, AccountsTyped
<1>6. QED
  BY <1>1, <1>5 DEF SignInSet

(* Steps that leave the rows alone and move one sign-in to what it knows.   *)
LEMMA MoveKeeps ==
    ASSUME AccountsIndInv, NEW r \in SignIns, signIn[r].at # "idle",
           signIn' \in [SignIns -> SignInSet],
           \A q \in SignIns : q # r => signIn'[q] = signIn[q],
           SignInKnows(signIn'[r]), StaysOldest(signIn'[r]),
           identities' \in [Subjects -> {Shared} \cup Ids],
           \A s \in Subjects : identities'[s] # Shared => HasRow(identities'[s], NameOf[s]),
           UNCHANGED <<users, sessions, server, lastId>>
    PROVE  AccountsIndInv'
<1> USE DEF AccountsIndInv
<1>1. AccountsTyped' /\ RowsWhole'
  BY DEF AccountsTyped, RowsWhole
<1>2. \A q \in SignIns : SignInKnows(signIn[q])' <=> SignInKnows(signIn'[q])
  BY DEF SignInKnows, HasRow, Taken
<1>3. LeadsHome'
  BY <1>2 DEF LeadsHome, HasRow
<1>4. ServedUnified'
  BY DEF ServedUnified
<1>5. SoleStaysOldest'
  BY DEF SoleStaysOldest, StaysOldest
<1>6. QED
  BY <1>1, <1>3, <1>4, <1>5

LEMMA FindsKeeps ==
    ASSUME AccountsIndInv, NEW r \in SignIns, signIn[r].at # "idle",
           NEW at \in Place \ {"refused"}, NEW who \in {Shared} \cup Ids,
           Resolved(r, who, at),
           at \in {"register", "refresh", "claim"} => HasRow(who, NameOf[Subject(r)]),
           at = "winner" => Taken(Subject(r)),
           UNCHANGED <<users, identities, sessions, server, lastId>>
    PROVE  AccountsIndInv'
<1>1. /\ signIn' \in [SignIns -> SignInSet]
      /\ signIn'[r].at = at /\ signIn'[r].who = who
      /\ signIn'[r].subject = signIn[r].subject
      /\ signIn'[r].sole = signIn[r].sole /\ signIn'[r].last = signIn[r].last
      /\ \A q \in SignIns : q # r => signIn'[q] = signIn[q]
  BY ResolvedIs DEF AccountsIndInv
<1>2. SignInKnows(signIn'[r])
  BY <1>1 DEF SignInKnows, Subject
<1>3. StaysOldest(signIn'[r])
  BY <1>1 DEF AccountsIndInv, SoleStaysOldest, StaysOldest
<1>4. /\ identities' \in [Subjects -> {Shared} \cup Ids]
      /\ \A s \in Subjects : identities'[s] # Shared => HasRow(identities'[s], NameOf[s])
  BY DEF AccountsIndInv, AccountsTyped, LeadsHome
<1>5. QED
  BY <1>1, <1>2, <1>3, <1>4, MoveKeeps

LEMMA GoesKeeps ==
    ASSUME AccountsIndInv, NEW r \in SignIns, signIn[r].at # "idle",
           NEW at \in Place \ {"refused"}, Go(r, at),
           at \in {"register", "refresh", "claim"} => HasRow(signIn[r].who, NameOf[Subject(r)]),
           at = "winner" => Taken(Subject(r)),
           UNCHANGED <<users, identities, sessions, server, lastId>>
    PROVE  AccountsIndInv'
<1>1. Resolved(r, signIn[r].who, at) /\ signIn[r].who \in {Shared} \cup Ids
  BY GoIsResolved DEF AccountsIndInv
<1>2. QED
  BY <1>1, FindsKeeps

LEMMA LookUpKeeps ==
    ASSUME AccountsIndInv, NEW r \in SignIns, LookUp(r)
    PROVE  AccountsIndInv'
<1> DEFINE bySubject == {u \in users : u.subject = Subject(r)}
           byName == {u \in users : u.name = NameOf[Subject(r)] /\ ~u.qualified}
<1>1. UNCHANGED <<users, identities, sessions, server, lastId>>
  BY DEF LookUp, rows
<1>2. Subject(r) \in Subjects
  BY DEF AccountsIndInv, AccountsTyped, SignInSet, Subject
<1>3. \A u \in bySubject \cup byName : u.id \in Ids /\ HasRow(u.id, NameOf[Subject(r)])
  BY DEF AccountsIndInv, AccountsTyped, RowsWhole, UserRow, HasRow
<1>4. ASSUME NEW at \in {"register", "refresh"}, identities[Subject(r)] # Shared,
             Resolved(r, identities[Subject(r)], at), signIn[r].at # "idle"
      PROVE  AccountsIndInv'
  <2>1. HasRow(identities[Subject(r)], NameOf[Subject(r)]) /\ at \in Place \ {"refused"}
    BY <1>2, <1>4 DEF AccountsIndInv, LeadsHome, Place
  <2>2. identities[Subject(r)] \in {Shared} \cup Ids
    BY <1>2 DEF AccountsIndInv, AccountsTyped
  <2>3. QED
    BY <1>1, <1>4, <2>1, <2>2, FindsKeeps
<1>5. ASSUME NEW u \in bySubject \cup byName, Resolved(r, u.id, "register"),
             signIn[r].at # "idle"
      PROVE  AccountsIndInv'
  <2>1. "register" \in Place \ {"refused"} /\ u.id \in {Shared} \cup Ids
    BY <1>3 DEF Place
  <2>2. HasRow(u.id, NameOf[Subject(r)])
    BY <1>3
  <2>3. QED
    BY <1>1, <1>5, <2>1, <2>2, FindsKeeps
<1>6. ASSUME NEW at \in {"subject", "name", "insert"}, Go(r, at), signIn[r].at # "idle"
      PROVE  AccountsIndInv'
  <2>1. at \in Place \ {"refused"} /\ at \notin {"register", "refresh", "claim", "winner"}
    BY DEF Place
  <2>2. QED
    BY <1>1, <1>6, <2>1, GoesKeeps
<1>7. CASE signIn[r].at = "identity"
  BY <1>4, <1>6, <1>7 DEF LookUp
<1>8. CASE signIn[r].at = "subject"
  BY <1>5, <1>6, <1>8 DEF LookUp
<1>9. CASE signIn[r].at = "name"
  BY <1>5, <1>6, <1>9 DEF LookUp
<1>10. CASE signIn[r].at = "winner"
  <2>1. bySubject \cup byName # {}
    BY <1>10 DEF AccountsIndInv, LeadsHome, SignInKnows, Taken, Subject
  <2>2. QED
    BY <1>4, <1>5, <1>10, <2>1 DEF LookUp
<1>11. signIn[r].at \in {"identity", "subject", "name", "winner"}
  BY DEF LookUp
<1>12. QED
  BY <1>7, <1>8, <1>9, <1>10, <1>11

(* A new account: nobody bears its subject or its name bare. *)
LEMMA InsertKeeps ==
    ASSUME AccountsIndInv, NEW r \in SignIns, InsertUser(r)
    PROVE  AccountsIndInv'
<1> DEFINE new == [id |-> lastId + 1, subject |-> Subject(r), name |-> NameOf[Subject(r)],
                   qualified |-> FALSE]
<1> USE DEF AccountsIndInv
<1>1. /\ signIn[r].at = "insert" /\ Subject(r) \in Subjects /\ lastId \in Nat
      /\ UNCHANGED <<sessions, server, identities>>
  BY DEF InsertUser, AccountsTyped, SignInSet, Subject, rows
<1>2. CASE Taken(Subject(r))
  <2>1. Go(r, "winner") /\ UNCHANGED <<users, lastId>>
    BY <1>2 DEF InsertUser, rows
  <2>2. "winner" \in Place \ {"refused"} /\ "winner" \notin {"register", "refresh", "claim"}
    BY DEF Place
  <2>3. QED
    BY <1>1, <1>2, <2>1, <2>2, GoesKeeps
<1>3. CASE ~Taken(Subject(r))
  <2>1. /\ lastId' = lastId + 1 /\ users' = users \cup {new}
        /\ Resolved(r, lastId + 1, "register")
    BY <1>3 DEF InsertUser
  <2>2. /\ new \in UserRow /\ new.id = lastId + 1 /\ new.name = NameOf[Subject(r)]
        /\ new.subject = Subject(r) /\ ~new.qualified
    BY <1>1 DEF UserRow, Names
  <2>3. /\ \A u \in users : u.id \in Nat \ {0} /\ u.id <= lastId
        /\ \A u \in users : ~(u.name = NameOf[Subject(r)] /\ ~u.qualified)
    BY <1>3 DEF Taken, RowsWhole, AccountsTyped, UserRow
  <2> HIDE DEF new
  <2>4. /\ signIn' \in [SignIns -> SignInSet]
        /\ signIn'[r].at = "register" /\ signIn'[r].who = lastId + 1
        /\ signIn'[r].subject = signIn[r].subject
        /\ signIn'[r].sole = signIn[r].sole /\ signIn'[r].last = signIn[r].last
        /\ \A q \in SignIns : q # r => signIn'[q] = signIn[q]
    <3>1. "register" \in Place /\ lastId + 1 \in {Shared} \cup Ids
      BY <1>1 DEF Place
    <3>2. QED
      BY <2>1, <3>1, ResolvedIs
  <2>5. AccountsTyped'
    BY <1>1, <2>1, <2>2, <2>4 DEF AccountsTyped
  <2>6. RowsWhole'
    <3>1. \A u, v \in users' : u.id = v.id => u = v
      BY <1>1, <2>1, <2>2, <2>3 DEF RowsWhole
    <3>2. \A u \in users' : u.id <= lastId' /\ u.name = NameOf[u.subject]
      BY <1>1, <2>1, <2>2, <2>3 DEF RowsWhole
    <3>3. \A u, v \in users' : u.name = v.name /\ ~u.qualified /\ ~v.qualified => u = v
      BY <2>1, <2>2, <2>3 DEF RowsWhole
    <3>4. \A u \in users' : \E v \in users' : v.name = u.name /\ ~v.qualified
      BY <2>1, <2>2 DEF RowsWhole
    <3>5. QED
      BY <3>1, <3>2, <3>3, <3>4 DEF RowsWhole
  <2>7. /\ \A id, name : HasRow(id, name) => HasRow(id, name)'
        /\ \E u \in users' : u.id = lastId + 1 /\ u.name = NameOf[Subject(r)]
        /\ \A s : Taken(s) => Taken(s)'
    BY <2>1, <2>2 DEF HasRow, Taken
  <2>8. LeadsHome'
    <3>1. ASSUME NEW q \in SignIns
          PROVE  SignInKnows(signIn[q])'
      <4>1. CASE q = r
        BY <2>4, <2>7, <4>1 DEF SignInKnows, Subject, HasRow
      <4>2. CASE q # r
        BY <2>4, <2>7, <4>2 DEF LeadsHome, SignInKnows
      <4>3. QED
        BY <4>1, <4>2
    <3>2. \A s \in Subjects : identities'[s] # Shared => HasRow(identities[s], NameOf[s])'
      BY <1>1, <2>7 DEF LeadsHome
    <3>3. \A q \in SignIns : sessions'[q] # Shared => \E u \in users' : u.id = sessions'[q]
      BY <1>1, <2>1 DEF LeadsHome
    <3>4. QED
      BY <3>1, <3>2, <3>3 DEF LeadsHome
  <2>9. ServedUnified'
    BY <1>1, <2>1, <2>2, <2>4 DEF ServedUnified
  <2>10. SoleStaysOldest'
    <3>1. ASSUME NEW q \in SignIns, signIn'[q].sole # Shared
          PROVE  /\ signIn'[q].last <= lastId'
                 /\ \A u \in users' : u.id = signIn'[q].sole \/ u.id > signIn'[q].last
      <4>1. signIn'[q].sole = signIn[q].sole /\ signIn'[q].last = signIn[q].last
        BY <2>4
      <4>2. /\ signIn[q].last <= lastId /\ signIn[q].last \in Nat
            /\ \A u \in users : u.id = signIn[q].sole \/ u.id > signIn[q].last
        BY <3>1, <4>1 DEF SoleStaysOldest, StaysOldest, AccountsTyped, SignInSet
      <4>3. QED
        BY <1>1, <2>1, <2>2, <4>1, <4>2
    <3>2. QED
      BY <3>1 DEF SoleStaysOldest, StaysOldest
  <2>11. QED
    BY <2>5, <2>6, <2>8, <2>9, <2>10
<1>4. QED
  BY <1>2, <1>3

LEMMA RegisterKeeps ==
    ASSUME AccountsIndInv, NEW r \in SignIns, RegisterIdentity(r)
    PROVE  AccountsIndInv'
<1> DEFINE s == Subject(r)
<1>1. /\ signIn[r].at = "register" /\ s \in Subjects
      /\ signIn[r].who \in {Shared} \cup Ids
      /\ HasRow(signIn[r].who, NameOf[s])
  BY DEF RegisterIdentity, AccountsIndInv, AccountsTyped, SignInSet, Subject, LeadsHome,
         SignInKnows
<1>2. /\ identities' = [identities EXCEPT ![s] = IF identities[s] = Shared THEN signIn[r].who
                                                ELSE identities[s]]
      /\ Go(r, "refresh")
      /\ UNCHANGED <<users, lastId, sessions, server>>
  BY DEF RegisterIdentity
<1>3. /\ identities' \in [Subjects -> {Shared} \cup Ids]
      /\ \A x \in Subjects : identities'[x] # Shared => HasRow(identities'[x], NameOf[x])
  BY <1>1, <1>2 DEF AccountsIndInv, AccountsTyped, LeadsHome
<1>4. /\ signIn' \in [SignIns -> SignInSet]
      /\ signIn'[r].at = "refresh" /\ signIn'[r].who = signIn[r].who
      /\ signIn'[r].subject = signIn[r].subject
      /\ signIn'[r].sole = signIn[r].sole /\ signIn'[r].last = signIn[r].last
      /\ \A q \in SignIns : q # r => signIn'[q] = signIn[q]
  <2>1. "refresh" \in Place
    BY DEF Place
  <2>2. Resolved(r, signIn[r].who, "refresh")
    BY <1>2, <2>1, GoIsResolved DEF AccountsIndInv
  <2>3. QED
    BY <1>1, <2>1, <2>2, ResolvedIs DEF AccountsIndInv
<1>5. SignInKnows(signIn'[r]) /\ StaysOldest(signIn'[r])
  BY <1>1, <1>4 DEF SignInKnows, Subject, AccountsIndInv, SoleStaysOldest, StaysOldest
<1>6. signIn[r].at # "idle"
  BY <1>1
<1>7. QED
  BY <1>2, <1>3, <1>4, <1>5, <1>6, MoveKeeps

(* The account alone at this moment is the oldest from now on. *)
LEMMA LookForSoleKeeps ==
    ASSUME AccountsIndInv, NEW r \in SignIns, LookForSole(r)
    PROVE  AccountsIndInv'
<1>1. /\ signIn[r].at = "refresh" /\ signIn[r] \in SignInSet
      /\ HasRow(signIn[r].who, NameOf[Subject(r)])
      /\ UNCHANGED <<users, identities, sessions, server, lastId>>
  BY DEF LookForSole, rows, AccountsIndInv, AccountsTyped, LeadsHome, SignInKnows, Subject
<1>2. ~(\A u \in users : u.id # signIn[r].who)
  BY <1>1 DEF HasRow
<1>3. CASE Go(r, "claim")
  <2>1. "claim" \in Place \ {"refused"} /\ signIn[r].at # "idle"
    BY <1>1 DEF Place
  <2>2. QED
    BY <1>1, <1>3, <2>1, GoesKeeps
<1>4. CASE \E id \in Sole :
              signIn' = [signIn EXCEPT ![r].at = "claim", ![r].sole = id, ![r].last = lastId]
  <2>1. PICK id \in Sole :
              signIn' = [signIn EXCEPT ![r].at = "claim", ![r].sole = id, ![r].last = lastId]
    BY <1>4
  <2>2. PICK v \in users : users = {v} /\ id = v.id
    BY DEF Sole
  <2>3. id \in Ids /\ lastId \in Nat
    BY <2>2 DEF AccountsIndInv, AccountsTyped, UserRow
  <2> DEFINE s == [signIn[r] EXCEPT !.at = "claim", !.sole = id, !.last = lastId]
  <2>4. signIn' = [signIn EXCEPT ![r] = s]
    BY <2>1 DEF AccountsIndInv, AccountsTyped
  <2>5. /\ s \in SignInSet /\ s.at = "claim" /\ s.sole = id /\ s.last = lastId
        /\ s.who = signIn[r].who /\ s.subject = signIn[r].subject
    BY <1>1, <2>3 DEF SignInSet, Place
  <2> HIDE DEF s
  <2>6. /\ signIn' \in [SignIns -> SignInSet] /\ signIn'[r] = s
        /\ \A q \in SignIns : q # r => signIn'[q] = signIn[q]
    BY <2>4, <2>5 DEF AccountsIndInv, AccountsTyped
  <2>7. SignInKnows(s)
    BY <1>1, <2>5 DEF SignInKnows, Subject
  <2>8. StaysOldest(s)
    BY <2>2, <2>3, <2>5 DEF StaysOldest
  <2>9. /\ identities' \in [Subjects -> {Shared} \cup Ids]
        /\ \A x \in Subjects : identities'[x] # Shared => HasRow(identities'[x], NameOf[x])
    BY <1>1 DEF AccountsIndInv, AccountsTyped, LeadsHome
  <2>10. QED
    BY <1>1, <2>6, <2>7, <2>8, <2>9, MoveKeeps
<1>5. QED
  BY <1>2, <1>3, <1>4 DEF LookForSole

(* Steps that leave the rows and where the sign-ins lead.                   *)
LEMMA RowsKeep ==
    ASSUME AccountsIndInv, UNCHANGED <<users, identities, lastId>>,
           sessions' \in [SignIns -> {Shared} \cup Ids],
           \A r \in SignIns : sessions'[r] # Shared => \E u \in users : u.id = sessions'[r],
           signIn' \in [SignIns -> SignInSet],
           \A r \in SignIns : SignInKnows(signIn'[r]) /\ StaysOldest(signIn'[r]),
           server' \in {"down", "starting", "single", "oidc"}, ServedUnified'
    PROVE  AccountsIndInv'
<1> USE DEF AccountsIndInv
<1>1. AccountsTyped' /\ RowsWhole'
  BY DEF AccountsTyped, RowsWhole
<1>2. \A q \in SignIns : SignInKnows(signIn[q])' <=> SignInKnows(signIn'[q])
  BY DEF SignInKnows, HasRow, Taken
<1>3. LeadsHome'
  BY <1>2 DEF LeadsHome, HasRow
<1>4. SoleStaysOldest'
  BY DEF SoleStaysOldest, StaysOldest
<1>5. QED
  BY <1>1, <1>3, <1>4

LEMMA SignInIsKnown ==
    ASSUME AccountsIndInv, NEW r \in SignIns
    PROVE  SignInKnows(signIn[r]) /\ StaysOldest(signIn[r])
BY DEF AccountsIndInv, LeadsHome, SoleStaysOldest

LEMMA IdleIsKnown == SignInKnows(Idle) /\ StaysOldest(Idle)
BY IdleIsSignIn DEF SignInKnows, StaysOldest

LEMMA ClaimKeeps ==
    ASSUME AccountsIndInv, NEW r \in SignIns, Claim(r)
    PROVE  AccountsIndInv'
<1>1. /\ signIn[r].at = "claim" /\ signIn' = [signIn EXCEPT ![r] = Idle]
      /\ UNCHANGED <<users, identities, lastId, server>>
      /\ \/ sessions' = [sessions EXCEPT ![r] = signIn[r].who]
         \/ UNCHANGED sessions
  BY DEF Claim, rows
<1>2. signIn[r].who \in {Shared} \cup Ids /\ \E u \in users : u.id = signIn[r].who
  BY <1>1 DEF AccountsIndInv, AccountsTyped, SignInSet, LeadsHome, SignInKnows, HasRow
<1>3. /\ sessions' \in [SignIns -> {Shared} \cup Ids]
      /\ \A q \in SignIns : sessions'[q] # Shared => \E u \in users : u.id = sessions'[q]
  BY <1>1, <1>2 DEF AccountsIndInv, AccountsTyped, LeadsHome
<1>4. /\ signIn' \in [SignIns -> SignInSet] /\ signIn'[r] = Idle
      /\ \A q \in SignIns : q # r => signIn'[q] = signIn[q]
  BY <1>1, IdleIsSignIn DEF AccountsIndInv, AccountsTyped
<1>5. \A q \in SignIns : SignInKnows(signIn'[q]) /\ StaysOldest(signIn'[q])
  BY <1>4, IdleIsKnown, SignInIsKnown
<1>6. server' \in {"down", "starting", "single", "oidc"} /\ ServedUnified'
  BY <1>1, <1>4, IdleIsSignIn DEF AccountsIndInv, AccountsTyped, ServedUnified
<1>7. QED
  BY <1>1, <1>3, <1>4, <1>5, <1>6, RowsKeep

LEMMA SignInKeeps ==
    ASSUME AccountsIndInv, NEW r \in SignIns, NEW s \in Subjects, SignIn(r, s)
    PROVE  AccountsIndInv'
<1> DEFINE began == [Idle EXCEPT !.at = "identity", !.subject = s]
<1>1. /\ server = "oidc" /\ signIn' = [signIn EXCEPT ![r] = began]
      /\ UNCHANGED <<users, identities, lastId, sessions, server>>
  BY DEF SignIn, rows
<1>2. began \in SignInSet /\ began.at = "identity" /\ began.sole = Shared
  BY IdleIsSignIn DEF SignInSet, Place
<1> HIDE DEF began
<1>3. /\ signIn' \in [SignIns -> SignInSet] /\ signIn'[r] = began
      /\ \A q \in SignIns : q # r => signIn'[q] = signIn[q]
  BY <1>1, <1>2 DEF AccountsIndInv, AccountsTyped
<1>4. SignInKnows(began) /\ StaysOldest(began)
  BY <1>2 DEF SignInKnows, StaysOldest
<1>5. \A q \in SignIns : SignInKnows(signIn'[q]) /\ StaysOldest(signIn'[q])
  BY <1>3, <1>4, SignInIsKnown
<1>6. server' \in {"down", "starting", "single", "oidc"} /\ ServedUnified'
  BY <1>1 DEF AccountsIndInv, ServedUnified
<1>7. /\ sessions' \in [SignIns -> {Shared} \cup Ids]
      /\ \A q \in SignIns : sessions'[q] # Shared => \E u \in users : u.id = sessions'[q]
  BY <1>1 DEF AccountsIndInv, AccountsTyped, LeadsHome
<1>8. QED
  BY <1>1, <1>3, <1>5, <1>6, <1>7, RowsKeep

(* Logging out, reading, starting, opening and stopping. *)
LEMMA OthersKeep ==
    ASSUME AccountsIndInv, UNCHANGED <<users, identities, lastId>>,
           sessions' \in [SignIns -> {Shared} \cup Ids],
           \A r \in SignIns : sessions'[r] \in {Shared, sessions[r]},
           UNCHANGED signIn \/ signIn' = [r \in SignIns |-> Idle],
           server' \in {"down", "starting", "single", "oidc"}, ServedUnified'
    PROVE  AccountsIndInv'
<1>1. \A r \in SignIns : sessions'[r] # Shared => \E u \in users : u.id = sessions'[r]
  BY DEF AccountsIndInv, LeadsHome
<1>2. signIn' \in [SignIns -> SignInSet]
  BY IdleIsSignIn DEF AccountsIndInv, AccountsTyped
<1>3. \A r \in SignIns : SignInKnows(signIn'[r]) /\ StaysOldest(signIn'[r])
  <2>1. CASE UNCHANGED signIn
    BY <2>1, SignInIsKnown
  <2>2. CASE signIn' = [r \in SignIns |-> Idle]
    BY <2>2, IdleIsKnown
  <2>3. QED
    BY <2>1, <2>2
<1>4. QED
  BY <1>1, <1>2, <1>3, RowsKeep

LEMMA LogoutKeeps ==
    ASSUME AccountsIndInv, NEW r \in SignIns, Logout(r)
    PROVE  AccountsIndInv'
<1>1. /\ sessions' = [sessions EXCEPT ![r] = Shared]
      /\ UNCHANGED <<users, identities, lastId, signIn, server>>
  BY DEF Logout, rows
<1>2. /\ sessions' \in [SignIns -> {Shared} \cup Ids]
      /\ \A q \in SignIns : sessions'[q] \in {Shared, sessions[q]}
  BY <1>1 DEF AccountsIndInv, AccountsTyped
<1>3. server' \in {"down", "starting", "single", "oidc"} /\ ServedUnified'
  BY <1>1 DEF AccountsIndInv, AccountsTyped, ServedUnified
<1>4. QED
  BY <1>1, <1>2, <1>3, OthersKeep

LEMMA StillKeeps ==
    ASSUME AccountsIndInv, UNCHANGED <<users, identities, lastId, sessions, signIn, server>>
    PROVE  AccountsIndInv'
<1>1. /\ sessions' \in [SignIns -> {Shared} \cup Ids]
      /\ \A q \in SignIns : sessions'[q] \in {Shared, sessions[q]}
      /\ server' \in {"down", "starting", "single", "oidc"} /\ ServedUnified'
  BY DEF AccountsIndInv, AccountsTyped, ServedUnified
<1>2. QED
  BY <1>1, OthersKeep

(* The start has nothing left to unify: every row is bare. *)
LEMMA OpenKeeps ==
    ASSUME AccountsIndInv, NEW m \in {"single", "oidc"}, Open(m)
    PROVE  AccountsIndInv'
<1>1. /\ server = "starting" /\ Split = {} /\ server' = m
      /\ UNCHANGED <<users, identities, lastId, sessions, signIn>>
  BY DEF Open, rows
<1>2. ASSUME NEW d \in users, d.qualified
      PROVE  FALSE
  <2>1. PICK u \in users : u.name = d.name /\ ~u.qualified
    BY DEF AccountsIndInv, RowsWhole
  <2>2. d \in Split
    BY <1>2, <2>1 DEF Split
  <2>3. QED
    BY <1>1, <2>2
<1>3. ServedUnified'
  BY <1>1, <1>2 DEF AccountsIndInv, ServedUnified
<1>4. /\ sessions' \in [SignIns -> {Shared} \cup Ids]
      /\ \A q \in SignIns : sessions'[q] \in {Shared, sessions[q]}
  BY <1>1 DEF AccountsIndInv, AccountsTyped
<1>5. QED
  BY <1>1, <1>3, <1>4, OthersKeep

LEMMA StartStopKeep ==
    ASSUME AccountsIndInv, Start \/ Stop
    PROVE  AccountsIndInv'
<1>1. /\ UNCHANGED <<users, identities, lastId, sessions>>
      /\ \/ server = "down" /\ server' = "starting" /\ UNCHANGED signIn
         \/ server' = "down" /\ signIn' = [r \in SignIns |-> Idle]
  BY DEF Start, Stop, rows
<1>2. server' \in {"down", "starting", "single", "oidc"} /\ ServedUnified'
  BY <1>1, IdleIsSignIn DEF AccountsIndInv, ServedUnified
<1>3. /\ sessions' \in [SignIns -> {Shared} \cup Ids]
      /\ \A q \in SignIns : sessions'[q] \in {Shared, sessions[q]}
  BY <1>1 DEF AccountsIndInv, AccountsTyped
<1>4. QED
  BY <1>1, <1>2, <1>3, OthersKeep

(* A qualified row goes; what led to it leads to the bare one. *)
LEMMA UnifyKeeps ==
    ASSUME AccountsIndInv, NEW d \in users, NEW u \in users, Unify(d, u)
    PROVE  AccountsIndInv'
<1> USE DEF AccountsIndInv
<1>1. /\ server = "starting" /\ d.qualified /\ u.name = d.name /\ ~u.qualified
      /\ users' = users \ {d}
      /\ identities' = Moved(identities, d.id, u.id)
      /\ sessions' = Moved(sessions, d.id, u.id)
      /\ UNCHANGED <<signIn, server, lastId>>
  BY DEF Unify, Split
<1>2. u \in users' /\ d.id \in Ids /\ u.id \in Ids
  BY <1>1 DEF AccountsTyped, UserRow
<1>3. /\ identities' \in [Subjects -> {Shared} \cup Ids]
      /\ \A s \in Subjects : identities'[s] = IF identities[s] = d.id THEN u.id ELSE identities[s]
      /\ sessions' \in [SignIns -> {Shared} \cup Ids]
      /\ \A r \in SignIns : sessions'[r] = IF sessions[r] = d.id THEN u.id ELSE sessions[r]
  BY <1>1, <1>2 DEF Moved, AccountsTyped
<1>4. AccountsTyped'
  BY <1>1, <1>3 DEF AccountsTyped
<1>5. RowsWhole'
  <2>1. \A w \in users' : \E v \in users' : v.name = w.name /\ ~v.qualified
    BY <1>1 DEF RowsWhole
  <2>2. QED
    BY <1>1, <2>1 DEF RowsWhole
<1>6. ASSUME NEW s \in Subjects, identities'[s] # Shared
      PROVE  HasRow(identities[s], NameOf[s])'
  <2>1. CASE identities[s] = d.id
    <3>1. PICK w \in users : w.id = d.id /\ w.name = NameOf[s]
      BY <1>2, <2>1 DEF LeadsHome, HasRow
    <3>2. w = d
      BY <3>1 DEF RowsWhole
    <3>3. QED
      BY <1>1, <1>2, <1>3, <2>1, <3>1, <3>2 DEF HasRow
  <2>2. CASE identities[s] # d.id
    <3>1. PICK w \in users : w.id = identities[s] /\ w.name = NameOf[s]
      BY <1>3, <1>6, <2>2 DEF LeadsHome, HasRow
    <3>2. QED
      BY <1>1, <1>3, <2>2, <3>1 DEF HasRow
  <2>3. QED
    BY <2>1, <2>2
<1>7. \A r \in SignIns : sessions'[r] # Shared => \E w \in users' : w.id = sessions'[r]
  BY <1>1, <1>2, <1>3 DEF LeadsHome
<1>8. \A r \in SignIns : signIn'[r].at = "idle"
  BY <1>1 DEF ServedUnified
<1>9. LeadsHome'
  BY <1>6, <1>7, <1>8 DEF LeadsHome, SignInKnows
<1>10. ServedUnified' /\ SoleStaysOldest'
  BY <1>1, <1>8 DEF ServedUnified, SoleStaysOldest, StaysOldest
<1>11. QED
  BY <1>4, <1>5, <1>9, <1>10
-----------------------------------------------------------------------------
LEMMA AccountsStepKeeps == AccountsIndInv /\ [AccountsNext]_accountVars => AccountsIndInv'
<1> SUFFICES ASSUME AccountsIndInv, [AccountsNext]_accountVars PROVE AccountsIndInv'
  OBVIOUS
<1>1. CASE UNCHANGED accountVars
  BY <1>1, StillKeeps DEF accountVars
<1>2. CASE \E r \in SignIns : SignInStep(r) \/ Logout(r) \/ (\E s \in Subjects : SignIn(r, s))
  BY <1>2, LookUpKeeps, InsertKeeps, RegisterKeeps, LookForSoleKeeps, ClaimKeeps, LogoutKeeps,
     SignInKeeps DEF SignInStep
<1>3. CASE Read
  <2>1. UNCHANGED <<users, identities, lastId, sessions, signIn, server>>
    BY <1>3 DEF Read, Write, rows
  <2>2. QED
    BY <2>1, StillKeeps
<1>4. CASE Start \/ Stop
  BY <1>4, StartStopKeep
<1>5. CASE \E d, u \in users : Unify(d, u)
  BY <1>5, UnifyKeeps
<1>6. CASE \E m \in {"single", "oidc"} : Open(m)
  BY <1>6, OpenKeeps
<1>7. QED
  BY <1>1, <1>2, <1>3, <1>4, <1>5, <1>6 DEF AccountsNext

(* Every reachable state satisfies the strengthening. *)
THEOREM AccountsSpecIndInv == AccountsSpec => []AccountsIndInv
BY AccountsInitIndInv, AccountsStepKeeps, PTL DEF AccountsSpec

(* One person, one account: however many subjects and sign-ins at once, and *)
(* wherever the server was stopped, every identity and every session leads  *)
(* to an account that is there, and no sign-in is refused.                  *)
THEOREM OnePersonOneAccount == AccountsSpec => []OneAccountEach
<1>1. AccountsIndInv => OneAccountEach
  <2> SUFFICES ASSUME AccountsIndInv, server \in {"single", "oidc"}
               PROVE  /\ \A u, v \in users : u.name = v.name => u = v
                      /\ \A s \in Subjects : identities[s] # Shared =>
                            \E u \in users : u.id = identities[s] /\ u.name = NameOf[s]
                      /\ \A r \in SignIns : sessions[r] # Shared =>
                            \E u \in users : u.id = sessions[r]
                      /\ \A r \in SignIns : signIn[r].at # "refused"
    BY DEF OneAccountEach
  <2>1. \A u, v \in users : u.name = v.name => u = v
    BY DEF AccountsIndInv, ServedUnified, RowsWhole
  <2>2. QED
    BY <2>1 DEF AccountsIndInv, LeadsHome, SignInKnows, HasRow
<1>2. QED
  BY <1>1, AccountsSpecIndInv, PTL

(* The history of before the accounts goes to one that was alone: at the    *)
(* start, or when a sign-in looked, with only newer accounts since.         *)
THEOREM GivenToTheOnlyOne == AccountsSpec => ClaimedAlone
<1>1. ASSUME AccountsIndInv, [AccountsNext]_accountVars, claim = Shared, claim' # Shared
      PROVE  \/ users = {u \in users : u.id = claim'}
             \/ \E r \in SignIns : /\ signIn[r].sole = claim'
                                  /\ \A u \in users : u.id = claim' \/ u.id > signIn[r].last
  <2>0. AccountsNext
    BY <1>1 DEF accountVars, history
  <2>1. CASE \E r \in SignIns : Claim(r)
    <3>1. PICK r \in SignIns : Claim(r)
      BY <2>1
    <3>2. claim' = signIn[r].sole
      BY <1>1, <3>1 DEF Claim, Transfer, history
    <3>3. \A u \in users : u.id = claim' \/ u.id > signIn[r].last
      BY <1>1, <3>1, <3>2 DEF AccountsIndInv, SoleStaysOldest, StaysOldest
    <3>4. QED
      BY <3>2, <3>3
  <2>2. CASE \E m \in {"single", "oidc"} : Open(m)
    <3>1. PICK id \in Sole : claim' = id
      BY <1>1, <2>2 DEF Open, Transfer, history
    <3>2. PICK v \in users : users = {v} /\ id = v.id
      BY DEF Sole
    <3>3. QED
      BY <3>1, <3>2
  <2>3. CASE \E d, u \in users : Unify(d, u)
    <3>1. PICK d \in users, u \in users : Unify(d, u)
      BY <2>3
    <3>2. d.id # Shared
      BY <1>1 DEF AccountsIndInv, AccountsTyped, UserRow
    <3>3. claim' = claim
      BY <1>1, <3>1, <3>2 DEF Unify
    <3>4. QED
      BY <1>1, <3>3
  <2>4. CASE Read \/ Start \/ Stop
    BY <1>1, <2>4 DEF Read, Write, Start, Stop, history
  <2>5. CASE \E r \in SignIns : \/ LookUp(r) \/ InsertUser(r) \/ RegisterIdentity(r)
                                \/ LookForSole(r) \/ Logout(r)
                                \/ \E s \in Subjects : SignIn(r, s)
    BY <1>1, <2>5 DEF LookUp, InsertUser, RegisterIdentity, LookForSole, Logout, SignIn, history
  <2>6. QED
    BY <2>0, <2>1, <2>2, <2>3, <2>4, <2>5 DEF AccountsNext, SignInStep
<1>2. QED
  BY <1>1, AccountsSpecIndInv, PTL DEF AccountsSpec, ClaimedAlone
-----------------------------------------------------------------------------
(* The journal of all accounts. Those who read under a name are in a row;   *)
(* the rest lie together, and in the order they were read.                  *)
JournalTyped ==
    /\ claim \in {Shared} \cup Ids /\ lastSeq \in Nat
    /\ journal \subseteq EventRow /\ readers \subseteq {Shared} \cup Ids
    /\ starts \in 0 .. MaxStarts

EventHeld(e) ==
    /\ IF e.by = Everyone THEN e.owner = IF e.late THEN Shared ELSE claim
       ELSE HasRow(e.owner, e.by)
    /\ e.owner \in readers
    /\ e.late => claim # Shared
    /\ e.first <= e.seq /\ e.seq <= lastSeq

InOrderRead ==
    \A d, e \in journal :
        d.by = Everyone /\ e.by = Everyone /\ d.late = e.late =>
            (d.seq < e.seq <=> d.first < e.first)

HistoryIndInv == JournalTyped /\ (\A e \in journal : EventHeld(e)) /\ InOrderRead

LEMMA EventTypes ==
    ASSUME JournalTyped, NEW e \in journal
    PROVE  /\ e \in EventRow /\ e.seq \in Nat \ {0} /\ e.first \in Nat \ {0}
           /\ e.owner \in {Shared} \cup Ids /\ e.late \in BOOLEAN
           /\ e.by \in Names \cup {Everyone}
<1>1. e \in EventRow
  BY DEF JournalTyped
<1>2. QED
  BY <1>1 DEF EventRow

LEMMA EventOfIs ==
    ASSUME NEW n \in Nat \ {0}, NEW owner \in {Shared} \cup Ids, NEW by \in Names \cup {Everyone}
    PROVE  /\ EventOf(n, owner, by) \in EventRow
           /\ EventOf(n, owner, by).seq = n /\ EventOf(n, owner, by).first = n
           /\ EventOf(n, owner, by).owner = owner /\ EventOf(n, owner, by).by = by
           /\ EventOf(n, owner, by).late <=> claim # Shared
<1>1. (claim # Shared) \in BOOLEAN
  OBVIOUS
<1> DEFINE late == claim # Shared
<1>2. late \in BOOLEAN
  OBVIOUS
<1>3. EventOf(n, owner, by) = [seq |-> n, owner |-> owner, first |-> n, by |-> by, late |-> late]
  BY DEF EventOf
<1> HIDE DEF late
<1> DEFINE x == EventOf(n, owner, by)
<1>4. /\ x \in EventRow /\ x.seq = n /\ x.first = n /\ x.owner = owner /\ x.by = by
      /\ x.late = late
  BY <1>2, <1>3 DEF EventRow
<1> HIDE DEF x
<1>5. x.late <=> claim # Shared
  BY <1>4 DEF late
<1>6. QED
  BY <1>4, <1>5 DEF x

LEMMA NamesOfRows == AccountsIndInv => \A u \in users : u.id \in Ids /\ u.name \in Names /\ u.name # Everyone
<1> SUFFICES ASSUME AccountsIndInv, NEW u \in users
             PROVE  u.id \in Ids /\ u.name \in Names /\ u.name # Everyone
  OBVIOUS
<1>1. u.id \in Ids /\ u.name \in Names
  BY DEF AccountsIndInv, AccountsTyped, UserRow
<1>2. QED
  BY <1>1

LEMMA HistoryInit == AccountsInit => HistoryIndInv
<1> SUFFICES ASSUME AccountsInit PROVE HistoryIndInv
  OBVIOUS
<1>1. PICK S \in SUBSET Subjects :
        /\ journal = {EventOf(1, Shared, Everyone)} \cup {EventOf(u.id + 1, u.id, u.name) : u \in users}
        /\ readers = 0 .. Cardinality(S)
        /\ lastId = Cardinality(S) /\ lastSeq = lastId + 1
  BY DEF AccountsInit
<1>2. claim = Shared /\ starts = 0
  BY DEF AccountsInit
<1>3. Cardinality(S) \in Nat
  BY FS_Subset, FS_CardinalityType
<1>4. \A u \in users : /\ u.id \in Nat \ {0} /\ u.id <= lastId /\ u.name \in Names
                       /\ u.name # Everyone
  BY AccountsInitIndInv, NamesOfRows DEF AccountsIndInv, RowsWhole
<1>5. ASSUME NEW e \in journal
      PROVE  /\ e \in EventRow /\ EventHeld(e)
             /\ e.by = Everyone => e.seq = 1 /\ e.first = 1
  <2>1. CASE e = EventOf(1, Shared, Everyone)
    <3>1. /\ e \in EventRow /\ e.seq = 1 /\ e.first = 1 /\ e.owner = Shared /\ e.by = Everyone
          /\ ~e.late
      BY <1>2, <2>1, EventOfIs
    <3>2. e.owner \in readers /\ 1 <= lastSeq
      BY <1>1, <1>3, <3>1
    <3>3. QED
      BY <1>2, <3>1, <3>2 DEF EventHeld
  <2>2. CASE \E u \in users : e = EventOf(u.id + 1, u.id, u.name)
    <3>1. PICK u \in users : e = EventOf(u.id + 1, u.id, u.name)
      BY <2>2
    <3>2. /\ u.id + 1 \in Nat \ {0} /\ u.id \in {Shared} \cup Ids
          /\ u.name \in Names \cup {Everyone}
      BY <1>4
    <3>3. /\ e \in EventRow /\ e.seq = u.id + 1 /\ e.first = u.id + 1 /\ e.owner = u.id
          /\ e.by = u.name /\ ~e.late
      BY <1>2, <3>1, <3>2, EventOfIs
    <3>4. e.owner \in readers /\ u.id + 1 <= lastSeq
      BY <1>1, <1>3, <1>4, <3>3
    <3>5. HasRow(e.owner, e.by)
      BY <3>3 DEF HasRow
    <3>6. QED
      BY <1>2, <1>4, <3>2, <3>3, <3>4, <3>5 DEF EventHeld
  <2>3. QED
    BY <1>1, <2>1, <2>2
<1>6. JournalTyped
  BY <1>1, <1>2, <1>3, <1>5 DEF JournalTyped
<1>7. InOrderRead
  BY <1>5 DEF InOrderRead
<1>8. QED
  BY <1>5, <1>6, <1>7 DEF HistoryIndInv

(* Rows are added at most, and the history is left alone.                   *)
LEMMA HistoryLeft ==
    ASSUME HistoryIndInv, users \subseteq users', UNCHANGED history, starts' \in 0 .. MaxStarts
    PROVE  HistoryIndInv'
<1>1. UNCHANGED <<claim, journal, lastSeq, readers>>
  BY DEF history
<1>2. \A e \in journal : EventHeld(e)'
  BY <1>1 DEF HistoryIndInv, EventHeld, HasRow
<1>3. QED
  BY <1>1, <1>2 DEF HistoryIndInv, JournalTyped, InOrderRead

LEMMA ToAccountIs ==
    ASSUME JournalTyped, NEW e \in journal, NEW id \in Ids
    PROVE  /\ ToAccount(e, id) \in EventRow
           /\ ToAccount(e, id).owner = id /\ ToAccount(e, id).seq = lastSeq + e.seq
           /\ ToAccount(e, id).first = e.first /\ ToAccount(e, id).by = e.by
           /\ ToAccount(e, id).late = e.late
<1>1. e \in EventRow /\ e.seq \in Nat \ {0} /\ lastSeq \in Nat
  BY EventTypes DEF JournalTyped
<1>2. lastSeq + e.seq \in Nat \ {0}
  BY <1>1
<1> DEFINE n == lastSeq + e.seq
<1>3. n \in Ids
  BY <1>2
<1>4. ToAccount(e, id) = [e EXCEPT !.owner = id, !.seq = n]
  BY DEF ToAccount
<1> HIDE DEF n
<1>5. QED
  BY <1>1, <1>3, <1>4 DEF EventRow, n

(* The claim: what lies with the shared account goes over whole.            *)
LEMMA TransferKeeps ==
    ASSUME HistoryIndInv, AccountsIndInv, NEW id \in {Shared} \cup Ids, Transfer(id), UNCHANGED <<users, starts>>
    PROVE  HistoryIndInv'
<1> USE DEF HistoryIndInv
<1>1. CASE UNCHANGED history
  BY <1>1, HistoryLeft DEF JournalTyped
<1>2. CASE id # Shared /\ claim = Shared
  <2>1. /\ claim' = id /\ lastSeq' = 2 * lastSeq
        /\ journal' = (journal \ SharedRows) \cup {ToAccount(e, id) : e \in SharedRows}
        /\ readers' = IF Shared \in readers THEN (readers \ {Shared}) \cup {id} ELSE readers
    BY <1>2 DEF Transfer
  <2>2. lastSeq \in Nat
    BY DEF JournalTyped
  <2>3. \A e \in journal : ~e.late /\ (e.by = Everyone <=> e.owner = Shared)
    <3>1. \A e \in journal : e.by # Everyone => e.owner # Shared
      BY NamesOfRows DEF EventHeld, HasRow
    <3>2. QED
      BY <1>2, <3>1 DEF EventHeld
  <2>4. ASSUME NEW x \in journal'
        PROVE  \E e \in journal :
                  /\ x \in EventRow /\ x.first = e.first /\ x.by = e.by /\ x.late = e.late
                  /\ IF e.by = Everyone THEN x.owner = id /\ x.seq = lastSeq + e.seq
                     ELSE x.owner = e.owner /\ x.seq = e.seq
    <3>1. CASE x \in journal \ SharedRows
      <4>1. x \in EventRow /\ x.by # Everyone
        BY <2>3, <3>1, EventTypes DEF SharedRows
      <4>2. QED
        BY <3>1, <4>1
    <3>2. CASE \E e \in SharedRows : x = ToAccount(e, id)
      <4>1. PICK e \in SharedRows : x = ToAccount(e, id)
        BY <3>2
      <4>2. e \in journal /\ e.by = Everyone
        BY <2>3 DEF SharedRows
      <4>3. QED
        BY <1>2, <4>1, <4>2, ToAccountIs
    <3>3. QED
      BY <2>1, <3>1, <3>2
  <2>5. JournalTyped'
    BY <1>2, <2>1, <2>2, <2>4 DEF JournalTyped
  <2>6. ASSUME NEW x \in journal' PROVE EventHeld(x)'
    <3>1. PICK e \in journal :
              /\ x.first = e.first /\ x.by = e.by /\ x.late = e.late
              /\ IF e.by = Everyone THEN x.owner = id /\ x.seq = lastSeq + e.seq
                 ELSE x.owner = e.owner /\ x.seq = e.seq
      BY <2>4
    <3>2. /\ e.seq \in Nat /\ e.first \in Nat /\ e.first <= e.seq /\ e.seq <= lastSeq
          /\ e.owner \in readers /\ ~e.late
      BY <2>3, EventTypes DEF EventHeld
    <3>3. x.first <= x.seq /\ x.seq <= lastSeq'
      BY <2>1, <2>2, <3>1, <3>2
    <3>4. x.owner \in readers'
      BY <2>1, <2>3, <3>1, <3>2
    <3>5. CASE e.by = Everyone
      BY <2>1, <3>1, <3>2, <3>3, <3>4, <3>5 DEF EventHeld
    <3>6. CASE e.by # Everyone
      <4>1. HasRow(x.owner, x.by)'
        BY <3>1, <3>6 DEF EventHeld, HasRow
      <4>2. QED
        BY <3>1, <3>2, <3>3, <3>4, <3>6, <4>1 DEF EventHeld
    <3>7. QED
      BY <3>5, <3>6
  <2>7. InOrderRead'
    <3> SUFFICES ASSUME NEW x \in journal', NEW y \in journal', x.by = Everyone, y.by = Everyone
                 PROVE  x.seq < y.seq <=> x.first < y.first
      BY DEF InOrderRead
    <3>1. PICK d \in journal : d.by = Everyone /\ x.first = d.first /\ x.seq = lastSeq + d.seq
      BY <2>4
    <3>2. PICK e \in journal : e.by = Everyone /\ y.first = e.first /\ y.seq = lastSeq + e.seq
      BY <2>4
    <3>3. d.late = e.late
      BY <2>3, EventTypes
    <3>4. d.seq \in Nat /\ e.seq \in Nat
      BY EventTypes
    <3>5. d.seq < e.seq <=> d.first < e.first
      BY <3>1, <3>2, <3>3 DEF InOrderRead
    <3>6. QED
      BY <2>2, <3>1, <3>2, <3>4, <3>5
  <2>8. QED
    BY <2>5, <2>6, <2>7
<1>3. QED
  BY <1>1, <1>2 DEF Transfer

LEMMA ReadKeeps ==
    ASSUME HistoryIndInv, AccountsIndInv, NEW owner \in {Shared} \cup Ids,
           NEW by \in Names \cup {Everyone}, Write(owner, by),
           by = Everyone => owner = Shared,
           by # Everyone => HasRow(owner, by)
    PROVE  HistoryIndInv'
<1> USE DEF HistoryIndInv
<1> DEFINE x == EventOf(lastSeq + 1, owner, by)
<1>1. /\ lastSeq' = lastSeq + 1 /\ journal' = journal \cup {x} /\ readers' = readers \cup {owner}
      /\ UNCHANGED <<users, claim, starts>> /\ lastSeq \in Nat /\ lastSeq + 1 \in Nat \ {0}
  BY DEF Write, rows, JournalTyped
<1>2. /\ x \in EventRow /\ x.seq = lastSeq + 1 /\ x.first = lastSeq + 1
      /\ x.owner = owner /\ x.by = by /\ (x.late <=> claim # Shared)
  BY <1>1, EventOfIs
<1> HIDE DEF x
<1>3. JournalTyped'
  BY <1>1, <1>2 DEF JournalTyped
<1>4. ASSUME NEW e \in journal PROVE EventHeld(e)'
  <2>1. HasRow(e.owner, e.by)' <=> HasRow(e.owner, e.by)
    BY <1>1 DEF HasRow
  <2>2. e.first \in Nat /\ e.seq \in Nat
    BY EventTypes
  <2>3. QED
    BY <1>1, <2>1, <2>2 DEF EventHeld
<1>5. ASSUME NEW e \in journal', e = x PROVE EventHeld(e)'
  <2>1. /\ e.seq = lastSeq' /\ e.first = lastSeq' /\ e.owner = owner /\ e.by = by
        /\ owner \in readers' /\ (e.late <=> claim' # Shared) /\ lastSeq' \in Nat
    BY <1>1, <1>2, <1>5
  <2>2. CASE by = Everyone
    BY <2>1, <2>2 DEF EventHeld
  <2>3. CASE by # Everyone
    <3>1. HasRow(e.owner, e.by)'
      BY <1>1, <2>1, <2>3 DEF HasRow
    <3>2. QED
      BY <2>1, <2>3, <3>1 DEF EventHeld
  <2>4. QED
    BY <2>2, <2>3
<1>6. InOrderRead'
  <2>1. \A e \in journal : /\ e.first \in Nat /\ e.seq \in Nat
                           /\ e.first <= e.seq /\ e.seq <= lastSeq
    BY EventTypes DEF EventHeld
  <2>2. \A e \in journal : e.seq < x.seq /\ e.first < x.first
                           /\ ~(x.seq < e.seq) /\ ~(x.first < e.first)
    BY <1>1, <1>2, <2>1
  <2>3. \A d, e \in journal' : d.by = Everyone /\ e.by = Everyone /\ d.late = e.late =>
            (d.seq < e.seq <=> d.first < e.first)
    BY <1>1, <1>2, <2>2 DEF InOrderRead
  <2>4. QED
    BY <2>3 DEF InOrderRead
<1>7. QED
  BY <1>1, <1>3, <1>4, <1>5, <1>6

(* Two accounts of one person become one, with what either has read.        *)
LEMMA UnifyKeepsHistory ==
    ASSUME HistoryIndInv, AccountsIndInv, NEW d \in users, NEW u \in users, Unify(d, u)
    PROVE  HistoryIndInv'
<1> USE DEF HistoryIndInv
<1> DEFINE To(id) == IF id = d.id THEN u.id ELSE id
           Now(e) == [e EXCEPT !.owner = IF @ = d.id THEN u.id ELSE @]
<1>1. /\ d \in users /\ u.name = d.name /\ ~u.qualified /\ d.qualified
      /\ users' = users \ {d} /\ claim' = To(claim)
      /\ journal' = {Now(e) : e \in journal}
      /\ readers' = IF d.id \in readers THEN (readers \ {d.id}) \cup {u.id} ELSE readers
      /\ UNCHANGED <<lastSeq, starts>>
  BY DEF Unify, Split
<1>2. d.id \in Ids /\ u.id \in Ids /\ u \in users'
  BY <1>1, NamesOfRows
<1>3. ASSUME NEW e \in journal
      PROVE  /\ Now(e) \in EventRow /\ Now(e).owner = To(e.owner) /\ Now(e).seq = e.seq
             /\ Now(e).first = e.first /\ Now(e).by = e.by /\ Now(e).late = e.late
  <2>1. e \in EventRow /\ To(e.owner) \in {Shared} \cup Ids
    BY <1>2, EventTypes
  <2>2. Now(e) = [e EXCEPT !.owner = To(e.owner)]
    BY <2>1 DEF EventRow
  <2> HIDE DEF To, Now
  <2>3. QED
    BY <2>1, <2>2 DEF EventRow
<1> HIDE DEF Now
<1>4. \A x \in journal' : \E e \in journal :
          /\ x \in EventRow /\ x.owner = To(e.owner) /\ x.seq = e.seq
          /\ x.first = e.first /\ x.by = e.by /\ x.late = e.late
  BY <1>1, <1>3
<1>5. JournalTyped'
  BY <1>1, <1>2, <1>4 DEF JournalTyped
<1>6. ASSUME NEW x \in journal' PROVE EventHeld(x)'
  <2>1. PICK e \in journal : /\ x.owner = To(e.owner) /\ x.seq = e.seq
                             /\ x.first = e.first /\ x.by = e.by /\ x.late = e.late
    BY <1>4
  <2>2. EventHeld(e)
    OBVIOUS
  <2>3. x.owner \in readers' /\ (e.late => claim' # Shared)
    BY <1>1, <1>2, <2>1, <2>2 DEF EventHeld
  <2>4. CASE e.by = Everyone
    BY <1>1, <1>2, <2>1, <2>2, <2>3, <2>4 DEF EventHeld
  <2>5. CASE e.by # Everyone
    <3>1. PICK v \in users : v.id = e.owner /\ v.name = e.by
      BY <2>2, <2>5 DEF EventHeld, HasRow
    <3>2. HasRow(x.owner, x.by)'
      <4>1. CASE v = d
        BY <1>1, <1>2, <2>1, <3>1, <4>1 DEF HasRow
      <4>2. CASE v # d
        <5>1. v.id # d.id /\ v \in users'
          BY <1>1, <4>2 DEF AccountsIndInv, RowsWhole
        <5>2. QED
          BY <2>1, <3>1, <5>1 DEF HasRow
      <4>3. QED
        BY <4>1, <4>2
    <3>3. QED
      BY <1>1, <2>1, <2>2, <2>3, <2>5, <3>2 DEF EventHeld
  <2>6. QED
    BY <2>4, <2>5
<1>7. InOrderRead'
  BY <1>4 DEF InOrderRead
<1>8. QED
  BY <1>5, <1>6, <1>7

LEMMA HistoryStepKeeps ==
    AccountsIndInv /\ HistoryIndInv /\ [AccountsNext]_accountVars => HistoryIndInv'
<1> SUFFICES ASSUME AccountsIndInv, HistoryIndInv, [AccountsNext]_accountVars
             PROVE  HistoryIndInv'
  OBVIOUS
<1>1. starts \in 0 .. MaxStarts
  BY DEF HistoryIndInv, JournalTyped
<1>2. CASE UNCHANGED accountVars
  BY <1>1, <1>2, HistoryLeft DEF accountVars, history
<1>3. CASE \E r \in SignIns : Claim(r)
  <2>1. PICK r \in SignIns : Claim(r)
    BY <1>3
  <2>2. Transfer(signIn[r].sole) /\ UNCHANGED <<users, starts>>
    BY <2>1 DEF Claim, rows
  <2>3. signIn[r].sole \in {Shared} \cup Ids
    BY DEF AccountsIndInv, AccountsTyped, SignInSet
  <2>4. QED
    BY <2>2, <2>3, TransferKeeps
<1>4. CASE \E m \in {"single", "oidc"} : Open(m)
  <2>1. UNCHANGED <<users, starts>> /\ ((\E id \in Sole : Transfer(id)) \/ UNCHANGED history)
    BY <1>4 DEF Open, rows
  <2>2. \A id \in Sole : id \in {Shared} \cup Ids
    BY NamesOfRows DEF Sole
  <2>3. QED
    BY <1>1, <2>1, <2>2, TransferKeeps, HistoryLeft
<1>5. CASE \E d, u \in users : Unify(d, u)
  BY <1>5, UnifyKeepsHistory
<1>6. CASE Read
  <2>1. CASE Write(Shared, Everyone)
    BY <2>1, ReadKeeps
  <2>2. CASE \E u \in users : Write(u.id, u.name)
    <3>1. PICK u \in users : Write(u.id, u.name)
      BY <2>2
    <3>2. u.id \in {Shared} \cup Ids /\ u.name \in Names \cup {Everyone} /\ u.name # Everyone
          /\ HasRow(u.id, u.name)
      BY NamesOfRows DEF HasRow
    <3>3. QED
      BY <3>1, <3>2, ReadKeeps
  <2>3. QED
    BY <1>6, <2>1, <2>2 DEF Read
<1>7. CASE Start \/ Stop
  <2>1. users' = users /\ UNCHANGED history /\ starts' \in 0 .. MaxStarts
    BY <1>1, <1>7 DEF Start, Stop, rows
  <2>2. QED
    BY <2>1, HistoryLeft
<1>8. CASE \E r \in SignIns : \/ LookUp(r) \/ InsertUser(r) \/ RegisterIdentity(r)
                              \/ LookForSole(r) \/ Logout(r) \/ \E s \in Subjects : SignIn(r, s)
  <2>1. users \subseteq users' /\ UNCHANGED history /\ starts' \in 0 .. MaxStarts
    BY <1>1, <1>8 DEF LookUp, InsertUser, RegisterIdentity, LookForSole, Logout, SignIn, rows
  <2>2. QED
    BY <2>1, HistoryLeft
<1>9. QED
  BY <1>2, <1>3, <1>4, <1>5, <1>6, <1>7, <1>8 DEF AccountsNext, SignInStep

LEMMA HistoryInvariant == AccountsSpec => []HistoryIndInv
BY HistoryInit, HistoryStepKeeps, AccountsSpecIndInv, PTL DEF AccountsSpec

(* The types of the tables of accounts and of what sign-ins hold.           *)
THEOREM AccountsTypes == AccountsSpec => []AccountsTypeOK
<1>1. AccountsIndInv /\ HistoryIndInv => AccountsTypeOK
  BY DEF AccountsIndInv, AccountsTyped, HistoryIndInv, JournalTyped, AccountsTypeOK, SignInSet
<1>2. QED
  BY <1>1, AccountsSpecIndInv, HistoryInvariant, PTL

(* No reading is lost, split or given to another: what was read before the  *)
(* accounts is all with whoever claimed it, in its order.                   *)
THEOREM HistoryStaysWhole == AccountsSpec => []HistoryWhole
<1>1. ASSUME HistoryIndInv PROVE HistoryWhole
  <2>1. \A e \in journal :
          /\ IF e.by = Everyone THEN e.owner = IF e.late THEN Shared ELSE claim
             ELSE \E u \in users : u.id = e.owner /\ u.name = e.by
          /\ e.owner \in readers
    BY <1>1 DEF HistoryIndInv, EventHeld, HasRow
  <2>2. ASSUME NEW d \in journal, NEW e \in journal,
               d.by = Everyone, e.by = Everyone, d.owner = e.owner
        PROVE  d.seq < e.seq <=> d.first < e.first
    <3>1. d.late <=> e.late
      BY <1>1, <2>2 DEF HistoryIndInv, EventHeld
    <3>2. d.late = e.late
      BY <1>1, <3>1, EventTypes DEF HistoryIndInv
    <3>3. QED
      BY <1>1, <2>2, <3>2 DEF HistoryIndInv, InOrderRead
  <2>3. QED
    BY <2>1, <2>2 DEF HistoryWhole
<1>2. QED
  BY <1>1, HistoryInvariant, PTL
=============================================================================
