--------------------------- MODULE UnitSync_proofs ---------------------------
(***************************************************************************)
(* Theorems about UnitSync, for any keys, signs, refreshes and any number  *)
(* of listings, requests and faults.                                       *)
(*                                                                         *)
(* The argument: the three passes of a sync are described one by one, on   *)
(* any table of rows (what each does to domain, key, sign and state); the  *)
(* transaction is their composition, and all other actions leave the keys  *)
(* and signs of the table and the set of its rows alone.                   *)
(***************************************************************************)
EXTENDS UnitSync, TLAPS

(* A table of rows. *)
Table(t) == DOMAIN t \subseteq Ids /\ t \in [DOMAIN t -> Row]

(* No two of its rows have one key. *)
Unambiguous(t) == \A u, v \in DOMAIN t : t[u].key = t[v].key => u = v
-----------------------------------------------------------------------------
(* A listing is a map from some keys to signs. *)
LEMMA ListingType ==
    ASSUME NEW listing \in Listings
    PROVE  /\ DOMAIN listing \subseteq Keys
           /\ \A k \in DOMAIN listing : listing[k] \in Signs
BY DEF Listings

(* The first pass gives a row its own key or one it was renamed to, and      *)
(* leaves the rest of the row.                                               *)
LEMMA RekeyedRows ==
    ASSUME NEW t, Table(t), NEW listing \in Listings
    PROVE  /\ Table(Rekeyed(t, listing))
           /\ DOMAIN Rekeyed(t, listing) = DOMAIN t
           /\ \A u \in DOMAIN t :
                LET new == Rekeyed(t, listing)[u]
                IN  /\ new.sign = t[u].sign
                    /\ new.state = t[u].state
                    /\ \/ new.key = t[u].key
                       \/ Renamed(t, listing, u, new.key)
<1> DEFINE new == Rekeyed(t, listing)
<1>1. DOMAIN new = DOMAIN t
  BY DEF Rekeyed
<1>2. ASSUME NEW u \in DOMAIN t
      PROVE  /\ new[u] \in Row
             /\ new[u].sign = t[u].sign
             /\ new[u].state = t[u].state
             /\ new[u].key = t[u].key \/ Renamed(t, listing, u, new[u].key)
  <2>1. t[u] \in Row
    BY DEF Table
  <2>2. CASE \E k \in Keys : Renamed(t, listing, u, k)
    <3>1. PICK k \in Keys : /\ k = CHOOSE j \in Keys : Renamed(t, listing, u, j)
                            /\ Renamed(t, listing, u, k)
      BY <2>2
    <3>2. new[u] = [t[u] EXCEPT !.key = k]
      BY <2>2, <3>1 DEF Rekeyed
    <3>3. QED
      BY <2>1, <3>1, <3>2 DEF Row
  <2>3. CASE ~\E k \in Keys : Renamed(t, listing, u, k)
    <3>1. new[u] = t[u]
      BY <2>3 DEF Rekeyed
    <3>2. QED
      BY <2>1, <3>1
  <2>4. QED
    BY <2>2, <2>3
<1>3. new = [u \in DOMAIN t |-> new[u]]
  BY DEF Rekeyed
<1> HIDE DEF new
<1>4. new \in [DOMAIN t -> Row]
  BY <1>2, <1>3
<1>5. Table(new)
  BY <1>1, <1>4 DEF Table
<1>6. QED
  BY <1>1, <1>2, <1>5 DEF new

(* Each of a renamed row and its new key is the other's only match: so two   *)
(* rows never get one key, nor does a row get one that another has.          *)
LEMMA RekeyedUnambiguous ==
    ASSUME NEW t, Table(t), NEW listing \in Listings, Unambiguous(t)
    PROVE  Unambiguous(Rekeyed(t, listing))
<1> DEFINE new == Rekeyed(t, listing)
<1>1. SUFFICES ASSUME NEW u \in DOMAIN t, NEW v \in DOMAIN t, new[u].key = new[v].key
               PROVE  u = v
  BY RekeyedRows DEF Unambiguous
<1> DEFINE k == new[u].key
<1>2. /\ k = t[u].key \/ Renamed(t, listing, u, k)
      /\ k = t[v].key \/ Renamed(t, listing, v, k)
  BY <1>1, RekeyedRows
<1> HIDE DEF new, k
<1>3. CASE Renamed(t, listing, u, k) /\ Renamed(t, listing, v, k)
  BY <1>3 DEF Renamed
<1>4. CASE Renamed(t, listing, u, k) /\ k = t[v].key
  BY <1>4 DEF Renamed, Unseen
<1>5. CASE k = t[u].key /\ Renamed(t, listing, v, k)
  BY <1>5 DEF Renamed, Unseen
<1>6. CASE k = t[u].key /\ k = t[v].key
  BY <1>6 DEF Unambiguous
<1>7. QED
  BY <1>2, <1>3, <1>4, <1>5, <1>6

(* Ids for new rows are unused ones, and no two rows get the same. *)
LEMMA NewIdsAreNew ==
    ASSUME NEW new, NEW name \in NewIds(new)
    PROVE  /\ name \in [new -> Ids \ born]
           /\ Range(name) \subseteq Ids \ born
           /\ \A j, k \in new : name[j] = name[k] => j = k
           /\ \A u \in Range(name) : KeyNamed(name, u) \in new /\ name[KeyNamed(name, u)] = u
<1>1. name \in Injection(new, Ids \ born)
  BY DEF NewIds
<1>2. /\ name \in [new -> Ids \ born]
      /\ \A j, k \in new : name[j] = name[k] => j = k
  BY <1>1 DEF Injection, IsInjective
<1>3. ASSUME NEW u \in Range(name)
      PROVE  u \in Ids \ born /\ KeyNamed(name, u) \in new /\ name[KeyNamed(name, u)] = u
  <2>1. \E k \in DOMAIN name : name[k] = u
    BY DEF Range
  <2>2. KeyNamed(name, u) \in DOMAIN name /\ name[KeyNamed(name, u)] = u
    BY <2>1 DEF KeyNamed
  <2>3. QED
    BY <1>2, <2>2
<1>4. QED
  BY <1>2, <1>3

(* The second pass adds a row for each new key, and keeps key and state of   *)
(* the others; a row that is not listed is not touched.                      *)
LEMMA UpsertedRows ==
    ASSUME NEW t, Table(t), DOMAIN t \subseteq born, NEW listing \in Listings,
           NEW name \in NewIds(Unseen(t, listing))
    PROVE  LET new == Upserted(t, listing, name)
           IN  /\ Table(new)
               /\ DOMAIN new = DOMAIN t \cup Range(name)
               /\ \A u \in DOMAIN t : /\ new[u].key = t[u].key
                                      /\ new[u].state = t[u].state
                                      /\ t[u].key \notin DOMAIN listing => new[u] = t[u]
               /\ \A u \in Range(name) :
                     new[u] = NewRow(KeyNamed(name, u), listing)
<1> DEFINE new == Upserted(t, listing, name)
<1>1. DOMAIN new = DOMAIN t \cup Range(name)
  BY DEF Upserted
<1>2. ASSUME NEW u \in Range(name)
      PROVE  new[u] = NewRow(KeyNamed(name, u), listing) /\ new[u] \in Row
  <2>1. u \notin DOMAIN t
    BY NewIdsAreNew
  <2>2. new[u] = NewRow(KeyNamed(name, u), listing)
    BY <2>1 DEF Upserted
  <2>3. KeyNamed(name, u) \in Unseen(t, listing)
    BY NewIdsAreNew
  <2>4. KeyNamed(name, u) \in DOMAIN listing
    BY <2>3 DEF Unseen
  <2>5. QED
    BY <2>2, <2>4, ListingType DEF NewRow, Row, RowState
<1>3. ASSUME NEW u \in DOMAIN t
      PROVE  /\ new[u] \in Row
             /\ new[u].key = t[u].key
             /\ new[u].state = t[u].state
             /\ t[u].key \notin DOMAIN listing => new[u] = t[u]
  <2>1. t[u] \in Row
    BY DEF Table
  <2>2. CASE t[u].key \in DOMAIN listing
    <3>1. new[u] = [t[u] EXCEPT !.sign = listing[t[u].key]]
      BY <2>2 DEF Upserted
    <3>2. listing[t[u].key] \in Signs
      BY <2>2, ListingType
    <3>3. QED
      BY <2>1, <2>2, <3>1, <3>2 DEF Row
  <2>3. CASE t[u].key \notin DOMAIN listing
    <3>1. new[u] = t[u]
      BY <2>3 DEF Upserted
    <3>2. QED
      BY <2>1, <3>1
  <2>4. QED
    BY <2>2, <2>3
<1>4. Range(name) \subseteq Ids
  BY NewIdsAreNew
<1>5. new = [u \in DOMAIN t \cup Range(name) |-> new[u]]
  BY DEF Upserted
<1> HIDE DEF new
<1>6. new \in [DOMAIN t \cup Range(name) -> Row]
  BY <1>2, <1>3, <1>5
<1>7. Table(new)
  BY <1>1, <1>4, <1>6 DEF Table
<1>8. QED
  BY <1>1, <1>2, <1>3, <1>7 DEF new

(* The new keys are those no row had. *)
LEMMA UpsertedUnambiguous ==
    ASSUME NEW t, Table(t), DOMAIN t \subseteq born, NEW listing \in Listings,
           NEW name \in NewIds(Unseen(t, listing)), Unambiguous(t)
    PROVE  Unambiguous(Upserted(t, listing, name))
<1> DEFINE new == Upserted(t, listing, name)
<1>0. /\ DOMAIN new = DOMAIN t \cup Range(name)
      /\ \A u \in DOMAIN t : new[u].key = t[u].key
      /\ \A u \in Range(name) : new[u] = NewRow(KeyNamed(name, u), listing)
  BY UpsertedRows
<1>1. SUFFICES ASSUME NEW u \in DOMAIN t \cup Range(name), NEW v \in DOMAIN t \cup Range(name),
                      new[u].key = new[v].key
               PROVE  u = v
  BY <1>0 DEF Unambiguous
<1>2. ASSUME NEW w \in Range(name)
      PROVE  /\ new[w].key = KeyNamed(name, w)
             /\ KeyNamed(name, w) \in Unseen(t, listing)
             /\ name[KeyNamed(name, w)] = w
  <2>1. new[w] = NewRow(KeyNamed(name, w), listing)
    BY <1>0
  <2>2. QED
    BY <2>1, NewIdsAreNew DEF NewRow
<1>3. ASSUME NEW w \in DOMAIN t PROVE new[w].key = t[w].key
  BY <1>0
<1> HIDE DEF new
<1>4. CASE u \in Range(name) /\ v \in Range(name)
  BY <1>1, <1>2, <1>4
<1>5. CASE u \in DOMAIN t /\ v \in DOMAIN t
  BY <1>1, <1>3, <1>5 DEF Unambiguous
<1>6. CASE u \in Range(name) /\ v \in DOMAIN t
  BY <1>1, <1>2, <1>3, <1>6 DEF Unseen
<1>7. CASE u \in DOMAIN t /\ v \in Range(name)
  BY <1>1, <1>2, <1>3, <1>7 DEF Unseen
<1>8. QED
  BY <1>4, <1>5, <1>6, <1>7

(* What a table says of a listing: each key has a row, and a listed row has *)
(* the sign the listing gives it.                                           *)
Mirrors(t, listing) ==
    /\ \A k \in DOMAIN listing : \E u \in DOMAIN t : t[u].key = k
    /\ \A u \in DOMAIN t :
          t[u].key \in DOMAIN listing => t[u].sign = listing[t[u].key]

(* After the second pass it says so of the listing at hand. *)
LEMMA UpsertedMirrors ==
    ASSUME NEW t, Table(t), DOMAIN t \subseteq born, NEW listing \in Listings,
           NEW name \in NewIds(Unseen(t, listing))
    PROVE  Mirrors(Upserted(t, listing, name), listing)
<1> DEFINE new == Upserted(t, listing, name)
<1>1. /\ DOMAIN new = DOMAIN t \cup Range(name)
      /\ \A u \in DOMAIN t : new[u].key = t[u].key
      /\ \A u \in Range(name) : new[u] = NewRow(KeyNamed(name, u), listing)
  <2>1. /\ DOMAIN new = DOMAIN t \cup Range(name)
        /\ \A u \in DOMAIN t : /\ new[u].key = t[u].key
                               /\ new[u].state = t[u].state
                               /\ t[u].key \notin DOMAIN listing => new[u] = t[u]
        /\ \A u \in Range(name) :
              new[u] = NewRow(KeyNamed(name, u), listing)
    BY UpsertedRows
  <2> HIDE DEF new
  <2>2. QED
    BY <2>1
<1>2. ASSUME NEW u \in DOMAIN t, t[u].key \in DOMAIN listing
      PROVE  new[u].sign = listing[t[u].key]
  <2>1. new[u] = [t[u] EXCEPT !.sign = listing[t[u].key]]
    BY <1>2 DEF Upserted
  <2>2. t[u] \in Row
    BY DEF Table
  <2>3. QED
    BY <2>1, <2>2 DEF Row
<1>3. ASSUME NEW u \in Range(name)
      PROVE  new[u].key = KeyNamed(name, u) /\ new[u].sign = listing[new[u].key]
  BY <1>1 DEF NewRow
<1>4. ASSUME NEW k \in Unseen(t, listing)
      PROVE  name[k] \in Range(name) /\ KeyNamed(name, name[k]) = k
  <2>1. name \in [Unseen(t, listing) -> Ids \ born]
    BY NewIdsAreNew
  <2>2. name[k] \in Range(name)
    BY <2>1 DEF Range
  <2>3. QED
    BY <2>2, NewIdsAreNew
<1> HIDE DEF new
<1>5. ASSUME NEW k \in DOMAIN listing PROVE \E u \in DOMAIN new : new[u].key = k
  <2>1. CASE k \in Unseen(t, listing)
    BY <1>1, <1>3, <1>4, <2>1
  <2>2. CASE k \notin Unseen(t, listing)
    <3>1. PICK u \in DOMAIN t : t[u].key = k
      BY <2>2 DEF Unseen
    <3>2. QED
      BY <1>1, <3>1
  <2>3. QED
    BY <2>1, <2>2
<1>6. ASSUME NEW u \in DOMAIN new, new[u].key \in DOMAIN listing
      PROVE  new[u].sign = listing[new[u].key]
  BY <1>1, <1>2, <1>3, <1>6
<1>7. Mirrors(new, listing)
  BY <1>5, <1>6 DEF Mirrors
<1>8. QED
  BY <1>7 DEF new
-----------------------------------------------------------------------------
(* A merged row is stale; its twin is listed, has its sign and stays. *)
LEMMA MergedRows ==
    ASSUME NEW t, NEW listing, NEW u \in Merged(t, listing)
    PROVE  /\ u \in DOMAIN t
           /\ t[u].key \notin DOMAIN listing
           /\ Twin(t, listing, u) \in Ids \cap DOMAIN t
           /\ t[Twin(t, listing, u)].sign = t[u].sign
           /\ Twin(t, listing, u) \notin Merged(t, listing) \cup Dropped(t, listing)
<1>1. u \in Stale(t, listing) /\ \E v \in Ids : Twins(t, listing, u) = {v}
  BY DEF Merged
<1>2. Twin(t, listing, u) \in Ids /\ Twins(t, listing, u) = {Twin(t, listing, u)}
  BY <1>1 DEF Twin
<1>3. Twin(t, listing, u) \in Listed(t, listing) /\ t[Twin(t, listing, u)].sign = t[u].sign
  BY <1>2 DEF Twins
<1>4. QED
  BY <1>1, <1>2, <1>3 DEF Stale, Listed, Merged, Dropped

(* A row that is not dropped is, after the third pass, a row that stays. *)
LEMMA FollowedRows ==
    ASSUME NEW t, NEW listing, NEW u \in DOMAIN t \ Dropped(t, listing)
    PROVE  Follow(t, listing, u) \in DOMAIN t \ (Merged(t, listing) \cup Dropped(t, listing))
BY MergedRows DEF Follow

(* The transaction merges a table that has every former row, with the state  *)
(* it had and, unless it is listed, the sign.                                *)
SyncedAs(r, listing, t, given) ==
    /\ Table(t)
    /\ Units \subseteq DOMAIN t
    /\ DOMAIN t \subseteq born'
    /\ born \subseteq born'
    /\ born' \subseteq Ids
    /\ KeysAreUnique => Unambiguous(t)
    /\ \A u \in Units : /\ t[u].state = rows[u].state
                        /\ t[u].key \notin DOMAIN listing => t[u].sign = rows[u].sign
    /\ given \in Gifts(t, listing)
    /\ Reconcile(r, t, listing, given)
    /\ last' = IF listing = <<>> THEN last ELSE listing
    /\ Mirrors(t, listing)
    /\ \A u \in DOMAIN t \ Units :
          u \notin born /\ t[u].key \in DOMAIN listing /\ t[u].state = "none"
    /\ listing = <<>> =>
          /\ DOMAIN t = Units
          /\ \A u \in Units : t[u].key = rows[u].key /\ t[u].sign = rows[u].sign

LEMMA SyncShape ==
    ASSUME TypeOK, NEW r \in Refreshes, Sync(r)
    PROVE  \E listing \in Listings : \E t, given : SyncedAs(r, listing, t, given)
<1>1. PICK listing \in Listings :
        \E name \in NewIds(Unseen(Rekeyed(rows, listing), listing)) :
          LET t == Upserted(Rekeyed(rows, listing), listing, name)
          IN  /\ born' = born \cup Range(name)
              /\ \E given \in Gifts(t, listing) : Reconcile(r, t, listing, given)
              /\ last' = IF listing = <<>> THEN last ELSE listing
  BY DEF Sync
<1> DEFINE moved == Rekeyed(rows, listing)
<1>2. PICK name \in NewIds(Unseen(moved, listing)) :
        LET t == Upserted(moved, listing, name)
        IN  /\ born' = born \cup Range(name)
            /\ \E given \in Gifts(t, listing) : Reconcile(r, t, listing, given)
            /\ last' = IF listing = <<>> THEN last ELSE listing
  BY <1>1
<1> DEFINE t == Upserted(moved, listing, name)
<1>3. PICK given \in Gifts(t, listing) : Reconcile(r, t, listing, given)
  BY <1>2
<1>4. Table(rows) /\ born \subseteq Ids
  BY DEF Table, TypeOK
<1>5. /\ Table(moved)
      /\ DOMAIN moved = Units
      /\ \A u \in Units : /\ moved[u].sign = rows[u].sign
                          /\ moved[u].state = rows[u].state
  BY <1>4, RekeyedRows DEF Units
<1>6. DOMAIN moved \subseteq born
  BY <1>5 DEF TypeOK, Units
<1>7. /\ Table(t)
      /\ DOMAIN t = DOMAIN moved \cup Range(name)
      /\ \A u \in DOMAIN moved : /\ t[u].key = moved[u].key
                                 /\ t[u].state = moved[u].state
                                 /\ moved[u].key \notin DOMAIN listing => t[u] = moved[u]
      /\ \A u \in Range(name) : t[u] = NewRow(KeyNamed(name, u), listing)
  BY <1>5, <1>6, UpsertedRows
<1>8. KeysAreUnique => Unambiguous(t)
  <2>1. SUFFICES ASSUME KeysAreUnique PROVE Unambiguous(t)
    OBVIOUS
  <2>2. Unambiguous(rows)
    BY <2>1 DEF KeysAreUnique, Unambiguous, Units
  <2>3. Unambiguous(moved)
    BY <1>4, <2>2, RekeyedUnambiguous
  <2>4. QED
    BY <1>5, <1>6, <2>3, UpsertedUnambiguous
<1>9. born' = born \cup Range(name) /\ Range(name) \subseteq Ids
  BY <1>2, NewIdsAreNew
<1>10. last' = IF listing = <<>> THEN last ELSE listing
  BY <1>2
<1>11. Mirrors(t, listing)
  BY <1>5, <1>6, UpsertedMirrors
<1>12. ASSUME listing = <<>>
       PROVE  /\ DOMAIN t = Units
              /\ \A u \in Units : t[u].key = rows[u].key /\ t[u].sign = rows[u].sign
  <2>1. DOMAIN listing = {} /\ \A x : Unseen(x, listing) = {}
    BY <1>12 DEF Unseen
  <2>2. Range(name) = {}
    BY <2>1, NewIdsAreNew
  <2>3. ASSUME NEW u \in Units PROVE moved[u].key = rows[u].key
    BY <1>4, <2>1, RekeyedRows DEF Renamed, Units
  <2>4. QED
    BY <1>5, <1>7, <2>1, <2>2, <2>3
<1>13. ASSUME NEW u \in DOMAIN t \ Units
       PROVE  u \notin born /\ t[u].key \in DOMAIN listing /\ t[u].state = "none"
  <2>1. u \in Range(name) /\ u \notin born
    BY <1>5, <1>7, <1>13, NewIdsAreNew
  <2>2. t[u] = NewRow(KeyNamed(name, u), listing)
    BY <1>7, <2>1
  <2>3. KeyNamed(name, u) \in DOMAIN listing
    BY <2>1, NewIdsAreNew DEF Unseen
  <2>4. QED
    BY <2>1, <2>2, <2>3 DEF NewRow
<1> HIDE DEF moved, t
<1>14. SyncedAs(r, listing, t, given)
  BY <1>3, <1>4, <1>5, <1>6, <1>7, <1>8, <1>9, <1>10, <1>11, <1>12, <1>13 DEF SyncedAs
<1>15. QED
  BY <1>14
-----------------------------------------------------------------------------
(* What the third pass leaves of the table. *)
ReconciledAs(listing, t, given) ==
    /\ DOMAIN rows' = DOMAIN t \ (Merged(t, listing) \cup Dropped(t, listing))
    /\ rows' \in [DOMAIN rows' -> Row]
    /\ \A u \in DOMAIN rows' :
          /\ rows'[u].key = t[u].key
          /\ rows'[u].sign = t[u].sign
          /\ rows'[u].state = "downloaded" \/ rows'[u].state = t[u].state
          /\ (\E g \in given : u = Twin(t, listing, g)) => rows'[u].state = "downloaded"

LEMMA ReconciledRows ==
    ASSUME TypeOK, NEW r \in Refreshes, NEW listing, NEW t, NEW given,
           SyncedAs(r, listing, t, given)
    PROVE  ReconciledAs(listing, t, given)
<1> DEFINE stay == DOMAIN t \ (Merged(t, listing) \cup Dropped(t, listing))
           blessed == {Twin(t, listing, g) : g \in given}
<1>1. rows' = [u \in stay |-> IF u \in blessed THEN [t[u] EXCEPT !.state = "downloaded"]
                                               ELSE t[u]]
  BY DEF SyncedAs, Reconcile
<1>2. ASSUME NEW u \in stay
      PROVE  /\ rows'[u] \in Row
             /\ rows'[u].key = t[u].key
             /\ rows'[u].sign = t[u].sign
             /\ rows'[u].state = "downloaded" \/ rows'[u].state = t[u].state
             /\ u \in blessed => rows'[u].state = "downloaded"
  <2>1. t[u] \in Row
    BY DEF SyncedAs, Table
  <2>2. rows'[u] = IF u \in blessed THEN [t[u] EXCEPT !.state = "downloaded"] ELSE t[u]
    BY <1>1
  <2> HIDE DEF blessed
  <2>3. QED
    BY <2>1, <2>2 DEF Row, RowState
<1>3. DOMAIN rows' = stay
  BY <1>1
<1>4. rows' = [u \in stay |-> rows'[u]]
  BY <1>1
<1>5. rows' \in [stay -> Row]
  BY <1>2, <1>4
<1>6. QED
  BY <1>2, <1>3, <1>5 DEF ReconciledAs

(* What a sync leaves of its publication is well-formed. *)
LEMMA SyncType ==
    ASSUME TypeOK, NEW r \in Refreshes, Sync(r)
    PROVE  TypeOK'
<1>1. PICK listing \in Listings : \E t, given : SyncedAs(r, listing, t, given)
  BY SyncShape
<1>2. PICK t, given : SyncedAs(r, listing, t, given)
  BY <1>1
<1> DEFINE gone == Merged(t, listing) \cup Dropped(t, listing)
<1>3. /\ DOMAIN rows' = DOMAIN t \ gone
      /\ rows' \in [DOMAIN rows' -> Row]
  BY <1>2, ReconciledRows DEF ReconciledAs
<1>4. Units \subseteq DOMAIN t /\ DOMAIN t \subseteq born' /\ born \subseteq born' /\ born' \subseteq Ids
  BY <1>2 DEF SyncedAs
<1>5. Reconcile(r, t, listing, given) /\ given \subseteq Merged(t, listing)
  BY <1>2 DEF SyncedAs, Gifts
<1>6. \A u \in Merged(t, listing) : Twin(t, listing, u) \in DOMAIN t /\ u \in DOMAIN t
  BY MergedRows
<1>7. ops' \in [Refreshes -> SUBSET FileOp]
  <2>1. ops' = [ops EXCEPT ![r] = FileOps(t, listing, given)]
    BY <1>5 DEF Reconcile
  <2>2. \A u \in gone : u \in Ids
    BY <1>4, <1>6 DEF Dropped, Stale
  <2>3. FileOps(t, listing, given) \subseteq FileOp
    <3>1. \A g \in given : g \in Ids /\ Twin(t, listing, g) \in Ids
      BY <1>4, <1>5, <1>6
    <3>2. \A u \in (Merged(t, listing) \ given) \cup Dropped(t, listing) : u \in Ids
      BY <2>2
    <3>3. QED
      BY <3>1, <3>2 DEF FileOps, FileOp
  <2>4. QED
    BY <2>1, <2>3 DEF TypeOK
<1>8. fresh' \in [Refreshes -> SUBSET born']
  <2>1. fresh' = [fresh EXCEPT ![r] =
                    (DOMAIN t \ Units) \ {Twin(t, listing, u) : u \in Merged(t, listing)}]
    BY <1>5 DEF Reconcile
  <2>2. \A s \in Refreshes : fresh[s] \subseteq born'
    BY <1>4 DEF TypeOK
  <2>3. fresh = [s \in Refreshes |-> fresh[s]]
    BY DEF TypeOK
  <2>4. QED
    BY <1>4, <2>1, <2>2, <2>3
<1>9. read' \subseteq DOMAIN rows'
  <2>1. read' = {Follow(t, listing, u) : u \in read \ Dropped(t, listing)}
    BY <1>5 DEF Reconcile, Marks
  <2>2. read \subseteq DOMAIN t
    BY <1>4 DEF TypeOK, Units
  <2>3. QED
    BY <1>3, <2>1, <2>2, FollowedRows
<1>10. /\ DOMAIN heir' = DOMAIN heir
       /\ heir' \in [DOMAIN heir' -> DOMAIN rows' \cup {Nowhere}]
  <2>1. heir' = [u \in DOMAIN heir |-> IF heir[u] \in Dropped(t, listing)
                                       THEN Nowhere ELSE Follow(t, listing, heir[u])]
    BY <1>5 DEF Reconcile
  <2>2. ASSUME NEW u \in DOMAIN heir, heir[u] \notin Dropped(t, listing)
        PROVE  Follow(t, listing, heir[u]) \in DOMAIN rows' \cup {Nowhere}
    <3>1. CASE heir[u] \in DOMAIN t
      BY <1>3, <2>2, <3>1, FollowedRows
    <3>2. CASE heir[u] \notin DOMAIN t
      <4>1. heir[u] = Nowhere
        BY <1>4, <2>2, <3>2 DEF TypeOK, Units
      <4>2. heir[u] \notin Merged(t, listing)
        BY <1>6, <3>2
      <4>3. QED
        BY <4>1, <4>2 DEF Follow
    <3>3. QED
      BY <3>1, <3>2
  <2>3. QED
    BY <2>1, <2>2
<1>11. journal' \in [DOMAIN heir' -> born']
  <2>1. journal' = [u \in DOMAIN journal |-> Follow(t, listing, journal[u])]
    BY <1>5 DEF Reconcile
  <2>2. DOMAIN journal = DOMAIN heir /\ \A u \in DOMAIN heir : journal[u] \in born
    BY DEF TypeOK
  <2>3. \A u \in DOMAIN heir : Follow(t, listing, journal[u]) \in born'
    BY <1>4, <1>6, <2>2 DEF Follow
  <2>4. QED
    BY <1>10, <2>1, <2>2, <2>3
<1>12. DOMAIN last' \subseteq Keys /\ last' \in [DOMAIN last' -> Signs]
  <2>1. last' = IF listing = <<>> THEN last ELSE listing
    BY <1>2 DEF SyncedAs
  <2>2. DOMAIN listing \subseteq Keys /\ listing \in [DOMAIN listing -> Signs]
    BY DEF Listings
  <2>3. QED
    BY <2>1, <2>2 DEF TypeOK
<1>13. cut' \subseteq Ids
  <2>1. cut' = cut \cup {Twin(t, listing, g) : g \in {h \in given : InFlight(h)}}
    BY <1>5 DEF Reconcile
  <2>2. \A g \in given : Twin(t, listing, g) \in Ids
    BY <1>4, <1>5, <1>6
  <2>3. QED
    BY <1>4, <2>1, <2>2 DEF TypeOK
<1>14. DOMAIN heir \subseteq born'
  BY <1>4 DEF TypeOK
<1>15. pc' = [pc EXCEPT ![r] = "confirm"] /\ syncs < MaxSyncs /\ syncs' = syncs + 1
       /\ UNCHANGED <<dir, wpc, wunit, outcome, asks, faults>>
  BY DEF Sync, worker
<1>16. syncs' \in 0 .. MaxSyncs
  BY <1>15, BoundsAssumption DEF TypeOK
<1>17. /\ dir' \in SUBSET Ids
       /\ wunit' \in born' \cup {Nowhere}
       /\ pc' \in [Refreshes -> {"idle", "confirm", "files"}]
  BY <1>4, <1>15 DEF TypeOK
<1>18. DOMAIN rows' \subseteq born'
  BY <1>3, <1>4
<1>19. QED
  BY <1>3, <1>4, <1>7, <1>8, <1>9, <1>10, <1>11, <1>12, <1>13, <1>14, <1>15, <1>16, <1>17, <1>18
  DEF TypeOK

(* A new state for some rows changes nothing else of any row. *)
LEMMA SetStateRows ==
    ASSUME TypeOK, NEW S, NEW state \in RowState, SetState(S, state)
    PROVE  /\ DOMAIN rows' = Units
           /\ rows' \in [Units -> Row]
           /\ \A u \in Units : /\ rows'[u].key = rows[u].key
                               /\ rows'[u].sign = rows[u].sign
                               /\ u \in S => rows'[u].state = state
                               /\ u \notin S => rows'[u].state = rows[u].state
<1>1. rows' = [u \in Units |-> IF u \in S THEN [rows[u] EXCEPT !.state = state] ELSE rows[u]]
  BY DEF SetState
<1>2. ASSUME NEW u \in Units
      PROVE  /\ rows'[u] \in Row
             /\ rows'[u].key = rows[u].key
             /\ rows'[u].sign = rows[u].sign
             /\ u \in S => rows'[u].state = state
             /\ u \notin S => rows'[u].state = rows[u].state
  <2>1. rows[u] \in Row
    BY DEF TypeOK, Units
  <2>2. rows'[u] = IF u \in S THEN [rows[u] EXCEPT !.state = state] ELSE rows[u]
    BY <1>1
  <2>3. QED
    BY <2>1, <2>2 DEF Row
<1>3. DOMAIN rows' = Units /\ rows' = [u \in Units |-> rows'[u]]
  BY <1>1
<1>4. QED
  BY <1>2, <1>3

(* The end of a refresh. *)
LEMMA ReturnType ==
    ASSUME TypeOK, NEW r \in Refreshes, Return(r)
    PROVE  /\ pc' \in [Refreshes -> {"idle", "confirm", "files"}]
           /\ ops' \in [Refreshes -> SUBSET FileOp]
           /\ fresh' \in [Refreshes -> SUBSET born]
           /\ cut' \in SUBSET Ids
<1>1. Unmoved(r) \subseteq Ids
  BY DEF TypeOK, Unmoved, FileOp
<1>2. QED
  BY <1>1 DEF TypeOK, Return

LEMMA FaultType ==
    ASSUME TypeOK, Fault
    PROVE  faults' \in 0 .. MaxFaults
BY BoundsAssumption DEF TypeOK, Fault

(* The steps of a refresh after its transaction keep the type invariant. *)
LEMMA RefreshType ==
    ASSUME TypeOK, NEW r \in Refreshes, Confirm(r) \/ FileStep(r) \/ Queue(r) \/ Drop(r)
    PROVE  TypeOK'
<1>1. CASE Confirm(r)
  <2>1. /\ pc' \in [Refreshes -> {"idle", "confirm", "files"}]
        /\ ops' \in [Refreshes -> SUBSET FileOp]
        /\ fresh' \in [Refreshes -> SUBSET born]
        /\ cut' \in SUBSET Ids
    <3>1. CASE Return(r)
      BY <3>1, ReturnType
    <3>2. CASE pc' = [pc EXCEPT ![r] = "files"] /\ UNCHANGED <<ops, fresh, cut>>
      BY <3>2 DEF TypeOK
    <3>3. QED
      BY <1>1, <3>1, <3>2 DEF Confirm
  <2>2. faults' \in 0 .. MaxFaults
    <3>1. faults' = faults \/ Fault
      BY <1>1 DEF Confirm
    <3>2. QED
      BY <3>1, FaultType DEF TypeOK
  <2>3. UNCHANGED <<rows, born, dir, wpc, wunit, outcome, journal, read, heir, last, syncs, asks>>
    BY <1>1 DEF Confirm, worker, reading
  <2>4. QED
    BY <2>1, <2>2, <2>3 DEF TypeOK
<1>2. CASE FileStep(r)
  <2>1. PICK op \in ops[r] :
           \/ /\ op.kind = "remove"
              /\ dir' = dir \ {op.from}
              /\ ops' = [ops EXCEPT ![r] = @ \ {op}]
           \/ /\ op.kind = "rename"
              /\ dir' = dir \ {op.to}
              /\ ops' = [ops EXCEPT ![r] = (@ \ {op}) \cup {[op EXCEPT !.kind = "move"]}]
           \/ /\ op.kind = "move"
              /\ dir' = IF op.from \in dir /\ op.to \notin dir
                        THEN (dir \ {op.from}) \cup {op.to}
                        ELSE dir
              /\ ops' = [ops EXCEPT ![r] = @ \ {op}]
    BY <1>2 DEF FileStep
  <2>2. op \in FileOp /\ ops[r] \subseteq FileOp /\ ops \in [Refreshes -> SUBSET FileOp]
    BY DEF TypeOK
  <2>3. [op EXCEPT !.kind = "move"] \in FileOp
    BY <2>2 DEF FileOp
  <2>4. ops' \in [Refreshes -> SUBSET FileOp]
    BY <2>1, <2>2, <2>3
  <2>5. op.to \in Ids
    BY <2>2 DEF FileOp
  <2>6. dir' \in SUBSET Ids
    BY <2>1, <2>5 DEF TypeOK
  <2>7. UNCHANGED <<rows, born, wpc, wunit, outcome, pc, fresh, journal, read, heir, last,
                    cut, syncs, asks, faults>>
    BY <1>2 DEF FileStep, worker, reading
  <2>8. QED
    BY <2>4, <2>6, <2>7 DEF TypeOK
<1>3. CASE Queue(r)
  <2>1. DOMAIN rows' = DOMAIN rows /\ rows' \in [DOMAIN rows -> Row]
    <3>1. CASE \E S : SetState(S, "pending")
      BY <3>1, SetStateRows DEF RowState, Units
    <3>2. CASE UNCHANGED rows
      BY <3>2 DEF TypeOK
    <3>3. QED
      BY <1>3, <3>1, <3>2 DEF Queue
  <2>2. faults' \in 0 .. MaxFaults
    <3>1. faults' = faults \/ Fault
      BY <1>3 DEF Queue
    <3>2. QED
      BY <3>1, FaultType DEF TypeOK
  <2>3. Return(r) /\ UNCHANGED <<born, dir, wpc, wunit, outcome, journal, read, heir, last, syncs, asks>>
    BY <1>3 DEF Queue, worker, reading
  <2>4. QED
    BY <2>1, <2>2, <2>3, ReturnType DEF TypeOK
<1>4. CASE Drop(r)
  <2>1. Return(r) /\ Fault /\ UNCHANGED <<rows, born, dir, wpc, wunit, outcome, journal, read, heir,
                                          last, syncs, asks>>
    BY <1>4 DEF Drop, worker, reading
  <2>2. QED
    BY <2>1, FaultType, ReturnType DEF TypeOK
<1>5. QED
  BY <1>1, <1>2, <1>3, <1>4

(* So do people's. *)
LEMMA PeopleType ==
    ASSUME TypeOK, NEW u \in Ids, Ask(u) \/ Read(u)
    PROVE  TypeOK'
<1>1. CASE Ask(u)
  <2>1. DOMAIN rows' = DOMAIN rows /\ rows' \in [DOMAIN rows -> Row]
    BY <1>1, SetStateRows DEF Ask, RowState, Units
  <2>2. asks' \in 0 .. MaxAsks
    BY <1>1, BoundsAssumption DEF Ask, TypeOK
  <2>3. UNCHANGED <<born, dir, wpc, wunit, outcome, pc, ops, fresh, journal, read, heir, last,
                    cut, syncs, faults>>
    BY <1>1 DEF Ask, worker, refresh, reading
  <2>4. QED
    BY <2>1, <2>2, <2>3 DEF TypeOK
<1>2. CASE Read(u)
  <2>1. u \in Units /\ u \in born
    BY <1>2 DEF Read, TypeOK, Units
  <2>2. /\ journal' = [v \in DOMAIN journal \cup {u} |-> IF v = u THEN u ELSE journal[v]]
        /\ heir' = [v \in DOMAIN heir \cup {u} |-> IF v = u THEN u ELSE heir[v]]
        /\ read' = read \cup {u}
        /\ UNCHANGED <<rows, born, dir, wpc, wunit, outcome, pc, ops, fresh, last, cut, syncs,
                       asks, faults>>
    BY <1>2 DEF Read, worker, refresh
  <2>3. DOMAIN heir' = DOMAIN heir \cup {u} /\ DOMAIN journal = DOMAIN heir
    BY <2>2 DEF TypeOK
  <2>4. heir' \in [DOMAIN heir' -> DOMAIN rows \cup {Nowhere}]
    BY <2>1, <2>2, <2>3 DEF TypeOK, Units
  <2>5. journal' \in [DOMAIN heir' -> born]
    BY <2>1, <2>2, <2>3 DEF TypeOK
  <2>6. read' \in SUBSET DOMAIN rows /\ DOMAIN heir' \subseteq born
    BY <2>1, <2>2, <2>3 DEF TypeOK, Units
  <2>7. QED
    BY <2>2, <2>4, <2>5, <2>6 DEF TypeOK
<1>3. QED
  BY <1>1, <1>2

(* So do the worker's. *)
LEMMA WorkerType ==
    ASSUME TypeOK, WorkerStep
    PROVE  TypeOK'
<1>1. \A u \in born : u # Nowhere
  BY DEF TypeOK, Ids, Nowhere
<1>2. UNCHANGED <<born, pc, ops, fresh, journal, read, heir, last, cut, syncs, asks, faults>>
  BY DEF WorkerStep, Poll, Claim, Fetch, Stage, Promote, Record, Discard, refresh, reading
<1>3. SUFFICES /\ DOMAIN rows' = DOMAIN rows /\ rows' \in [DOMAIN rows -> Row]
               /\ dir' \in SUBSET Ids
               /\ wpc' \in {"poll", "claim", "fetch", "stage", "promote", "record", "discard"}
               /\ wunit' \in born \cup {Nowhere}
               /\ wunit' = Nowhere <=> wpc' = "poll"
               /\ outcome' \in {"downloaded", "failed", "unavailable"}
  BY <1>2 DEF TypeOK
<1>4. CASE Poll
  BY <1>1, <1>4 DEF Poll, TypeOK, Units
<1>5. CASE Claim
  <2>1. DOMAIN rows' = DOMAIN rows /\ rows' \in [DOMAIN rows -> Row]
    BY <1>5, SetStateRows DEF Claim, RowState, Units
  <2>2. QED
    BY <1>5, <2>1 DEF Claim, TypeOK
<1>6. CASE Fetch
  BY <1>6 DEF Fetch, TypeOK
<1>7. CASE Stage
  BY <1>7 DEF Stage, TypeOK
<1>8. CASE Promote
  <2>1. wunit \in Ids
    BY <1>8 DEF Promote, TypeOK
  <2>2. dir' \in SUBSET Ids
    BY <1>8, <2>1 DEF Promote, TypeOK
  <2>3. QED
    BY <1>8, <2>2 DEF Promote, TypeOK
<1>9. CASE Record
  <2>1. DOMAIN rows' = DOMAIN rows /\ rows' \in [DOMAIN rows -> Row]
    BY <1>9, SetStateRows DEF Record, RowState, Units, TypeOK
  <2>2. QED
    BY <1>9, <2>1 DEF Record, Rest, TypeOK
<1>10. CASE Discard
  BY <1>10 DEF Discard, Rest, TypeOK
<1>11. QED
  BY <1>4, <1>5, <1>6, <1>7, <1>8, <1>9, <1>10 DEF WorkerStep

(* So does a restart. *)
LEMMA RestartType ==
    ASSUME TypeOK, Restart
    PROVE  TypeOK'
<1>1. DOMAIN rows' = DOMAIN rows /\ rows' \in [DOMAIN rows -> Row]
  BY SetStateRows DEF Restart, RowState, Units
<1>2. cut' \in SUBSET Ids
  <2>1. \A r \in Refreshes : Unmoved(r) \subseteq Ids
    BY DEF TypeOK, Unmoved, FileOp
  <2>2. wpc = "promote" => wunit \in Ids
    BY DEF TypeOK
  <2>3. cut' = cut \cup (UNION {Unmoved(r) : r \in Refreshes})
                   \cup (IF wpc = "promote" THEN {wunit} ELSE {})
    BY DEF Restart
  <2>4. QED
    BY <2>1, <2>2, <2>3 DEF TypeOK
<1>3. /\ pc' \in [Refreshes -> {"idle", "confirm", "files"}]
      /\ ops' \in [Refreshes -> SUBSET FileOp]
      /\ fresh' \in [Refreshes -> SUBSET born]
  BY DEF Restart
<1>4. wpc' = "poll" /\ wunit' = Nowhere /\ outcome' = "failed"
  BY DEF Restart, Rest
<1>5. faults' \in 0 .. MaxFaults
  BY FaultType DEF Restart
<1>6. UNCHANGED <<born, dir, journal, read, heir, last, syncs, asks>>
  BY DEF Restart, reading
<1>7. QED
  BY <1>1, <1>2, <1>3, <1>4, <1>5, <1>6 DEF TypeOK

LEMMA TypeStep == TypeOK /\ [Next]_vars => TypeOK'
<1> SUFFICES ASSUME TypeOK, [Next]_vars PROVE TypeOK'
  OBVIOUS
<1>1. CASE UNCHANGED vars
  BY <1>1 DEF TypeOK, vars
<1>2. ASSUME NEW r \in Refreshes, RefreshStep(r) PROVE TypeOK'
  BY <1>2, SyncType, RefreshType DEF RefreshStep
<1>3. QED
  BY <1>1, <1>2, PeopleType, WorkerType, RestartType DEF Next

(* The first listing makes a table without duplicates. *)
LEMMA InitTable ==
    ASSUME Init
    PROVE  /\ born \in SUBSET Ids
           /\ DOMAIN rows = born
           /\ rows \in [born -> Row]
           /\ DOMAIN last \subseteq Keys /\ last \in [DOMAIN last -> Signs]
           /\ KeysAreUnique
<1>1. PICK listing \in Listings : \E name \in Injection(DOMAIN listing, Ids) :
          /\ born = Range(name)
          /\ rows = [u \in born |-> NewRow(KeyNamed(name, u), listing)]
          /\ last = listing
  BY DEF Init
<1>2. PICK name \in Injection(DOMAIN listing, Ids) :
          /\ born = Range(name)
          /\ rows = [u \in born |-> NewRow(KeyNamed(name, u), listing)]
          /\ last = listing
  BY <1>1
<1>3. name \in [DOMAIN listing -> Ids]
  BY <1>2 DEF Injection
<1>4. ASSUME NEW u \in born
      PROVE  KeyNamed(name, u) \in DOMAIN listing /\ name[KeyNamed(name, u)] = u /\ u \in Ids
  <2>1. \E k \in DOMAIN name : name[k] = u
    BY <1>2 DEF Range
  <2>2. KeyNamed(name, u) \in DOMAIN name /\ name[KeyNamed(name, u)] = u
    BY <2>1 DEF KeyNamed
  <2>3. QED
    BY <1>3, <2>2
<1>5. ASSUME NEW u \in born
      PROVE  rows[u] \in Row /\ rows[u].key = KeyNamed(name, u)
  <2>1. rows[u] = NewRow(KeyNamed(name, u), listing)
    BY <1>2
  <2>2. QED
    BY <1>4, <2>1, ListingType DEF NewRow, Row, RowState
<1>6. DOMAIN rows = born /\ rows = [u \in born |-> rows[u]]
  BY <1>2
<1>7. KeysAreUnique
  <2>1. SUFFICES ASSUME NEW u \in born, NEW v \in born, rows[u].key = rows[v].key
                 PROVE  u = v
    BY <1>6 DEF KeysAreUnique, Units
  <2>2. KeyNamed(name, u) = KeyNamed(name, v)
    BY <1>5, <2>1
  <2>3. QED
    BY <1>4, <2>2
<1>8. DOMAIN last \subseteq Keys /\ last \in [DOMAIN last -> Signs]
  BY <1>2 DEF Listings
<1>9. QED
  BY <1>4, <1>5, <1>6, <1>7, <1>8

LEMMA InitType == Init => TypeOK
<1> SUFFICES ASSUME Init PROVE TypeOK
  OBVIOUS
<1>1. DOMAIN journal = {} /\ DOMAIN heir = {} /\ journal \in [{} -> born]
      /\ heir \in [{} -> DOMAIN rows \cup {Nowhere}]
  BY DEF Init
<1>2. /\ pc \in [Refreshes -> {"idle", "confirm", "files"}]
      /\ ops \in [Refreshes -> SUBSET FileOp]
      /\ fresh \in [Refreshes -> SUBSET born]
  BY DEF Init
<1>3. syncs \in 0 .. MaxSyncs /\ asks \in 0 .. MaxAsks /\ faults \in 0 .. MaxFaults
  BY BoundsAssumption DEF Init
<1>4. dir = {} /\ read = {} /\ cut = {} /\ wpc = "poll" /\ wunit = Nowhere /\ outcome = "failed"
  BY DEF Init
<1>5. QED
  BY <1>1, <1>2, <1>3, <1>4, InitTable DEF TypeOK

(* The variables keep their types. *)
THEOREM TypeCorrect == Spec => []TypeOK
<1>1. QED
  BY InitType, TypeStep, PTL DEF Spec
-----------------------------------------------------------------------------
(* Only a sync adds, removes, moves or renames rows; and only the worker,    *)
(* taking or finishing the chapter, ends the state of a downloaded one.      *)
LEMMA RowsStep ==
    ASSUME TypeOK, [Next]_vars
    PROVE  \/ \E r \in Refreshes : Sync(r)
           \/ /\ DOMAIN rows' = Units
              /\ \A u \in Units :
                    /\ rows'[u].key = rows[u].key
                    /\ rows'[u].sign = rows[u].sign
                    /\ rows[u].state = "downloaded" =>
                          \/ rows'[u].state = "downloaded"
                          \/ wunit = u /\ wpc \in {"claim", "record"}
<1> DEFINE Kept ==
        /\ DOMAIN rows' = Units
        /\ \A u \in Units :
              /\ rows'[u].key = rows[u].key
              /\ rows'[u].sign = rows[u].sign
              /\ rows[u].state = "downloaded" =>
                    \/ rows'[u].state = "downloaded"
                    \/ wunit = u /\ wpc \in {"claim", "record"}
<1>1. ASSUME rows' = rows PROVE Kept
  BY <1>1 DEF Units
<1>2. ASSUME NEW S, NEW state \in RowState, SetState(S, state),
             \A u \in S \cap Units : \/ rows[u].state # "downloaded"
                                     \/ wunit = u /\ wpc \in {"claim", "record"}
      PROVE  Kept
  BY <1>2, SetStateRows
<1> HIDE DEF Kept
<1>3. ASSUME NEW r \in Refreshes, RefreshStep(r) PROVE Sync(r) \/ Kept
  <2>1. CASE Confirm(r) \/ FileStep(r) \/ Drop(r)
    BY <1>1, <2>1 DEF Confirm, FileStep, Drop
  <2>2. CASE Queue(r)
    <3>1. rows' = rows \/ SetState(IF AutoDownload
                                   THEN {u \in fresh[r] \cap Units : rows[u].state \in {"none", "failed"}}
                                   ELSE {}, "pending")
      BY <2>2 DEF Queue
    <3>2. QED
      BY <1>1, <1>2, <3>1 DEF RowState
  <2>3. QED
    BY <1>3, <2>1, <2>2 DEF RefreshStep
<1>4. ASSUME NEW u \in Ids, Ask(u) \/ Read(u) PROVE Kept
  <2>1. CASE Ask(u)
    BY <1>2, <2>1 DEF Ask, RowState
  <2>2. CASE Read(u)
    BY <1>1, <2>2 DEF Read
  <2>3. QED
    BY <1>4, <2>1, <2>2
<1>5. ASSUME WorkerStep PROVE Kept
  <2>1. CASE Claim
    BY <1>2, <2>1 DEF Claim, RowState
  <2>2. CASE Record
    <3>1. outcome \in RowState /\ SetState({wunit}, outcome) /\ wpc = "record"
      BY <2>2 DEF Record, TypeOK, RowState
    <3>2. QED
      BY <1>2, <3>1
  <2>3. CASE Poll \/ Fetch \/ Stage \/ Promote \/ Discard
    BY <1>1, <2>3 DEF Poll, Fetch, Stage, Promote, Discard
  <2>4. QED
    BY <1>5, <2>1, <2>2, <2>3 DEF WorkerStep
<1>6. ASSUME Restart PROVE Kept
  BY <1>2, <1>6 DEF Restart, RowState
<1>7. ASSUME UNCHANGED vars PROVE Kept
  BY <1>1, <1>7 DEF vars
<1>8. (\E r \in Refreshes : Sync(r)) \/ Kept
  BY <1>3, <1>4, <1>5, <1>6, <1>7 DEF Next
<1>9. QED
  BY <1>8 DEF Kept

(* Whatever sources list, in whatever order, no two rows of a publication    *)
(* get one address: the passes of sync_units never meet the UNIQUE           *)
(* constraint.                                                               *)
THEOREM AddressesAreUnique == Spec => []KeysAreUnique
<1>1. Init => KeysAreUnique
  BY InitTable
<1>2. TypeOK /\ KeysAreUnique /\ [Next]_vars => KeysAreUnique'
  <2> SUFFICES ASSUME TypeOK, KeysAreUnique, [Next]_vars
               PROVE  KeysAreUnique'
    OBVIOUS
  <2>1. ASSUME NEW r \in Refreshes, Sync(r) PROVE KeysAreUnique'
    <3>1. PICK listing \in Listings : \E t, given : SyncedAs(r, listing, t, given)
      BY <2>1, SyncShape
    <3>2. PICK t, given : SyncedAs(r, listing, t, given)
      BY <3>1
    <3>0. ReconciledAs(listing, t, given)
      BY <3>2, ReconciledRows
    <3>3. /\ DOMAIN rows' = DOMAIN t \ (Merged(t, listing) \cup Dropped(t, listing))
          /\ \A u \in DOMAIN rows' : rows'[u].key = t[u].key
      BY <3>0 DEF ReconciledAs
    <3>4. Unambiguous(t)
      BY <3>2 DEF SyncedAs
    <3>5. QED
      BY <3>3, <3>4 DEF KeysAreUnique, Unambiguous, Units
  <2>2. CASE /\ DOMAIN rows' = Units
             /\ \A u \in Units : rows'[u].key = rows[u].key
    BY <2>2 DEF KeysAreUnique, Units
  <2>3. QED
    BY <2>1, <2>2, RowsStep
<1>3. QED
  BY <1>1, <1>2, TypeCorrect, PTL DEF Spec

(* Only a sync changes what was last listed. *)
LEMMA LastStep ==
    ASSUME [Next]_vars
    PROVE  last' = last \/ \E r \in Refreshes : Sync(r)
<1>1. ASSUME NEW r \in Refreshes, RefreshStep(r) PROVE last' = last \/ Sync(r)
  BY <1>1 DEF RefreshStep, Confirm, FileStep, Queue, Drop
<1>2. ASSUME NEW u \in Ids, Ask(u) \/ Read(u) PROVE last' = last
  BY <1>2 DEF Ask, Read
<1>3. CASE WorkerStep
  BY <1>3 DEF WorkerStep, Poll, Claim, Fetch, Stage, Promote, Record, Discard
<1>4. CASE Restart \/ UNCHANGED vars
  BY <1>4 DEF Restart, vars
<1>5. QED
  BY <1>1, <1>2, <1>3, <1>4 DEF Next

(* Where a table and the former one agree on keys and signs, they match the *)
(* same listing.                                                            *)
LEMMA SameSource ==
    ASSUME MatchesSource, DOMAIN rows' = Units, last' = last,
           \A u \in Units : rows'[u].key = rows[u].key /\ rows'[u].sign = rows[u].sign
    PROVE  MatchesSource'
<1>1. Units' = Units
  BY DEF Units
<1>2. ASSUME NEW u \in Units
      PROVE  {w \in Units : rows'[w].key \in DOMAIN last /\ rows'[w].sign = rows'[u].sign}
             = {w \in Units : rows[w].key \in DOMAIN last /\ rows[w].sign = rows[u].sign}
  OBVIOUS
<1>3. QED
  BY <1>1, <1>2 DEF MatchesSource

(* The third pass leaves no row beside the one listed row it could be. *)
LEMMA SyncMatches ==
    ASSUME TypeOK, MatchesSource, NEW r \in Refreshes, Sync(r)
    PROVE  MatchesSource'
<1>1. PICK listing \in Listings : \E t, given : SyncedAs(r, listing, t, given)
  BY SyncShape
<1>2. PICK t, given : SyncedAs(r, listing, t, given)
  BY <1>1
<1>3. ReconciledAs(listing, t, given)
  BY <1>2, ReconciledRows
<1>4. /\ DOMAIN rows' = DOMAIN t \ (Merged(t, listing) \cup Dropped(t, listing))
      /\ \A u \in DOMAIN rows' : rows'[u].key = t[u].key /\ rows'[u].sign = t[u].sign
  BY <1>3 DEF ReconciledAs
<1>5. Table(t) /\ Mirrors(t, listing)
  BY <1>2 DEF SyncedAs
<1>6. CASE listing = <<>>
  <2>1. /\ DOMAIN t = Units /\ last' = last
        /\ \A u \in Units : t[u].key = rows[u].key /\ t[u].sign = rows[u].sign
    BY <1>2, <1>6 DEF SyncedAs
  <2>2. Merged(t, listing) = {} /\ Dropped(t, listing) = {}
    BY <1>6 DEF Merged, Dropped
  <2>3. QED
    BY <1>4, <2>1, <2>2, SameSource
<1>7. CASE listing # <<>>
  <2>1. last' = listing
    BY <1>2, <1>7 DEF SyncedAs
  <2>2. ASSUME NEW u \in DOMAIN t, t[u].key \in DOMAIN listing PROVE u \in DOMAIN rows'
    BY <1>4, <2>2 DEF Merged, Dropped, Stale, Listed
  <2>3. ASSUME NEW k \in DOMAIN listing
        PROVE  \E u \in DOMAIN rows' : rows'[u].key = k /\ rows'[u].sign = listing[k]
    <3>1. PICK u \in DOMAIN t : t[u].key = k /\ t[u].sign = listing[k]
      BY <1>5 DEF Mirrors
    <3>2. QED
      BY <1>4, <2>2, <3>1
  <2>4. ASSUME NEW u \in DOMAIN rows', rows'[u].key \notin DOMAIN listing, NEW v \in DOMAIN rows',
               {w \in DOMAIN rows' : /\ rows'[w].key \in DOMAIN listing
                                     /\ rows'[w].sign = rows'[u].sign} = {v}
        PROVE  FALSE
    <3>1. u \in Stale(t, listing) \ Merged(t, listing)
      BY <1>4, <2>4 DEF Stale, Listed
    <3>2. Twins(t, listing, u) = {v}
      BY <1>4, <2>2, <2>4 DEF Twins, Listed
    <3>3. v \in Ids
      BY <1>4, <1>5 DEF Table
    <3>4. QED
      BY <1>7, <3>1, <3>2, <3>3 DEF Merged
  <2>5. QED
    BY <2>1, <2>3, <2>4 DEF MatchesSource, Units
<1>8. QED
  BY <1>6, <1>7

(* After every listing the table says what the source says, and keeps no    *)
(* row beside the one it must be: for any renamings, splits and doublings,  *)
(* over any number of listings.                                             *)
THEOREM SourceIsMatched == Spec => []MatchesSource
<1>1. ASSUME Init PROVE MatchesSource
  <2>1. PICK listing \in Listings : \E name \in Injection(DOMAIN listing, Ids) :
            /\ born = Range(name)
            /\ rows = [u \in born |-> NewRow(KeyNamed(name, u), listing)]
            /\ last = listing
    BY <1>1 DEF Init
  <2>2. PICK name \in Injection(DOMAIN listing, Ids) :
            /\ born = Range(name)
            /\ rows = [u \in born |-> NewRow(KeyNamed(name, u), listing)]
            /\ last = listing
    BY <2>1
  <2>3. /\ name \in [DOMAIN listing -> Ids]
        /\ \A j, k \in DOMAIN listing : name[j] = name[k] => j = k
    BY <2>2 DEF Injection, IsInjective
  <2>4. ASSUME NEW u \in born
        PROVE  KeyNamed(name, u) \in DOMAIN listing /\ name[KeyNamed(name, u)] = u
    <3>1. \E k \in DOMAIN name : name[k] = u
      BY <2>2 DEF Range
    <3>2. QED
      BY <2>3, <3>1 DEF KeyNamed
  <2>5. ASSUME NEW u \in born
        PROVE  rows[u].key \in DOMAIN last /\ rows[u].sign = last[rows[u].key]
               /\ rows[u].key = KeyNamed(name, u)
    <3>1. rows[u] = NewRow(KeyNamed(name, u), listing)
      BY <2>2
    <3>2. QED
      BY <2>2, <2>4, <3>1 DEF NewRow
  <2>6. ASSUME NEW k \in DOMAIN last PROVE name[k] \in born /\ rows[name[k]].key = k
    <3>1. name[k] \in born
      BY <2>2, <2>3 DEF Range
    <3>2. QED
      BY <2>2, <2>3, <2>4, <2>5, <3>1
  <2>7. QED
    BY <2>2, <2>5, <2>6 DEF MatchesSource, Units
<1>2. TypeOK /\ MatchesSource /\ [Next]_vars => MatchesSource'
  <2> SUFFICES ASSUME TypeOK, MatchesSource, [Next]_vars
               PROVE  MatchesSource'
    OBVIOUS
  <2>1. CASE \E r \in Refreshes : Sync(r)
    BY <2>1, SyncMatches
  <2>2. CASE ~\E r \in Refreshes : Sync(r)
    BY <2>2, LastStep, RowsStep, SameSource
  <2>3. QED
    BY <2>1, <2>2
<1>3. QED
  BY <1>1, <1>2, TypeCorrect, PTL DEF Spec

(* Through any chain of merges, the position and the mark of a chapter stay  *)
(* together on the row that the chapter has become.                          *)
THEOREM ReadingStaysTogether == Spec => []ReadingFollows
<1>1. Init => ReadingFollows
  BY DEF Init, ReadingFollows
<1>2. TypeOK /\ ReadingFollows /\ [Next]_vars => ReadingFollows'
  <2> SUFFICES ASSUME TypeOK, ReadingFollows, [Next]_vars
               PROVE  ReadingFollows'
    OBVIOUS
  <2>1. ASSUME NEW r \in Refreshes, Sync(r) PROVE ReadingFollows'
    <3>1. PICK listing \in Listings : \E t, given : SyncedAs(r, listing, t, given)
      BY <2>1, SyncShape
    <3>2. PICK t, given : SyncedAs(r, listing, t, given)
      BY <3>1
    <3>3. /\ read' = {Follow(t, listing, u) : u \in read \ Dropped(t, listing)}
          /\ journal' = [u \in DOMAIN journal |-> Follow(t, listing, journal[u])]
          /\ heir' = [u \in DOMAIN heir |-> IF heir[u] \in Dropped(t, listing)
                                            THEN Nowhere ELSE Follow(t, listing, heir[u])]
      BY <3>2 DEF SyncedAs, Reconcile, Marks
    <3>4. Follow(t, listing, Nowhere) = Nowhere
      <4>1. Nowhere \notin DOMAIN t
        BY <3>2 DEF SyncedAs, Table, Ids, Nowhere
      <4>2. QED
        BY <4>1, MergedRows DEF Follow
    <3>5. SUFFICES ASSUME NEW u \in DOMAIN heir, heir'[u] # Nowhere
                   PROVE  heir'[u] \in read' /\ journal'[u] = heir'[u]
      BY <3>3 DEF ReadingFollows
    <3>6. heir[u] \notin Dropped(t, listing) /\ heir'[u] = Follow(t, listing, heir[u])
      BY <3>3, <3>5
    <3>7. heir[u] \in read /\ journal[u] = heir[u]
      BY <3>4, <3>5, <3>6 DEF ReadingFollows
    <3>8. u \in DOMAIN journal
      BY DEF TypeOK
    <3>9. QED
      BY <3>3, <3>6, <3>7, <3>8
  <2>2. ASSUME NEW u \in Ids, Read(u) PROVE ReadingFollows'
    <3>1. DOMAIN journal = DOMAIN heir
      BY DEF TypeOK
    <3>2. QED
      BY <2>2, <3>1 DEF Read, ReadingFollows
  <2>3. CASE UNCHANGED <<journal, read, heir>>
    BY <2>3 DEF ReadingFollows
  <2>4. ASSUME NEW r \in Refreshes, RefreshStep(r) PROVE Sync(r) \/ UNCHANGED <<journal, read, heir>>
    BY <2>4 DEF RefreshStep, Confirm, FileStep, Queue, Drop, reading
  <2>5. ASSUME NEW u \in Ids, Ask(u) PROVE UNCHANGED <<journal, read, heir>>
    BY <2>5 DEF Ask, reading
  <2>6. CASE WorkerStep
    BY <2>3, <2>6 DEF WorkerStep, Poll, Claim, Fetch, Stage, Promote, Record, Discard, reading
  <2>7. CASE Restart
    BY <2>3, <2>7 DEF Restart, reading
  <2>8. CASE UNCHANGED vars
    BY <2>3, <2>8 DEF vars
  <2>9. QED
    BY <2>1, <2>2, <2>3, <2>4, <2>5, <2>6, <2>7, <2>8 DEF Next
<1>3. QED
  BY <1>1, <1>2, TypeCorrect, PTL DEF Spec

(* A downloaded chapter stays downloaded, or the row it merges into is, but  *)
(* for the worker's being busy on it: no listing, no overlap of refreshes    *)
(* and no crash makes the database forget a copy.                            *)
THEOREM DownloadsAreKept == Spec => DownloadsSurvive
<1> DEFINE Survives ==
        \A u \in Units : rows[u].state = "downloaded" =>
          \/ /\ u \in DOMAIN rows'
             /\ \/ rows'[u].state = "downloaded"
                \/ wunit = u /\ wpc \in {"claim", "record"}
          \/ /\ u \notin DOMAIN rows'
             /\ \E v \in DOMAIN rows' : /\ rows'[v].state = "downloaded"
                                       /\ rows'[v].sign = rows[u].sign
<1>1. TypeOK /\ [Next]_vars => Survives
  <2> SUFFICES ASSUME TypeOK, [Next]_vars
               PROVE  Survives
    OBVIOUS
  <2>1. ASSUME NEW r \in Refreshes, Sync(r) PROVE Survives
    <3>1. PICK listing \in Listings : \E t, given : SyncedAs(r, listing, t, given)
      BY <2>1, SyncShape
    <3>2. PICK t, given : SyncedAs(r, listing, t, given)
      BY <3>1
    <3>0. ReconciledAs(listing, t, given)
      BY <3>2, ReconciledRows
    <3>3. /\ DOMAIN rows' = DOMAIN t \ (Merged(t, listing) \cup Dropped(t, listing))
          /\ \A u \in DOMAIN rows' :
                /\ rows'[u].sign = t[u].sign
                /\ rows'[u].state = "downloaded" \/ rows'[u].state = t[u].state
                /\ (\E g \in given : u = Twin(t, listing, g)) => rows'[u].state = "downloaded"
      BY <3>0 DEF ReconciledAs
    <3>4. SUFFICES ASSUME NEW u \in Units, rows[u].state = "downloaded"
                   PROVE  \/ u \in DOMAIN rows' /\ rows'[u].state = "downloaded"
                          \/ /\ u \notin DOMAIN rows'
                             /\ \E v \in DOMAIN rows' : /\ rows'[v].state = "downloaded"
                                                       /\ rows'[v].sign = rows[u].sign
      OBVIOUS
    <3>5. /\ u \in DOMAIN t /\ t[u].state = "downloaded"
          /\ t[u].key \notin DOMAIN listing => t[u].sign = rows[u].sign
      BY <3>2, <3>4 DEF SyncedAs
    <3>6. u \notin Dropped(t, listing)
      BY <3>5 DEF Dropped
    <3>7. CASE u \notin Merged(t, listing)
      BY <3>3, <3>5, <3>6, <3>7
    <3>8. CASE u \in Merged(t, listing)
      <4> DEFINE v == Twin(t, listing, u)
      <4>1. /\ u \notin DOMAIN rows' /\ v \in DOMAIN rows' /\ rows'[v].sign = rows[u].sign
        BY <3>3, <3>5, <3>8, MergedRows
      <4>2. rows'[v].state = "downloaded"
        <5>1. CASE t[v].state = "downloaded"
          BY <3>3, <4>1, <5>1
        <5>2. CASE t[v].state # "downloaded"
          <6>1. \E g \in given : Twin(t, listing, g) = v
            BY <3>2, <3>5, <3>8, <5>2 DEF SyncedAs, Gifts
          <6>2. QED
            BY <3>3, <4>1, <6>1
        <5>3. QED
          BY <5>1, <5>2
      <4>3. QED
        BY <4>1, <4>2
    <3>9. QED
      BY <3>7, <3>8
  <2>2. CASE /\ DOMAIN rows' = Units
             /\ \A u \in Units : rows[u].state = "downloaded" =>
                    \/ rows'[u].state = "downloaded"
                    \/ wunit = u /\ wpc \in {"claim", "record"}
    BY <2>2
  <2>3. QED
    BY <2>1, <2>2, RowsStep
<1>2. TypeOK /\ [Next]_vars => [Survives]_vars
  BY <1>1
<1>3. QED
  BY <1>2, TypeCorrect, PTL DEF Spec, DownloadsSurvive
-----------------------------------------------------------------------------
(* A move that is still to come has its pages to move: they are where the   *)
(* merged chapter left them, the worker has another chapter in hand and     *)
(* nobody is to put other pages there.                                      *)
Waiting(op) ==
    /\ op.from \in dir
    /\ wunit # op.from
    /\ \A q \in Refreshes : op.from \notin Unmoved(q)

(* File operations belong to a refresh that runs; they take pages from      *)
(* chapters that have no row any more, each from another one.               *)
OpsInOrder ==
    /\ \A r \in Refreshes : pc[r] = "idle" => ops[r] = {}
    /\ \A r \in Refreshes : \A op \in ops[r] :
          op.from \in born \ Units /\ op.to \in born
    /\ \A r, q \in Refreshes : \A op \in ops[r], o \in ops[q] :
          op.from = o.from => r = q /\ op = o
    /\ \A r \in Refreshes : \A op \in ops[r] :
          op.kind # "remove" => op.to \in cut \/ Waiting(op)

(* The pages of a chapter are there, on their way, or known to be cut off.  *)
Held(u) == u \in dir \cup cut \/ \E r \in Refreshes : u \in Unmoved(r)

WorkerInOrder ==
    /\ wpc = "record" /\ outcome = "downloaded" /\ wunit \in Units => Held(wunit)
    /\ wpc = "discard" => wunit \notin Units

CopiesInOrder == OpsInOrder /\ WorkerInOrder /\ CopyOnDisk

(* Where neither files nor file operations move and no row comes, goes or   *)
(* becomes downloaded, only the worker's place is to be looked at.          *)
LEMMA FilesStay ==
    ASSUME TypeOK, CopiesInOrder, ops' = ops, born' = born, Units' = Units,
           cut' = cut, dir \subseteq dir' \cup {wunit},
           \A r \in Refreshes : pc'[r] = "idle" => pc[r] = "idle",
           wunit' = wunit \/ wunit' = Nowhere \/ wunit' \in Units
    PROVE  /\ OpsInOrder'
           /\ \A u : Held(u) => Held(u)' \/ (u = wunit /\ u \notin dir')
<1>1. \A r \in Refreshes : Unmoved(r)' = Unmoved(r)
  BY DEF Unmoved
<1>2. ASSUME NEW r \in Refreshes, NEW op \in ops[r], Waiting(op)
      PROVE  Waiting(op)'
  <2>1. op.from \in born \ Units /\ op.from # Nowhere
    BY DEF TypeOK, CopiesInOrder, OpsInOrder, Ids, Nowhere
  <2>2. QED
    BY <1>1, <1>2, <2>1 DEF Waiting
<1>3. OpsInOrder'
  BY <1>2 DEF CopiesInOrder, OpsInOrder
<1>4. QED
  BY <1>1, <1>3 DEF Held

(* The rows keep their ids and none becomes downloaded. *)
RowsKept ==
    /\ Units' = Units
    /\ \A u \in Units : rows'[u].state = "downloaded" => rows[u].state = "downloaded"

LEMMA StateSet ==
    ASSUME TypeOK, NEW S, NEW state \in RowState, SetState(S, state)
    PROVE  /\ Units' = Units
           /\ \A u \in Units : rows'[u].state = "downloaded" =>
                 rows[u].state = "downloaded" \/ (u \in S /\ state = "downloaded")
           /\ \A u \in Units : u \in S => rows'[u].state = state
           /\ state # "downloaded" => RowsKept
<1>1. Units' = Units
  BY SetStateRows DEF Units
<1>2. QED
  BY <1>1, SetStateRows DEF RowsKept

(* A refresh that returns forgets its operations and knows whose pages are  *)
(* cut off by that.                                                         *)
LEMMA ReturnKeepsCopies ==
    ASSUME TypeOK, CopiesInOrder, NEW r \in Refreshes, Return(r), RowsKept,
           UNCHANGED <<born, dir, worker>>
    PROVE  CopiesInOrder'
<1> USE DEF worker
<1>1. /\ ops'[r] = {} /\ pc'[r] = "idle"
      /\ \A q \in Refreshes \ {r} : ops'[q] = ops[q] /\ pc'[q] = pc[q]
      /\ cut' = cut \cup Unmoved(r)
  BY DEF Return, TypeOK
<1>2. /\ Unmoved(r)' = {}
      /\ \A q \in Refreshes \ {r} : Unmoved(q)' = Unmoved(q)
  BY <1>1 DEF Unmoved
<1>3. \A u : Held(u) => Held(u)'
  BY <1>1, <1>2 DEF Held
<1>4. \A op : Waiting(op) => Waiting(op)'
  BY <1>2 DEF Waiting
<1>5. \A q \in Refreshes : ops'[q] \subseteq ops[q]
  BY <1>1
<1>6. OpsInOrder'
  BY <1>1, <1>4, <1>5 DEF CopiesInOrder, OpsInOrder, RowsKept
<1>7. WorkerInOrder'
  BY <1>3 DEF CopiesInOrder, WorkerInOrder, RowsKept
<1>8. CopyOnDisk'
  BY <1>3 DEF CopiesInOrder, CopyOnDisk, Held, RowsKept
<1>9. QED
  BY <1>6, <1>7, <1>8 DEF CopiesInOrder

(* One step of a file operation.                                            *)
LEMMA FileStepKeepsCopies ==
    ASSUME TypeOK, CopiesInOrder, NEW r \in Refreshes, FileStep(r)
    PROVE  CopiesInOrder'
<1> USE DEF worker
<1>1. PICK op \in ops[r] :
         \/ /\ op.kind = "remove"
            /\ dir' = dir \ {op.from}
            /\ ops' = [ops EXCEPT ![r] = @ \ {op}]
         \/ /\ op.kind = "rename"
            /\ dir' = dir \ {op.to}
            /\ ops' = [ops EXCEPT ![r] = (@ \ {op}) \cup {[op EXCEPT !.kind = "move"]}]
         \/ /\ op.kind = "move"
            /\ dir' = IF op.from \in dir /\ op.to \notin dir
                      THEN (dir \ {op.from}) \cup {op.to}
                      ELSE dir
            /\ ops' = [ops EXCEPT ![r] = @ \ {op}]
  BY DEF FileStep
<1>2. /\ UNCHANGED <<rows, born, wpc, wunit, outcome, cut, pc>>
      /\ Units' = Units /\ pc[r] = "files"
  BY DEF FileStep, Units
<1>3. op \in FileOp /\ op.from \in born \ Units
  BY DEF TypeOK, CopiesInOrder, OpsInOrder
<1>4. \A q \in Refreshes \ {r} : ops'[q] = ops[q]
  BY <1>1 DEF TypeOK
<1>5. \A q \in Refreshes \ {r} : Unmoved(q)' = Unmoved(q)
  BY <1>4 DEF Unmoved
<1>6. ASSUME NEW q \in Refreshes, NEW o \in ops[q], o # op
      PROVE  o.from # op.from
  BY <1>6 DEF CopiesInOrder, OpsInOrder
<1>7. CASE op.kind # "rename"
  <2>1. ops'[r] = ops[r] \ {op}
    BY <1>1, <1>7 DEF TypeOK
  <2>2. \A q \in Refreshes : ops'[q] \subseteq ops[q]
    BY <1>4, <2>1
  <2>3. \A q \in Refreshes : Unmoved(q)' \subseteq Unmoved(q)
    BY <2>2 DEF Unmoved
  <2>4. dir \ {op.from} \subseteq dir'
    BY <1>1, <1>7
  <2>5. ASSUME NEW q \in Refreshes, NEW o \in ops'[q], Waiting(o)
        PROVE  Waiting(o)'
    <3>1. o \in ops[q]
      BY <2>2
    <3>2. q # r => o.from # op.from
      BY <3>1 DEF CopiesInOrder, OpsInOrder
    <3>3. o # op
      BY <2>1, <2>5, <3>2
    <3>4. o.from # op.from
      BY <1>6, <3>1, <3>3
    <3>5. QED
      BY <1>2, <2>3, <2>4, <2>5, <3>4 DEF Waiting
  <2>6. OpsInOrder'
    BY <1>2, <2>2, <2>5 DEF CopiesInOrder, OpsInOrder
  <2>7. ASSUME NEW u \in Units, Held(u)
        PROVE  Held(u)'
    <3>1. CASE op.kind = "remove"
      <4>1. Unmoved(r)' = Unmoved(r)
        BY <2>1, <3>1 DEF Unmoved
      <4>2. u # op.from
        BY <1>3
      <4>3. QED
        BY <1>2, <1>5, <2>4, <2>7, <4>1, <4>2 DEF Held
    <3>2. CASE op.kind = "move"
      <4>1. Unmoved(r) \subseteq Unmoved(r)' \cup {op.to}
        BY <2>1 DEF Unmoved
      <4>2. op.to \in dir' \cup cut
        BY <1>1, <3>2 DEF CopiesInOrder, OpsInOrder, Waiting
      <4>3. u # op.from
        BY <1>3
      <4>4. QED
        BY <1>2, <1>5, <2>4, <2>7, <4>1, <4>2, <4>3 DEF Held
    <3>3. QED
      BY <1>7, <1>1, <3>1, <3>2
  <2>8. WorkerInOrder'
    BY <1>2, <2>7 DEF CopiesInOrder, WorkerInOrder
  <2>9. CopyOnDisk'
    BY <1>2, <2>7 DEF CopiesInOrder, CopyOnDisk, Held
  <2>10. QED
    BY <2>6, <2>8, <2>9 DEF CopiesInOrder
<1>8. CASE op.kind = "rename"
  <2> DEFINE new == [op EXCEPT !.kind = "move"]
  <2>1. /\ ops'[r] = (ops[r] \ {op}) \cup {new}
        /\ dir' = dir \ {op.to}
    BY <1>1, <1>8 DEF TypeOK
  <2>2. new.from = op.from /\ new.to = op.to /\ new.kind = "move"
    BY <1>3 DEF FileOp
  <2> HIDE DEF new
  <2>3. Unmoved(r)' = Unmoved(r)
    BY <1>8, <2>1, <2>2 DEF Unmoved
  <2>4. \A q \in Refreshes : Unmoved(q)' = Unmoved(q)
    BY <1>5, <2>3
  <2>5. op.to \in Unmoved(r)
    BY <1>8 DEF Unmoved
  <2>6. ASSUME NEW o, Waiting(o)
        PROVE  /\ o.from \in dir' /\ wunit' # o.from
               /\ \A q \in Refreshes : o.from \notin Unmoved(q)'
    BY <1>2, <2>1, <2>4, <2>5, <2>6 DEF Waiting
  <2>7. ASSUME NEW q \in Refreshes, NEW o \in ops'[q]
        PROVE  \E former \in ops[q] :
                  /\ former.from = o.from /\ former.to = o.to
                  /\ former.kind = "remove" <=> o.kind = "remove"
                  /\ o = former \/ (former = op /\ o = new /\ q = r)
    BY <1>4, <1>8, <2>1, <2>2, <2>7
  <2>8. OpsInOrder'
    <3>1. \A q \in Refreshes : pc'[q] = "idle" => ops'[q] = {}
      BY <1>2, <1>4 DEF CopiesInOrder, OpsInOrder
    <3>2. ASSUME NEW q \in Refreshes, NEW o \in ops'[q]
          PROVE  /\ o.from \in born' \ Units' /\ o.to \in born'
                 /\ o.kind # "remove" => o.to \in cut' \/ Waiting(o)'
      <4>1. PICK former \in ops[q] : /\ former.from = o.from /\ former.to = o.to
                                     /\ former.kind = "remove" <=> o.kind = "remove"
        BY <2>7
      <4>2. Waiting(former) => Waiting(o)'
        BY <2>6, <4>1 DEF Waiting
      <4>3. QED
        BY <1>2, <4>1, <4>2 DEF CopiesInOrder, OpsInOrder
    <3>3. ASSUME NEW p \in Refreshes, NEW q \in Refreshes,
                 NEW n \in ops'[p], NEW o \in ops'[q], n.from = o.from
          PROVE  p = q /\ n = o
      <4>1. PICK n0 \in ops[p] : n0.from = n.from /\ (n = n0 \/ (n0 = op /\ n = new))
        BY <2>7
      <4>2. PICK o0 \in ops[q] : o0.from = o.from /\ (o = o0 \/ (o0 = op /\ o = new))
        BY <2>7
      <4>3. p = q /\ n0 = o0
        BY <3>3, <4>1, <4>2 DEF CopiesInOrder, OpsInOrder
      <4>4. CASE n0 = op
        <5>1. p = r
          BY <4>4 DEF CopiesInOrder, OpsInOrder
        <5>2. n # op \/ new = op
          BY <2>1, <5>1
        <5>3. o # op \/ new = op
          BY <2>1, <4>3, <5>1
        <5>4. QED
          BY <4>1, <4>2, <4>3, <4>4, <5>2, <5>3
      <4>5. QED
        BY <4>1, <4>2, <4>3, <4>4
    <3>4. QED
      BY <3>1, <3>2, <3>3 DEF OpsInOrder
  <2>9. \A u : Held(u) => Held(u)'
    BY <1>2, <2>1, <2>4, <2>5 DEF Held
  <2>10. WorkerInOrder'
    BY <1>2, <2>9 DEF CopiesInOrder, WorkerInOrder
  <2>11. CopyOnDisk'
    BY <1>2, <2>9 DEF CopiesInOrder, CopyOnDisk, Held
  <2>12. QED
    BY <2>8, <2>10, <2>11 DEF CopiesInOrder
<1>9. QED
  BY <1>7, <1>8

(* The copies that change hands have their pages at hand, unless InFlight.  *)
LEMMA SyncKeepsCopies ==
    ASSUME TypeOK, CopiesInOrder, NEW r \in Refreshes, Sync(r)
    PROVE  CopiesInOrder'
<1> USE DEF worker
<1>1. PICK listing \in Listings : \E t, given : SyncedAs(r, listing, t, given)
  BY SyncShape
<1>2. PICK t, given : SyncedAs(r, listing, t, given)
  BY <1>1
<1> DEFINE stay == DOMAIN t \ (Merged(t, listing) \cup Dropped(t, listing))
           blessed == {Twin(t, listing, g) : g \in given}
           new == FileOps(t, listing, given)
<1>3. /\ ops[r] = {} /\ pc[r] = "idle" /\ pc'[r] = "confirm"
      /\ \A q \in Refreshes \ {r} : pc'[q] = pc[q]
      /\ UNCHANGED <<dir, wpc, wunit, outcome>>
  BY DEF Sync, CopiesInOrder, OpsInOrder, TypeOK
<1>4. /\ ops' = [ops EXCEPT ![r] = new]
      /\ cut' = cut \cup {Twin(t, listing, g) : g \in {h \in given : InFlight(h)}}
      /\ rows' = [u \in stay |-> IF u \in blessed THEN [t[u] EXCEPT !.state = "downloaded"]
                                                  ELSE t[u]]
  BY <1>2 DEF SyncedAs, Reconcile
<1>5. /\ Table(t) /\ DOMAIN t \subseteq born' /\ born \subseteq born'
      /\ \A u \in Units : t[u].state = rows[u].state
      /\ \A u \in DOMAIN t \ Units :
            u \notin born /\ t[u].key \in DOMAIN listing /\ t[u].state = "none"
  BY <1>2 DEF SyncedAs
<1>6. given \subseteq Merged(t, listing) /\ \A g \in given : t[g].state = "downloaded"
  BY <1>2 DEF SyncedAs, Gifts
<1>7. /\ ops'[r] = new
      /\ \A q \in Refreshes \ {r} : ops'[q] = ops[q]
  BY <1>4 DEF TypeOK
<1>8. Units' = stay
  BY <1>4 DEF Units
<1>9. ASSUME NEW g \in given
      PROVE  /\ g \in Units /\ rows[g].state = "downloaded"
             /\ g \in DOMAIN t \ stay
             /\ Twin(t, listing, g) \in stay
  <2>1. g \in Merged(t, listing) /\ t[g].state = "downloaded"
    BY <1>6
  <2>2. g \in DOMAIN t /\ t[g].key \notin DOMAIN listing /\ Twin(t, listing, g) \in stay
    BY <2>1, MergedRows
  <2>3. QED
    BY <1>5, <2>1, <2>2
<1>10. ASSUME NEW op \in new
       PROVE  /\ op.from \in DOMAIN t \ stay /\ op.to \in DOMAIN t
              /\ \/ /\ op.kind = "rename" /\ op.from \in given
                    /\ op = [kind |-> "rename", from |-> op.from,
                             to |-> Twin(t, listing, op.from)]
                 \/ /\ op.kind = "remove" /\ op.from \notin given
                    /\ op = [kind |-> "remove", from |-> op.from, to |-> op.from]
  <2>1. CASE \E g \in given :
               op = [kind |-> "rename", from |-> g, to |-> Twin(t, listing, g)]
    BY <1>9, <2>1
  <2>2. CASE \E u \in (Merged(t, listing) \ given) \cup Dropped(t, listing) :
               op = [kind |-> "remove", from |-> u, to |-> u]
    <3>1. PICK u \in (Merged(t, listing) \ given) \cup Dropped(t, listing) :
               op = [kind |-> "remove", from |-> u, to |-> u]
      BY <2>2
    <3>2. u \notin given
      BY <1>6 DEF Dropped
    <3>3. u \in DOMAIN t \ stay
      BY DEF Merged, Dropped, Stale
    <3>4. QED
      BY <3>1, <3>2, <3>3
  <2>3. QED
    BY <1>10, <2>1, <2>2 DEF FileOps
<1>11. ASSUME NEW q \in Refreshes, NEW op \in ops[q]
       PROVE  op.from \in born /\ op.from \notin DOMAIN t
  BY <1>5, <1>11 DEF CopiesInOrder, OpsInOrder
<1>12. Unmoved(r)' = blessed
  <2>1. Unmoved(r)' = {op.to : op \in {o \in new : o.kind # "remove"}}
    BY <1>7 DEF Unmoved
  <2>2. ASSUME NEW op \in new, op.kind # "remove" PROVE op.to \in blessed
    <3>1. op = [kind |-> "rename", from |-> op.from, to |-> Twin(t, listing, op.from)]
          /\ op.from \in given
      BY <1>10, <2>2
    <3>2. QED
      BY <3>1
  <2>3. ASSUME NEW g \in given
        PROVE  \E op \in new : op.kind # "remove" /\ op.to = Twin(t, listing, g)
    <3> DEFINE op == [kind |-> "rename", from |-> g, to |-> Twin(t, listing, g)]
    <3>1. op \in new
      BY <2>3 DEF FileOps
    <3>2. op.kind # "remove" /\ op.to = Twin(t, listing, g)
      OBVIOUS
    <3> HIDE DEF op, new
    <3>3. QED
      BY <3>1, <3>2
  <2>4. QED
    BY <2>1, <2>2, <2>3
<1>13. blessed \subseteq stay
  BY <1>9
<1>14. Unmoved(r) = {} /\ \A q \in Refreshes \ {r} : Unmoved(q)' = Unmoved(q)
  BY <1>3, <1>7 DEF Unmoved
<1> HIDE DEF stay, blessed, new
<1>15. \A u : Held(u) => Held(u)'
  BY <1>3, <1>4, <1>14 DEF Held
<1>16. stay \subseteq DOMAIN t
  BY DEF stay
<1>17. OpsInOrder'
  <2>1. \A q \in Refreshes : pc'[q] = "idle" => ops'[q] = {}
    BY <1>3, <1>7 DEF CopiesInOrder, OpsInOrder
  <2>2. ASSUME NEW q \in Refreshes, NEW op \in ops'[q]
        PROVE  op.from \in born' \ Units' /\ op.to \in born'
    BY <1>5, <1>7, <1>8, <1>10, <1>11, <1>16, <2>2 DEF CopiesInOrder, OpsInOrder
  <2>3. ASSUME NEW p \in Refreshes, NEW q \in Refreshes,
               NEW op \in ops'[p], NEW o \in ops'[q], op.from = o.from
        PROVE  p = q /\ op = o
    <3>1. CASE p = r /\ q = r
      BY <1>7, <1>10, <2>3, <3>1
    <3>2. CASE p # r /\ q # r
      BY <1>7, <2>3, <3>2 DEF CopiesInOrder, OpsInOrder
    <3>3. CASE p = r /\ q # r
      BY <1>7, <1>10, <1>11, <2>3, <3>3
    <3>4. CASE p # r /\ q = r
      BY <1>7, <1>10, <1>11, <2>3, <3>4
    <3>5. QED
      BY <3>1, <3>2, <3>3, <3>4
  <2>4. ASSUME NEW q \in Refreshes, NEW op \in ops'[q], op.kind # "remove"
        PROVE  op.to \in cut' \/ Waiting(op)'
    <3>1. CASE q = r
      <4>1. op.kind = "rename" /\ op.from \in given /\ op.to = Twin(t, listing, op.from)
        BY <1>7, <1>10, <2>4, <3>1
      <4>2. CASE InFlight(op.from)
        BY <1>4, <4>1, <4>2
      <4>3. CASE ~InFlight(op.from)
        <5>1. wunit # op.from /\ op.from \notin cut
              /\ \A p \in Refreshes : op.from \notin Unmoved(p)
          BY <4>3 DEF InFlight, Unmoved
        <5>2. op.from \in dir
          BY <1>9, <4>1, <5>1 DEF CopiesInOrder, CopyOnDisk
        <5>3. op.from \notin blessed
          BY <1>9, <1>13, <4>1
        <5>4. \A p \in Refreshes : op.from \notin Unmoved(p)'
          BY <1>12, <1>14, <5>1, <5>3
        <5>5. QED
          BY <1>3, <5>1, <5>2, <5>4 DEF Waiting
      <4>4. QED
        BY <4>2, <4>3
    <3>2. CASE q # r
      <4>1. op \in ops[q] /\ op.from \notin DOMAIN t
        BY <1>7, <1>11, <2>4, <3>2
      <4>2. op.to \in cut \/ Waiting(op)
        BY <2>4, <4>1 DEF CopiesInOrder, OpsInOrder
      <4>3. op.from \notin blessed
        BY <1>13, <1>16, <4>1
      <4>4. Waiting(op) => Waiting(op)'
        BY <1>3, <1>12, <1>14, <4>3 DEF Waiting
      <4>5. QED
        BY <1>4, <4>2, <4>4
    <3>3. QED
      BY <3>1, <3>2
  <2>5. QED
    BY <2>1, <2>2, <2>3, <2>4 DEF OpsInOrder
<1>18. ASSUME wunit \in Units' PROVE wunit \in Units
  <2>1. wunit \in DOMAIN t /\ wunit \in Ids
    BY <1>5, <1>8, <1>16, <1>18 DEF Table
  <2>2. wunit \in born
    BY <2>1 DEF TypeOK, Ids, Nowhere
  <2>3. QED
    BY <1>5, <2>1, <2>2
<1>19. WorkerInOrder'
  BY <1>3, <1>15, <1>18 DEF CopiesInOrder, WorkerInOrder
<1>20. ASSUME NEW u \in Units', rows'[u].state = "downloaded"
       PROVE  Held(u)' \/ (wunit' = u /\ wpc' = "promote")
  <2>1. CASE u \in blessed
    BY <1>12, <2>1 DEF Held
  <2>2. CASE u \notin blessed
    <3>1. t[u].state = "downloaded" /\ u \in DOMAIN t
      BY <1>4, <1>8, <1>16, <1>20, <2>2
    <3>2. u \in Units /\ rows[u].state = "downloaded"
      BY <1>5, <3>1
    <3>3. QED
      BY <1>3, <1>15, <3>2 DEF CopiesInOrder, CopyOnDisk, Held
  <2>3. QED
    BY <2>1, <2>2
<1>21. CopyOnDisk'
  BY <1>20 DEF CopyOnDisk, Held
<1>22. QED
  BY <1>17, <1>19, <1>21 DEF CopiesInOrder

LEMMA CopiesStep ==
    ASSUME TypeOK, CopiesInOrder, [Next]_vars
    PROVE  CopiesInOrder'
<1> USE DEF worker, refresh
<1>1. ASSUME NEW r \in Refreshes, RefreshStep(r) PROVE CopiesInOrder'
  <2>1. CASE Confirm(r)
    <3>1. RowsKept /\ UNCHANGED <<born, dir, worker>>
      BY <2>1 DEF Confirm, RowsKept, Units
    <3>2. CASE Return(r)
      BY <3>1, <3>2, ReturnKeepsCopies
    <3>3. CASE pc' = [pc EXCEPT ![r] = "files"] /\ UNCHANGED <<ops, cut>>
      <4>1. \A q \in Refreshes : pc'[q] = "idle" => pc[q] = "idle"
        BY <3>3 DEF TypeOK
      <4>2. OpsInOrder' /\ \A u : Held(u) => Held(u)' \/ (u = wunit /\ u \notin dir')
        BY <3>1, <3>3, <4>1, FilesStay DEF RowsKept
      <4>3. \A u : Held(u) => Held(u)'
        BY <3>1, <3>3 DEF Held, Unmoved
      <4>4. QED
        BY <3>1, <4>2, <4>3 DEF CopiesInOrder, WorkerInOrder, CopyOnDisk, Held, RowsKept
    <3>4. QED
      BY <2>1, <3>2, <3>3 DEF Confirm
  <2>2. CASE Queue(r)
    <3>1. RowsKept
      <4>1. rows' = rows \/ SetState(IF AutoDownload
                  THEN {u \in fresh[r] \cap Units : rows[u].state \in {"none", "failed"}}
                  ELSE {}, "pending")
        BY <2>2 DEF Queue
      <4>2. QED
        BY <4>1, StateSet DEF RowsKept, Units, RowState
    <3>2. QED
      BY <2>2, <3>1, ReturnKeepsCopies DEF Queue
  <2>3. CASE Drop(r)
    <3>1. RowsKept
      BY <2>3 DEF Drop, RowsKept, Units
    <3>2. QED
      BY <2>3, <3>1, ReturnKeepsCopies DEF Drop
  <2>4. QED
    BY <1>1, <2>1, <2>2, <2>3, SyncKeepsCopies, FileStepKeepsCopies DEF RefreshStep
<1>2. ASSUME UNCHANGED <<born, dir, worker, refresh, cut>>, RowsKept
      PROVE  CopiesInOrder'
  <2>1. OpsInOrder'
    BY <1>2, FilesStay DEF RowsKept
  <2>2. \A u : Held(u) => Held(u)'
    BY <1>2 DEF Held, Unmoved
  <2>3. QED
    BY <1>2, <2>1, <2>2 DEF CopiesInOrder, WorkerInOrder, CopyOnDisk, Held, RowsKept
<1>3. ASSUME NEW u \in Ids, Ask(u) \/ Read(u) PROVE CopiesInOrder'
  <2>1. CASE Ask(u)
    <3>1. RowsKept
      BY <2>1, StateSet DEF Ask, RowState
    <3>2. QED
      BY <1>2, <2>1, <3>1 DEF Ask
  <2>2. CASE Read(u)
    BY <1>2, <2>2 DEF Read, RowsKept, Units
  <2>3. QED
    BY <1>3, <2>1, <2>2
<1>4. CASE WorkerStep
  <2>1. UNCHANGED <<born, refresh, cut>>
    BY <1>4 DEF WorkerStep, Poll, Claim, Fetch, Stage, Promote, Record, Discard
  <2>2. \A r \in Refreshes : Unmoved(r)' = Unmoved(r)
    BY <2>1 DEF Unmoved
  <2>3. ASSUME dir' = dir PROVE \A u : Held(u) <=> Held(u)'
    BY <2>1, <2>2, <2>3 DEF Held
  <2>4. CASE Poll
    <3>1. RowsKept /\ dir' = dir /\ wpc' = "claim" /\ wpc = "poll" /\ wunit' \in Units'
      BY <2>4 DEF Poll, RowsKept, Units
    <3>2. OpsInOrder'
      BY <2>1, <3>1, FilesStay DEF RowsKept
    <3>3. QED
      BY <2>3, <3>1, <3>2 DEF CopiesInOrder, WorkerInOrder, CopyOnDisk, Held, RowsKept
  <2>5. CASE Claim
    <3>1. RowsKept /\ dir' = dir /\ wpc' = "fetch" /\ wpc = "claim" /\ wunit' = wunit
      BY <2>5, StateSet DEF Claim, RowState
    <3>2. OpsInOrder'
      BY <2>1, <3>1, FilesStay DEF RowsKept
    <3>3. QED
      BY <2>3, <3>1, <3>2 DEF CopiesInOrder, WorkerInOrder, CopyOnDisk, Held, RowsKept
  <2>6. CASE Fetch
    <3>1. /\ RowsKept /\ dir' = dir /\ wpc = "fetch" /\ wunit' = wunit
          /\ wpc' = "stage" \/ (wpc' = "record" /\ outcome' # "downloaded")
      BY <2>6 DEF Fetch, RowsKept, Units
    <3>2. OpsInOrder'
      BY <2>1, <3>1, FilesStay DEF RowsKept
    <3>3. QED
      BY <2>3, <3>1, <3>2 DEF CopiesInOrder, WorkerInOrder, CopyOnDisk, Held, RowsKept
  <2>7. CASE Stage
    <3>1. RowsKept /\ dir' = dir \ {wunit} /\ wpc = "stage" /\ wpc' = "promote" /\ wunit' = wunit
      BY <2>7 DEF Stage, RowsKept, Units
    <3>2. OpsInOrder' /\ \A u : Held(u) => Held(u)' \/ u = wunit
      BY <2>1, <3>1, FilesStay DEF RowsKept
    <3>3. QED
      BY <3>1, <3>2 DEF CopiesInOrder, WorkerInOrder, CopyOnDisk, Held, RowsKept
  <2>8. CASE Promote
    <3>1. /\ RowsKept /\ dir \subseteq dir' /\ wunit \in dir'
          /\ wpc' = "record" /\ wunit' = wunit
      BY <2>8 DEF Promote, RowsKept, Units
    <3>2. OpsInOrder' /\ \A u : Held(u) => Held(u)'
      BY <2>1, <3>1, FilesStay DEF RowsKept
    <3>3. Held(wunit)'
      BY <3>1 DEF Held
    <3>4. QED
      BY <3>1, <3>2, <3>3 DEF CopiesInOrder, WorkerInOrder, CopyOnDisk, Held, RowsKept
  <2>9. CASE Record
    <3>1. /\ dir' = dir /\ wpc = "record" /\ SetState({wunit}, outcome)
          /\ \/ wunit \in Units /\ wunit' = Nowhere /\ wpc' = "poll"
             \/ wunit \notin Units /\ wpc' = "discard" /\ wunit' = wunit
      BY <2>9 DEF Record, Rest
    <3>2. outcome \in RowState
      BY DEF TypeOK, RowState
    <3>3. /\ Units' = Units
          /\ \A u \in Units : rows'[u].state = "downloaded" =>
                rows[u].state = "downloaded" \/ (u = wunit /\ outcome = "downloaded")
          /\ wunit \in Units => rows'[wunit].state = outcome
      BY <3>1, <3>2, StateSet
    <3>4. OpsInOrder'
      BY <2>1, <3>1, <3>3, FilesStay
    <3>5. \A u \in Units : rows'[u].state = "downloaded" => Held(u)
      BY <3>1, <3>3 DEF CopiesInOrder, WorkerInOrder, CopyOnDisk, Held
    <3>6. QED
      BY <2>3, <3>1, <3>3, <3>4, <3>5 DEF CopiesInOrder, WorkerInOrder, CopyOnDisk, Held
  <2>10. CASE Discard
    <3>1. /\ RowsKept /\ dir' = dir \ {wunit} /\ wpc = "discard"
          /\ wunit' = Nowhere /\ wpc' = "poll"
      BY <2>10 DEF Discard, Rest, RowsKept, Units
    <3>2. OpsInOrder' /\ \A u : Held(u) => Held(u)' \/ u = wunit
      BY <2>1, <3>1, FilesStay DEF RowsKept
    <3>3. wunit \notin Units
      BY <3>1 DEF CopiesInOrder, WorkerInOrder
    <3>4. QED
      BY <3>1, <3>2, <3>3 DEF CopiesInOrder, WorkerInOrder, CopyOnDisk, Held, RowsKept
  <2>11. QED
    BY <1>4, <2>4, <2>5, <2>6, <2>7, <2>8, <2>9, <2>10 DEF WorkerStep
<1>5. CASE Restart
  <2>1. /\ RowsKept /\ UNCHANGED <<born, dir>> /\ wpc' = "poll"
        /\ \A r \in Refreshes : ops'[r] = {}
        /\ cut' = cut \cup (UNION {Unmoved(r) : r \in Refreshes})
                      \cup (IF wpc = "promote" THEN {wunit} ELSE {})
    BY <1>5, StateSet DEF Restart, Rest, RowState
  <2>2. \A u : Held(u) => u \in dir' \cup cut'
    BY <2>1 DEF Held
  <2>3. OpsInOrder'
    BY <2>1 DEF OpsInOrder
  <2>4. QED
    BY <2>1, <2>2, <2>3 DEF CopiesInOrder, WorkerInOrder, CopyOnDisk, Held, RowsKept
<1>6. CASE UNCHANGED vars
  BY <1>2, <1>6 DEF vars, RowsKept, Units
<1>7. QED
  BY <1>1, <1>3, <1>4, <1>5, <1>6 DEF Next

(* The order of copies and file operations is kept. *)
LEMMA SpecCopiesInOrder == Spec => []CopiesInOrder
<1>1. ASSUME Init PROVE CopiesInOrder
  <2>1. (\A r \in Refreshes : ops[r] = {}) /\ wpc = "poll"
    BY <1>1 DEF Init
  <2>2. ASSUME NEW u \in Units PROVE rows[u].state = "none"
    <3>1. PICK listing \in Listings : \E name \in Injection(DOMAIN listing, Ids) :
              rows = [v \in born |-> NewRow(KeyNamed(name, v), listing)]
      BY <1>1 DEF Init
    <3>2. QED
      BY <3>1 DEF NewRow, Units
  <2>3. QED
    BY <2>1, <2>2 DEF CopiesInOrder, OpsInOrder, WorkerInOrder, CopyOnDisk
<1>2. TypeOK /\ CopiesInOrder /\ [Next]_vars => CopiesInOrder'
  BY CopiesStep
<1>3. QED
  BY <1>1, <1>2, TypeCorrect, PTL DEF Spec

(* Whatever refreshes overlap, whatever they rename, remove or leave undone *)
(* and wherever the worker is, a chapter that is shown as downloaded has    *)
(* its pages or will get them, unless they were known to be cut off.        *)
THEOREM CopiesStayOnDisk == Spec => []CopyOnDisk
<1>1. CopiesInOrder => CopyOnDisk
  BY DEF CopiesInOrder
<1>2. QED
  BY <1>1, SpecCopiesInOrder, PTL
-----------------------------------------------------------------------------
(* Two things are kept out of the way of "dropped only when nothing is saved *)
(* locally". No merge hands a copy to the chapter the worker has in hand ... *)
NoGiftInHand ==
    \A r \in Refreshes :
        pc[r] = "idle" /\ pc'[r] = "confirm" /\ wunit \in Units \cap DOMAIN rows'
        => rows'[wunit].state = rows[wunit].state

(* ... and the process is not killed after it promoted pages and before it  *)
(* recorded them.                                                           *)
PromotedIsRecorded ==
    wpc = "record" /\ outcome = "downloaded" /\ wpc' = "poll" /\ wunit \in DOMAIN rows'
    => rows'[wunit].state = "downloaded"

InHand ==
    wunit \in Units =>
        /\ wpc = "claim" => rows[wunit].state = "pending"
        /\ wpc \in {"fetch", "stage", "promote", "record"} => rows[wunit].state = "downloading"

Recording(u) == u = wunit /\ wpc = "record" /\ outcome = "downloaded"

(* Then pages on disk, and those on their way, belong to chapters that are  *)
(* downloaded, or are just being recorded.                                  *)
SavedOnly ==
    /\ dir \subseteq born
    /\ \A u \in Units \cap dir : rows[u].state = "downloaded" \/ Recording(u)
    /\ \A r \in Refreshes : \A u \in Units \cap Unmoved(r) : rows[u].state = "downloaded"
    /\ InHand

(* A step in which the worker has no part. *)
LEMMA OthersKeepSaved ==
    ASSUME TypeOK, SavedOnly, UNCHANGED <<born, wpc, wunit, outcome>>, dir' \subseteq dir,
           DOMAIN rows' = Units,
           \A u \in Units : \/ rows'[u].state = rows[u].state
                            \/ /\ rows[u].state \in {"none", "failed", "unavailable"}
                               /\ rows'[u].state = "pending",
           \A r \in Refreshes : Unmoved(r)' \subseteq Unmoved(r)
    PROVE  SavedOnly'
<1>1. Units' = Units
  BY DEF Units
<1>2. \A u \in Units : rows[u].state = "downloaded" => rows'[u].state = "downloaded"
  OBVIOUS
<1>3. InHand'
  BY <1>1 DEF SavedOnly, InHand
<1>4. \A u \in Units : Recording(u) <=> Recording(u)'
  BY DEF Recording
<1>5. QED
  BY <1>1, <1>2, <1>3, <1>4 DEF SavedOnly

LEMMA ReturnKeepsSaved ==
    ASSUME TypeOK, NEW r \in Refreshes, Return(r)
    PROVE  \A q \in Refreshes : Unmoved(q)' \subseteq Unmoved(q)
BY DEF Return, Unmoved, TypeOK

LEMMA FileStepKeepsSaved ==
    ASSUME TypeOK, CopiesInOrder, SavedOnly, NEW r \in Refreshes, FileStep(r)
    PROVE  SavedOnly'
<1>1. PICK op \in ops[r] :
         \/ /\ op.kind = "remove"
            /\ dir' = dir \ {op.from}
            /\ ops' = [ops EXCEPT ![r] = @ \ {op}]
         \/ /\ op.kind = "rename"
            /\ dir' = dir \ {op.to}
            /\ ops' = [ops EXCEPT ![r] = (@ \ {op}) \cup {[op EXCEPT !.kind = "move"]}]
         \/ /\ op.kind = "move"
            /\ dir' = IF op.from \in dir /\ op.to \notin dir
                      THEN (dir \ {op.from}) \cup {op.to}
                      ELSE dir
            /\ ops' = [ops EXCEPT ![r] = @ \ {op}]
  BY DEF FileStep
<1>2. /\ rows' = rows /\ UNCHANGED <<born, wpc, wunit, outcome>> /\ Units' = Units
      /\ op \in FileOp /\ op.to \in born
  BY <1>1 DEF FileStep, worker, Units, TypeOK, CopiesInOrder, OpsInOrder
<1>3. \A q \in Refreshes : Unmoved(q)' \subseteq Unmoved(q)
  <2>1. CASE op.kind = "rename"
    <3> DEFINE moving == [op EXCEPT !.kind = "move"]
    <3>1. moving.to = op.to
      BY <1>2 DEF FileOp
    <3>2. ops' = [ops EXCEPT ![r] = (ops[r] \ {op}) \cup {moving}]
      BY <1>1, <2>1
    <3> HIDE DEF moving
    <3>3. \A q \in Refreshes : \A o \in ops'[q] : o \in ops[q] \/ (q = r /\ o = moving)
      BY <3>2 DEF TypeOK
    <3>4. QED
      BY <2>1, <3>1, <3>3 DEF Unmoved
  <2>2. CASE op.kind # "rename"
    <3>1. \A q \in Refreshes : ops'[q] \subseteq ops[q]
      BY <1>1, <2>2 DEF TypeOK
    <3>2. QED
      BY <3>1 DEF Unmoved
  <2>3. QED
    BY <2>1, <2>2
<1>4. CASE dir' \subseteq dir
  BY <1>2, <1>3, <1>4, OthersKeepSaved DEF Units
<1>5. CASE op.kind = "move" /\ dir' = (dir \ {op.from}) \cup {op.to}
  <2>1. op.to \in Unmoved(r)
    BY <1>5 DEF Unmoved
  <2>2. /\ dir' \subseteq born
        /\ \A u \in Units \cap dir' : rows[u].state = "downloaded" \/ Recording(u)
    BY <1>2, <1>5, <2>1 DEF SavedOnly
  <2>3. \A u : Recording(u) => Recording(u)'
    BY <1>2 DEF Recording
  <2>4. InHand'
    BY <1>2 DEF SavedOnly, InHand
  <2>5. \A u \in Units' \cap dir' : rows'[u].state = "downloaded" \/ Recording(u)'
    BY <1>2, <2>2, <2>3
  <2>6. \A q \in Refreshes : \A u \in Units' \cap Unmoved(q)' : rows'[u].state = "downloaded"
    BY <1>2, <1>3 DEF SavedOnly
  <2>7. QED
    BY <1>2, <2>2, <2>4, <2>5, <2>6 DEF SavedOnly
<1>6. QED
  BY <1>1, <1>4, <1>5

LEMMA SyncKeepsSaved ==
    ASSUME TypeOK, CopiesInOrder, SavedOnly, NoGiftInHand, NEW r \in Refreshes, Sync(r)
    PROVE  SavedOnly'
<1>1. PICK listing \in Listings : \E t, given : SyncedAs(r, listing, t, given)
  BY SyncShape
<1>2. PICK t, given : SyncedAs(r, listing, t, given)
  BY <1>1
<1>3. ReconciledAs(listing, t, given)
  BY <1>2, ReconciledRows
<1>4. /\ pc[r] = "idle" /\ pc'[r] = "confirm"
      /\ UNCHANGED <<dir, wpc, wunit, outcome>>
  BY DEF Sync, TypeOK, worker
<1>5. Units' = DOMAIN rows' /\ Units' \subseteq DOMAIN t /\ born \subseteq born' /\ Units \subseteq born
  BY <1>2, <1>3 DEF Units, SyncedAs, ReconciledAs, TypeOK
<1>6. ASSUME NEW u \in Units', u \in born
      PROVE  u \in Units /\ (rows'[u].state = "downloaded" \/ rows'[u].state = rows[u].state)
  <2>1. u \in Units /\ t[u].state = rows[u].state
    BY <1>2, <1>5, <1>6 DEF SyncedAs
  <2>2. QED
    BY <1>3, <1>5, <1>6, <2>1 DEF ReconciledAs
<1>7. wunit \in Units' => wunit \in Units /\ rows'[wunit].state = rows[wunit].state
  <2>1. wunit \in Units' => wunit \in born
    <3>1. wunit \in born \cup {Nowhere} /\ Nowhere \notin Ids
      BY DEF TypeOK, Nowhere, Ids
    <3>2. Units' \subseteq Ids
      BY <1>2, <1>5 DEF SyncedAs
    <3>3. QED
      BY <3>1, <3>2
  <2>2. QED
    BY <1>4, <1>5, <1>6, <2>1 DEF NoGiftInHand
<1>8. InHand'
  BY <1>4, <1>7 DEF SavedOnly, InHand
<1>9. \A u \in Units' \cap dir' : rows'[u].state = "downloaded" \/ Recording(u)'
  <2>1. SUFFICES ASSUME NEW u \in Units' \cap dir'
                 PROVE  rows'[u].state = "downloaded" \/ Recording(u)'
    OBVIOUS
  <2>2. u \in Units \cap dir
    BY <1>4, <1>6 DEF SavedOnly
  <2>3. QED
    BY <1>4, <1>6, <2>2 DEF SavedOnly, Recording
<1>10. ASSUME NEW q \in Refreshes, NEW u \in Units' \cap Unmoved(q)'
       PROVE  rows'[u].state = "downloaded"
  <2>1. ops' = [ops EXCEPT ![r] = FileOps(t, listing, given)]
    BY <1>2 DEF SyncedAs, Reconcile
  <2>2. PICK op \in ops'[q] : op.kind # "remove" /\ op.to = u
    BY <1>10 DEF Unmoved
  <2>3. CASE q = r
    <3>1. op \in FileOps(t, listing, given)
      BY <2>1, <2>2, <2>3 DEF TypeOK
    <3>2. PICK g \in given : op = [kind |-> "rename", from |-> g, to |-> Twin(t, listing, g)]
      BY <2>2, <3>1 DEF FileOps
    <3>3. u = Twin(t, listing, g)
      BY <2>2, <3>2
    <3>4. QED
      BY <1>3, <1>5, <3>3 DEF ReconciledAs
  <2>4. CASE q # r
    <3>1. op \in ops[q]
      BY <2>1, <2>2, <2>4 DEF TypeOK
    <3>2. u \in Unmoved(q) /\ u \in born
      BY <2>2, <3>1 DEF Unmoved, CopiesInOrder, OpsInOrder
    <3>3. QED
      BY <1>6, <3>2 DEF SavedOnly
  <2>5. QED
    BY <2>3, <2>4
<1>11. QED
  BY <1>4, <1>5, <1>8, <1>9, <1>10 DEF SavedOnly

LEMMA WorkerKeepsSaved ==
    ASSUME TypeOK, SavedOnly, WorkerStep
    PROVE  SavedOnly'
<1>1. UNCHANGED <<born, ops>> /\ \A r \in Refreshes : Unmoved(r)' = Unmoved(r)
  BY DEF WorkerStep, Poll, Claim, Fetch, Stage, Promote, Record, Discard, refresh, Unmoved
<1>2. Nowhere \notin Units /\ wunit \in born \cup {Nowhere}
  BY DEF TypeOK, Units, Ids, Nowhere
<1>3. ASSUME rows' = rows, dir' \subseteq dir, InHand',
             \A u \in Units \cap dir' : Recording(u) => Recording(u)'
      PROVE  SavedOnly'
  BY <1>1, <1>3 DEF SavedOnly, Units
<1>4. CASE Poll
  <2>1. PICK u \in Units : rows[u].state = "pending" /\ wunit' = u
    BY <1>4 DEF Poll
  <2>2. wpc = "poll" /\ wpc' = "claim" /\ rows' = rows /\ dir' = dir
    BY <1>4 DEF Poll
  <2>3. InHand' /\ \A v : ~Recording(v)
    BY <2>1, <2>2 DEF InHand, Recording, Units
  <2>4. QED
    BY <1>3, <2>2, <2>3
<1>5. CASE Claim
  <2>1. /\ wpc = "claim" /\ wpc' = "fetch" /\ wunit' = wunit /\ dir' = dir
        /\ SetState({wunit}, "downloading")
    BY <1>5 DEF Claim
  <2>2. /\ Units' = Units
        /\ \A u \in Units : /\ u # wunit => rows'[u].state = rows[u].state
                            /\ u = wunit => rows'[u].state = "downloading"
    BY <2>1, SetStateRows DEF Units, RowState
  <2>3. wunit \in Units => rows[wunit].state = "pending"
    BY <2>1 DEF SavedOnly, InHand
  <2>4. \A u \in Units : rows[u].state = "downloaded" => rows'[u].state = "downloaded"
    BY <2>2, <2>3
  <2>5. InHand' /\ \A u : ~Recording(u)
    BY <2>1, <2>2 DEF InHand, Recording
  <2>6. QED
    BY <1>1, <2>1, <2>2, <2>4, <2>5 DEF SavedOnly
<1>6. CASE Fetch \/ Stage
  <2>1. /\ rows' = rows /\ wunit' = wunit /\ dir' \subseteq dir
        /\ wpc \in {"fetch", "stage"} /\ wpc' \in {"stage", "promote", "record"}
    BY <1>6 DEF Fetch, Stage
  <2>2. InHand' /\ \A u : ~Recording(u)
    BY <2>1 DEF SavedOnly, InHand, Recording, Units
  <2>3. QED
    BY <1>3, <2>1, <2>2
<1>7. CASE Promote
  <2>1. rows' = rows /\ wunit' = wunit /\ wpc = "promote" /\ wpc' = "record" /\ Units' = Units
    BY <1>7 DEF Promote, Units
  <2>2. InHand' /\ \A u : ~Recording(u)
    BY <2>1 DEF SavedOnly, InHand, Recording
  <2>3. CASE dir' = dir
    BY <1>3, <2>1, <2>2, <2>3
  <2>4. CASE dir' = dir \cup {wunit} /\ outcome' = "downloaded"
    <3>1. wunit \in born
      BY <2>1 DEF TypeOK
    <3>2. \A u \in Units' \cap dir' : rows'[u].state = "downloaded" \/ Recording(u)'
      BY <2>1, <2>2, <2>4 DEF SavedOnly, Recording
    <3>3. QED
      BY <1>1, <2>1, <2>2, <2>4, <3>1, <3>2 DEF SavedOnly
  <2>5. QED
    BY <1>7, <2>3, <2>4 DEF Promote
<1>8. CASE Record
  <2>1. /\ wpc = "record" /\ dir' = dir /\ SetState({wunit}, outcome)
        /\ \/ wunit \in Units /\ wunit' = Nowhere /\ wpc' = "poll"
           \/ wunit \notin Units /\ wpc' = "discard"
    BY <1>8 DEF Record, Rest
  <2>2. outcome \in RowState
    BY DEF TypeOK, RowState
  <2>3. /\ Units' = Units
        /\ \A u \in Units : /\ u # wunit => rows'[u].state = rows[u].state
                            /\ u = wunit => rows'[u].state = outcome
    BY <2>1, <2>2, SetStateRows DEF Units
  <2>4. wunit \in Units => rows[wunit].state = "downloading"
    BY <2>1 DEF SavedOnly, InHand
  <2>5. \A u \in Units : /\ rows[u].state = "downloaded" => rows'[u].state = "downloaded"
                         /\ Recording(u) => rows'[u].state = "downloaded"
    BY <2>3, <2>4 DEF Recording
  <2>6. InHand'
    BY <2>1, <2>3 DEF InHand
  <2>7. QED
    BY <1>1, <2>1, <2>3, <2>5, <2>6 DEF SavedOnly
<1>9. CASE Discard
  <2>1. rows' = rows /\ dir' \subseteq dir /\ wpc = "discard" /\ wpc' = "poll"
    BY <1>9 DEF Discard, Rest
  <2>2. InHand' /\ \A u : ~Recording(u)
    BY <2>1 DEF InHand, Recording
  <2>3. QED
    BY <1>3, <2>1, <2>2
<1>10. QED
  BY <1>4, <1>5, <1>6, <1>7, <1>8, <1>9 DEF WorkerStep

LEMMA RestartKeepsSaved ==
    ASSUME TypeOK, SavedOnly, PromotedIsRecorded, Restart
    PROVE  SavedOnly'
<1>1. /\ UNCHANGED <<born, dir>> /\ wpc' = "poll"
      /\ \A r \in Refreshes : ops'[r] = {}
      /\ SetState({u \in Units : rows[u].state = "downloading"}, "pending")
  BY DEF Restart, Rest
<1>2. /\ DOMAIN rows' = Units
      /\ \A u \in Units :
            rows'[u].state = IF rows[u].state = "downloading" THEN "pending" ELSE rows[u].state
  BY <1>1, SetStateRows DEF RowState
<1>3. ASSUME NEW u \in Units \cap dir PROVE rows[u].state = "downloaded"
  <2>1. CASE Recording(u)
    <3>1. rows[u].state = "downloading"
      BY <2>1 DEF SavedOnly, InHand, Recording
    <3>2. rows'[u].state = "downloaded"
      BY <1>1, <1>2, <2>1 DEF Recording, PromotedIsRecorded
    <3>3. QED
      BY <1>2, <3>1, <3>2
  <2>2. QED
    BY <2>1 DEF SavedOnly
<1>4. InHand' /\ \A r \in Refreshes : Unmoved(r)' = {}
  BY <1>1 DEF InHand, Unmoved
<1>5. QED
  BY <1>1, <1>2, <1>3, <1>4 DEF SavedOnly, Units

LEMMA SavedStep ==
    ASSUME TypeOK, CopiesInOrder, SavedOnly, [Next]_vars, NoGiftInHand, PromotedIsRecorded
    PROVE  SavedOnly'
<1>1. ASSUME NEW r \in Refreshes, Confirm(r) \/ Drop(r) PROVE SavedOnly'
  <2>1. /\ rows' = rows /\ dir' = dir /\ UNCHANGED <<born, wpc, wunit, outcome>>
        /\ ops' = ops \/ Return(r)
    BY <1>1 DEF Confirm, Drop, worker
  <2>2. \A q \in Refreshes : Unmoved(q)' \subseteq Unmoved(q)
    BY <2>1, ReturnKeepsSaved DEF Unmoved
  <2>3. QED
    BY <2>1, <2>2, OthersKeepSaved DEF Units
<1>2. ASSUME NEW r \in Refreshes, Queue(r) PROVE SavedOnly'
  <2>1. \A q \in Refreshes : Unmoved(q)' \subseteq Unmoved(q)
    BY <1>2, ReturnKeepsSaved DEF Queue
  <2>2. dir' = dir /\ UNCHANGED <<born, wpc, wunit, outcome>>
    BY <1>2 DEF Queue, worker
  <2>3. CASE rows' = rows
    BY <2>1, <2>2, <2>3, OthersKeepSaved DEF Units
  <2>4. CASE rows' # rows
    <3> DEFINE S == IF AutoDownload
                    THEN {u \in fresh[r] \cap Units : rows[u].state \in {"none", "failed"}}
                    ELSE {}
    <3>1. SetState(S, "pending")
      BY <1>2, <2>4 DEF Queue
    <3>2. \A u \in S : rows[u].state \in {"none", "failed"}
      OBVIOUS
    <3> HIDE DEF S
    <3>3. /\ DOMAIN rows' = Units
          /\ \A u \in Units : \/ rows'[u].state = rows[u].state
                              \/ u \in S /\ rows'[u].state = "pending"
      BY <3>1, SetStateRows DEF RowState
    <3>4. QED
      BY <2>1, <2>2, <3>2, <3>3, OthersKeepSaved
  <2>5. QED
    BY <2>3, <2>4
<1>3. ASSUME NEW u \in Ids, Ask(u) \/ Read(u) PROVE SavedOnly'
  <2>1. dir' = dir /\ ops' = ops /\ UNCHANGED <<born, wpc, wunit, outcome>>
    BY <1>3 DEF Ask, Read, worker, refresh
  <2>2. \A q \in Refreshes : Unmoved(q)' \subseteq Unmoved(q)
    BY <2>1 DEF Unmoved
  <2>3. CASE Ask(u)
    <3>1. /\ DOMAIN rows' = Units
          /\ \A v \in Units : \/ rows'[v].state = rows[v].state
                              \/ v = u /\ rows'[v].state = "pending"
      BY <2>3, SetStateRows DEF Ask, RowState
    <3>2. rows[u].state \in {"none", "failed", "unavailable"}
      BY <2>3 DEF Ask
    <3>3. QED
      BY <2>1, <2>2, <3>1, <3>2, OthersKeepSaved
  <2>4. CASE Read(u)
    BY <2>1, <2>2, <2>4, OthersKeepSaved DEF Read, Units
  <2>5. QED
    BY <1>3, <2>3, <2>4
<1>4. CASE UNCHANGED vars
  <2>1. \A q \in Refreshes : Unmoved(q)' \subseteq Unmoved(q)
    BY <1>4 DEF vars, Unmoved
  <2>2. QED
    BY <1>4, <2>1, OthersKeepSaved DEF vars, Units
<1>5. QED
  BY <1>1, <1>2, <1>3, <1>4, SyncKeepsSaved, FileStepKeepsSaved, WorkerKeepsSaved,
     RestartKeepsSaved DEF Next, RefreshStep

(* A chapter whose row goes has a twin among the rows that remain, or had   *)
(* nothing on disk.                                                         *)
LEMMA DroppedIsEmpty ==
    ASSUME TypeOK, SavedOnly, [Next]_vars, NEW u \in Units \ DOMAIN rows',
           ~\E v \in DOMAIN rows' : rows'[v].sign = rows[u].sign
    PROVE  u \notin dir
<1>1. PICK r \in Refreshes : Sync(r)
  BY RowsStep
<1>2. PICK listing \in Listings : \E t, given : SyncedAs(r, listing, t, given)
  BY <1>1, SyncShape
<1>3. PICK t, given : SyncedAs(r, listing, t, given)
  BY <1>2
<1>0. ReconciledAs(listing, t, given)
  BY <1>3, ReconciledRows
<1>4. /\ DOMAIN rows' = DOMAIN t \ (Merged(t, listing) \cup Dropped(t, listing))
      /\ \A v \in DOMAIN rows' : rows'[v].sign = t[v].sign
  BY <1>0 DEF ReconciledAs
<1>5. /\ u \in DOMAIN t /\ t[u].state = rows[u].state
      /\ t[u].key \notin DOMAIN listing => t[u].sign = rows[u].sign
  BY <1>3 DEF SyncedAs
<1>6. u \notin Merged(t, listing)
  <2>1. SUFFICES ASSUME u \in Merged(t, listing) PROVE FALSE
    OBVIOUS
  <2> DEFINE v == Twin(t, listing, u)
  <2>2. v \in DOMAIN rows' /\ t[v].sign = t[u].sign
    BY <1>4, <2>1, MergedRows
  <2>3. t[u].sign = rows[u].sign
    BY <1>5, <2>1, MergedRows
  <2>4. QED
    BY <1>4, <2>2, <2>3
<1>7. u \in Dropped(t, listing)
  BY <1>4, <1>5, <1>6
<1>8. rows[u].state \in {"none", "failed"}
  BY <1>5, <1>7 DEF Dropped
<1>9. QED
  BY <1>8 DEF SavedOnly, InHand, Recording

(* Away from the two windows, a chapter that leaves the listing without a   *)
(* twin takes no pages with it (db/units.rs, the third pass of sync_units). *)
THEOREM OnlyEmptyDroppedApart ==
    Spec /\ [][NoGiftInHand]_vars /\ [][PromotedIsRecorded]_vars => OnlyEmptyIsDropped
<1> DEFINE Empty ==
        \A u \in Units \ DOMAIN rows' :
            (~\E v \in DOMAIN rows' : rows'[v].sign = rows[u].sign) => u \notin dir
<1>1. Init => SavedOnly
  <2> SUFFICES ASSUME Init PROVE SavedOnly
    OBVIOUS
  <2>1. dir = {} /\ wpc = "poll" /\ \A r \in Refreshes : ops[r] = {}
    BY DEF Init
  <2>2. QED
    BY <2>1 DEF SavedOnly, InHand, Unmoved
<1>2. TypeOK /\ CopiesInOrder /\ SavedOnly /\ [Next]_vars /\ [NoGiftInHand]_vars
      /\ [PromotedIsRecorded]_vars => SavedOnly'
  <2> SUFFICES ASSUME TypeOK, CopiesInOrder, SavedOnly, [Next]_vars, [NoGiftInHand]_vars,
                      [PromotedIsRecorded]_vars
               PROVE  SavedOnly'
    OBVIOUS
  <2>1. CASE UNCHANGED vars
    BY <2>1 DEF vars, SavedOnly, InHand, Units, Recording, Unmoved
  <2>2. CASE ~UNCHANGED vars
    BY <2>2, SavedStep
  <2>3. QED
    BY <2>1, <2>2
<1>3. TypeOK /\ SavedOnly /\ [Next]_vars => [Empty]_vars
  BY DroppedIsEmpty
<1>4. QED
  BY <1>1, <1>2, <1>3, TypeCorrect, SpecCopiesInOrder, PTL DEF Spec, OnlyEmptyIsDropped
=============================================================================
