----------------------------- MODULE LivePages -----------------------------
(***************************************************************************)
(* The server's cache of page addresses of chapters that are read live:    *)
(* requests that look an address list up, ask the source for one, store it *)
(* and fetch a page by it, against one another, against the source, which  *)
(* gives a chapter new addresses and lets the old ones expire, and against *)
(* downloads and removals of the chapter.                                  *)
(***************************************************************************)
EXTENDS Naturals, SequencesExt

CONSTANTS
    LiveUnits,      \* chapters
    LocalUnits,     \* those of files beside the server, whose addresses stay
    Viewers,        \* requests
    CacheSize,      \* LIVE_PAGES_MAX
    MaxRenewals,    \* bound: addresses a source gives a chapter after the first
    MaxRowMoves     \* bound: chapters downloaded, removed or deleted

ASSUME LiveAssumption ==
    /\ LocalUnits \subseteq LiveUnits
    /\ CacheSize \in Nat \ {0} /\ MaxRenewals \in Nat /\ MaxRowMoves \in Nat

VARIABLES
    held,       \* what the chapter's row says of it
    address,    \* the addresses under which the source has its pages now
    entries,    \* the cache, oldest entry first
    viewer,     \* each request
    toDrop,     \* rows that were written and whose entry is still to go
    rowMoves    \* how many were

liveVars == <<held, address, entries, viewer, toDrop, rowMoves>>

AddressLists == 0 .. MaxRenewals

Entry == [unit : LiveUnits, list : AddressLists, old : BOOLEAN]

NoRequest == [at |-> "idle"]

(* retried, since and crossed: a page could not be fetched, which addresses *)
(* were valid when the entry was dropped for that, and whether older ones   *)
(* were at that time on their way into the cache.                           *)
Viewing == [at : {"look", "resolve", "put", "fetch"}, unit : LiveUnits, image : BOOLEAN,
            list : AddressLists, retried : BOOLEAN, since : AddressLists, crossed : BOOLEAN]

LiveTypeOK ==
    /\ held \in [LiveUnits -> {"remote", "stored", "gone"}]
    /\ address \in [LiveUnits -> AddressLists]
    /\ entries \in Seq(Entry) /\ Len(entries) <= CacheSize
    /\ viewer \in [Viewers -> {NoRequest} \cup Viewing]
    /\ toDrop \subseteq LiveUnits /\ rowMoves \in 0 .. MaxRowMoves

LiveInit ==
    /\ held = [u \in LiveUnits |-> "remote"]
    /\ address = [u \in LiveUnits |-> 0]
    /\ entries = <<>>
    /\ viewer = [r \in Viewers |-> NoRequest]
    /\ toDrop = {} /\ rowMoves = 0

-----------------------------------------------------------------------------
(* Mutant of Invalidated: the entry stays. *)
InvalidatedNothing(u) == entries

Doing(r, step) == viewer[r].at = step
Knows(u) == \E k \in 1 .. Len(entries) : entries[k].unit = u
EntryOf(u) == CHOOSE k \in 1 .. Len(entries) : entries[k].unit = u
OtherEntries(u) == IF Knows(u) THEN RemoveAt(entries, EntryOf(u)) ELSE entries

(* LivePages::get, ::put, ::invalidate. *)
Got(u) == {e \in {entries[k] : k \in 1 .. Len(entries)} : e.unit = u /\ ~e.old}

WithList(u, l) ==
    LET kept == IF Len(entries) >= CacheSize /\ ~Knows(u) THEN Tail(entries) ELSE OtherEntries(u)
    IN  Append(kept, [unit |-> u, list |-> l, old |-> FALSE])

Invalidated(u) == OtherEntries(u)

Ended(r) == viewer' = [viewer EXCEPT ![r] = NoRequest]

(* Someone opens a chapter (its number of pages) or one of its pages; it is *)
(* not on this server's disk, or is recorded there and the files are gone.  *)
Ask(r, u, image) ==
    /\ Doing(r, "idle") /\ held[u] # "gone"
    /\ viewer' = [viewer EXCEPT ![r] =
           [at |-> "look", unit |-> u, image |-> image, list |-> 0,
            retried |-> FALSE, since |-> 0, crossed |-> FALSE]]
    /\ UNCHANGED <<held, address, entries, toDrop, rowMoves>>

Found(r) ==
    /\ Doing(r, "look")
    /\ \E e \in Got(viewer[r].unit) :
           IF viewer[r].image
           THEN viewer' = [viewer EXCEPT ![r].at = "fetch", ![r].list = e.list]
           ELSE Ended(r)
    /\ UNCHANGED <<held, address, entries, toDrop, rowMoves>>

NotFound(r) ==
    /\ Doing(r, "look") /\ Got(viewer[r].unit) = {}
    /\ viewer' = [viewer EXCEPT ![r].at = "resolve"]
    /\ UNCHANGED <<held, address, entries, toDrop, rowMoves>>

(* The source answers; the count of pages is written before the list is.    *)
Resolve(r) ==
    /\ Doing(r, "resolve")
    /\ viewer' = [viewer EXCEPT ![r].at = "put", ![r].list = address[viewer[r].unit]]
    /\ UNCHANGED <<held, address, entries, toDrop, rowMoves>>

PutList(r) ==
    /\ Doing(r, "put")
    /\ entries' = WithList(viewer[r].unit, viewer[r].list)
    /\ IF viewer[r].image THEN viewer' = [viewer EXCEPT ![r].at = "fetch"] ELSE Ended(r)
    /\ UNCHANGED <<held, address, toDrop, rowMoves>>

(* A page that cannot be fetched: the entry goes and the list is looked up  *)
(* once more.                                                               *)
Retry(r) ==
    LET u == viewer[r].unit IN
    /\ Doing(r, "fetch") /\ ~viewer[r].retried /\ u \notin LocalUnits
    /\ entries' = Invalidated(u)
    /\ viewer' = [viewer EXCEPT ![r].at = "look", ![r].list = 0, ![r].retried = TRUE,
                      ![r].since = address[u],
                      ![r].crossed = \E q \in Viewers :
                          Doing(q, "put") /\ viewer[q].unit = u /\ viewer[q].list < address[u]]
    /\ UNCHANGED <<held, address, toDrop, rowMoves>>

(* The end of a request, with or without a page: the image came, or failed  *)
(* for good, or the source did, or the publication is gone, or the client.  *)
Leave(r) ==
    /\ ~Doing(r, "idle") /\ Ended(r)
    /\ UNCHANGED <<held, address, entries, toDrop, rowMoves>>

-----------------------------------------------------------------------------
Renew(u) ==
    /\ u \notin LocalUnits /\ address[u] < MaxRenewals
    /\ address' = [address EXCEPT ![u] = @ + 1]
    /\ UNCHANGED <<held, entries, viewer, toDrop, rowMoves>>

(* LIVE_PAGES_TTL passes for the older entries.                             *)
Elapse ==
    /\ \E k \in 1 .. Len(entries) :
           /\ ~entries[k].old
           /\ entries' = [j \in 1 .. Len(entries) |->
                             [entries[j] EXCEPT !.old = @ \/ j <= k]]
    /\ UNCHANGED <<held, address, viewer, toDrop, rowMoves>>

(* A row is written; the entry is dropped afterwards.                       *)
RowMoves(u, value) ==
    /\ rowMoves < MaxRowMoves
    /\ held' = [held EXCEPT ![u] = value]
    /\ toDrop' = toDrop \cup {u} /\ rowMoves' = rowMoves + 1
    /\ UNCHANGED <<address, entries, viewer>>

(* The worker records a download, a person removes it from the server or    *)
(* deletes the publication.                                                 *)
Downloaded(u) == held[u] = "remote" /\ RowMoves(u, "stored")
RemoveDownload(u) == held[u] = "stored" /\ RowMoves(u, "remote")
DeleteLive(u) == held[u] # "gone" /\ RowMoves(u, "gone")

DropEntry(u) ==
    /\ u \in toDrop /\ toDrop' = toDrop \ {u}
    /\ entries' = Invalidated(u)
    /\ UNCHANGED <<held, address, viewer, rowMoves>>

(* The person's request is dropped before it gets there.                    *)
LoseDrop(u) ==
    /\ u \in toDrop /\ held[u] # "stored" /\ toDrop' = toDrop \ {u}
    /\ UNCHANGED <<held, address, entries, viewer, rowMoves>>

LiveNext ==
    \/ \E r \in Viewers :
           \/ \E u \in LiveUnits, image \in BOOLEAN : Ask(r, u, image)
           \/ Found(r) \/ NotFound(r) \/ Resolve(r) \/ PutList(r) \/ Retry(r) \/ Leave(r)
    \/ \E u \in LiveUnits :
           \/ Renew(u) \/ Downloaded(u) \/ RemoveDownload(u) \/ DeleteLive(u)
           \/ DropEntry(u) \/ LoseDrop(u)
    \/ Elapse

LiveSpec == LiveInit /\ [][LiveNext]_liveVars

-----------------------------------------------------------------------------
(* A page asked for a second time is asked for under addresses at least as  *)
(* recent as those that were valid when the first attempt failed, however   *)
(* many readers resolve the chapter at once: only a list that was already   *)
(* on its way into the cache when the entry was dropped can bring the       *)
(* expired ones back (page_image, live_pages).                              *)
RetriedIsFresh ==
    \A r \in Viewers :
        Doing(r, "fetch") /\ viewer[r].retried
        => viewer[r].list >= viewer[r].since \/ viewer[r].crossed
=============================================================================
